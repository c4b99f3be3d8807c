----------------------------- MODULE HeapProofs -----------------------------
(***************************************************************************)
(* The heap of module Heap is correct for every size of the array, of the  *)
(* headers and of the requests; and what the functions of module           *)
(* Memory do to any region of memory.                                      *)
(***************************************************************************)
EXTENDS Heap, Memory, WellFoundedInduction, TLAPS

\* While free merges, its current block is a free block of the list.
CurrentIsFree ==
  pc # "idle" => current \in Blocks /\ block[current].IsFree

IInv ==
  /\ TypeOK
  /\ BlocksTile
  /\ Coalesced
  /\ OwnedBacked
  /\ NothingLeaks
  /\ CurrentIsFree

\* A list of well-typed headers that tiles the array.
GoodList(b) ==
  /\ DOMAIN b \subseteq Address
  /\ b \in [DOMAIN b -> BlockHeader]
  /\ Tiles(b)

-----------------------------------------------------------------------------
(* The three ways the list changes keep it good. *)

\* init_memory builds a good list.
LEMMA WholeHeapGood == GoodList(WholeHeap)
<1>1. DOMAIN WholeHeap = {0} /\ WholeHeap[0] = Header(MemorySize - HeaderSize, TRUE, NULL)
  BY DEF WholeHeap
<1>2. WholeHeap[0] \in BlockHeader
  BY <1>1, HeapAssumption DEF Header, BlockHeader
<1>3. End(WholeHeap, 0) = MemorySize
  BY <1>1, HeapAssumption DEF Header, End
<1>4. WholeHeap \in [DOMAIN WholeHeap -> BlockHeader]
  BY <1>1, <1>2 DEF WholeHeap
<1>5. Tiles(WholeHeap)
  BY <1>1, <1>3, HeapAssumption DEF Tiles, Header, Address
<1>6. QED
  BY <1>1, <1>4, <1>5, HeapAssumption DEF GoodList, Address

\* Splitting a block or handing it out whole keeps the list good.
LEMMA TakeGood ==
  ASSUME NEW b, GoodList(b), NEW size \in Nat,
         NEW a \in DOMAIN b, b[a].Size >= size
  PROVE  GoodList(Take(b, a, size))
<1> DEFINE t == Take(b, a, size)
           rest == a + HeaderSize + size
<1>1. /\ a \in Int /\ 0 <= a /\ a < MemorySize
      /\ b[a] \in BlockHeader
  BY HeapAssumption DEF GoodList, Address
<1>2. CASE b[a].Size > size + HeaderSize + BlockSize
  <2>1. t = Split(b, a, size, b[a].Size - size - HeaderSize)
    BY <1>2 DEF Take
  <2>2. DOMAIN t = DOMAIN b \cup {rest}
    BY <2>1 DEF Split
  <2>3. a < rest /\ rest + HeaderSize < End(b, a) /\ rest \in Int
    BY <1>1, <1>2, HeapAssumption DEF End, BlockHeader
  <2>4. End(b, a) <= MemorySize
    BY <1>1, HeapAssumption DEF GoodList, Tiles, Address
  <2>5. rest \in Address
    BY <1>1, <2>3, <2>4, HeapAssumption DEF Address, End, BlockHeader
  <2>6. t[a] = Header(size, FALSE, rest)
    BY <2>1 DEF Split
  <2>7. t[rest] = Header(b[a].Size - size - HeaderSize, TRUE, b[a].Next)
    <3>1. rest \in DOMAIN b \cup {rest} /\ rest # a
      BY <1>1, <2>3
    <3>2. QED
      BY <3>1, <2>1 DEF Split
  <2>8. \A c \in DOMAIN b : c # a /\ c # rest => t[c] = b[c]
    BY <2>1 DEF Split
  <2>9. rest \notin DOMAIN b
    BY <2>3, <1>1, HeapAssumption DEF GoodList, Tiles, Address
  <2>10. t \in [DOMAIN t -> BlockHeader]
    <3>1. t[a] \in BlockHeader
      BY <2>6, <2>5 DEF Header, BlockHeader
    <3>2. t[rest] \in BlockHeader
      BY <1>1, <1>2, <2>7, HeapAssumption DEF Header, BlockHeader
    <3>3. \A c \in DOMAIN b : b[c] \in BlockHeader
      BY DEF GoodList
    <3>4. \A c \in DOMAIN t : t[c] \in BlockHeader
      BY <3>1, <3>2, <3>3, <2>2, <2>8
    <3>5. QED
      BY <3>4, <2>1 DEF Split
  <2>11. End(t, a) = rest
    BY <2>6 DEF Header, End
  <2>12. End(t, rest) = End(b, a)
    BY <2>7, <1>1, HeapAssumption DEF Header, End, BlockHeader
  <2>13. \A c \in DOMAIN b : c # a => End(t, c) = End(b, c) /\ t[c].Next = b[c].Next
    BY <2>8, <2>9 DEF End
  <2>14. t[rest].Next = b[a].Next /\ t[a].Next = rest
    BY <2>6, <2>7 DEF Header
  <2>15. Tiles(t)
    <3>1. \A c \in DOMAIN t :
             \/ End(t, c) \in DOMAIN t /\ t[c].Next = End(t, c)
             \/ End(t, c) = MemorySize /\ t[c].Next = NULL
      BY <2>2, <2>11, <2>12, <2>13, <2>14 DEF GoodList, Tiles
    <3>2. ASSUME NEW c \in DOMAIN t, NEW d \in DOMAIN t, c < d
          PROVE  End(t, c) <= d
      <4>1. \A x, y \in DOMAIN b : x < y => End(b, x) <= y
        BY DEF GoodList, Tiles
      <4>2. \A x \in DOMAIN b : x \in Int /\ End(b, x) \in Int
        BY HeapAssumption DEF GoodList, Address, BlockHeader, End
      <4>3. CASE c = a /\ d = rest
        BY <4>3, <2>11, <2>3
      <4>4. CASE c = a /\ d # rest
        <5>1. End(b, a) <= d /\ d \in Int /\ End(b, a) \in Int
          BY <4>1, <4>2, <4>4, <3>2, <2>2
        <5>2. QED
          BY <4>4, <5>1, <2>11, <2>3, HeapAssumption
      <4>5. CASE c = rest
        BY <4>1, <4>2, <4>5, <3>2, <2>2, <2>12, <2>3, <1>1
      <4>6. CASE c # a /\ c # rest /\ d = rest
        <5>1. c \in DOMAIN b /\ c < rest
          BY <4>6, <3>2, <2>2
        <5>2. ~(a < c)
          BY <5>1, <4>1, <4>2, <2>3, HeapAssumption
        <5>3. End(b, c) <= a
          BY <5>1, <5>2, <4>1, <4>2, <4>6
        <5>4. QED
          BY <5>1, <5>3, <4>2, <4>6, <2>13, <2>3
      <4>7. CASE c # a /\ c # rest /\ d # rest
        BY <4>1, <4>7, <3>2, <2>2, <2>13
      <4>8. QED
        BY <4>3, <4>4, <4>5, <4>6, <4>7
    <3>3. ASSUME NEW x \in Address
          PROVE  \E c \in DOMAIN t : c <= x /\ x < End(t, c)
      <4>1. PICK c \in DOMAIN b : c <= x /\ x < End(b, c)
        BY DEF GoodList, Tiles
      <4>2. CASE c # a
        BY <4>1, <4>2, <2>2, <2>13
      <4>3. CASE c = a /\ x < rest
        BY <4>1, <4>3, <2>2, <2>11
      <4>4. CASE c = a /\ rest <= x
        BY <4>1, <4>4, <2>2, <2>12
      <4>5. QED
        BY <4>2, <4>3, <4>4, <2>3, <1>1, HeapAssumption DEF Address
    <3>4. QED
      BY <3>1, <3>2, <3>3 DEF Tiles
  <2>16. QED
    BY <2>2, <2>5, <2>10, <2>15 DEF GoodList
<1>3. CASE ~(b[a].Size > size + HeaderSize + BlockSize)
  <2>1. t = [b EXCEPT ![a].IsFree = FALSE]
    BY <1>3 DEF Take
  <2>2. DOMAIN t = DOMAIN b
    BY <2>1
  <2>3. \A c \in DOMAIN b : t[c].Size = b[c].Size /\ t[c].Next = b[c].Next
    BY <2>1, <1>1 DEF GoodList, BlockHeader
  <2>4. \A c \in DOMAIN b : End(t, c) = End(b, c)
    BY <2>3 DEF End
  <2>5. t \in [DOMAIN t -> BlockHeader]
    BY <2>1, <1>1 DEF GoodList, BlockHeader
  <2>6. Tiles(t)
    BY <2>2, <2>3, <2>4 DEF GoodList, Tiles
  <2>7. QED
    BY <2>2, <2>5, <2>6 DEF GoodList
<1>4. QED
  BY <1>2, <1>3

\* Merging a block with its successor keeps the list good.
LEMMA SwallowGood ==
  ASSUME GoodList(block), NEW a \in Blocks, NEW c \in Blocks, block[a].Next = c
  PROVE  GoodList(Swallow(a, c))
<1> DEFINE t == Swallow(a, c)
<1>1. \A x \in Blocks : /\ x \in Int /\ 0 <= x /\ x < MemorySize
                        /\ block[x] \in BlockHeader
                        /\ End(block, x) \in Int
  BY HeapAssumption DEF GoodList, Address, Blocks, End, BlockHeader
<1>2. c = End(block, a)
  BY <1>1, HeapAssumption DEF GoodList, Tiles, Blocks
<1>3. a < c
  BY <1>1, <1>2, HeapAssumption DEF End, BlockHeader
<1>4. DOMAIN t = Blocks \ {c}
  BY DEF Swallow, Blocks
<1>5. t[a] = Header(block[a].Size + HeaderSize + block[c].Size,
                    block[a].IsFree, block[c].Next)
  BY <1>1, <1>3 DEF Swallow, Blocks
<1>6. \A x \in Blocks \ {a, c} : t[x] = block[x]
  BY DEF Swallow, Blocks
<1>7. t \in [DOMAIN t -> BlockHeader]
  <2>1. t[a] \in BlockHeader
    BY <1>1, <1>5, HeapAssumption DEF Header, BlockHeader
  <2>2. \A x \in DOMAIN t : t[x] \in BlockHeader
    BY <2>1, <1>1, <1>4, <1>6
  <2>3. QED
    BY <2>2 DEF Swallow
<1>8. End(t, a) = End(block, c)
  BY <1>1, <1>2, <1>5, HeapAssumption DEF End, Header, BlockHeader
<1>9. \A x \in Blocks \ {a, c} : End(t, x) = End(block, x) /\ t[x].Next = block[x].Next
  BY <1>6 DEF End
<1>10. t[a].Next = block[c].Next
  BY <1>5 DEF Header
<1>11. \A x, y \in Blocks : x < y => End(block, x) <= y
  BY DEF GoodList, Tiles, Blocks
<1>12. Tiles(t)
  <2>1. ASSUME NEW x \in DOMAIN t
        PROVE  \/ End(t, x) \in DOMAIN t /\ t[x].Next = End(t, x)
               \/ End(t, x) = MemorySize /\ t[x].Next = NULL
    <3>1. CASE x = a
      <4>1. End(block, c) # c
        BY <1>1, HeapAssumption DEF End, BlockHeader
      <4>2. QED
        BY <3>1, <4>1, <1>4, <1>8, <1>10 DEF GoodList, Tiles, Blocks
    <3>2. CASE x # a
      <4>1. End(block, x) # c
        <5>1. x < a \/ a < x
          BY <3>2, <1>1, <1>4
        <5>2. CASE x < a
          BY <5>2, <1>1, <1>3, <1>4, <1>11
        <5>3. CASE a < x
          <6>1. c <= x
            BY <5>3, <1>2, <1>4, <1>11
          <6>2. x < End(block, x)
            BY <1>1, <1>4, HeapAssumption DEF End, BlockHeader
          <6>3. QED
            BY <6>1, <6>2, <1>1, <1>4
        <5>4. QED
          BY <5>1, <5>2, <5>3
      <4>2. QED
        BY <3>2, <4>1, <1>4, <1>9 DEF GoodList, Tiles, Blocks
    <3>3. QED
      BY <3>1, <3>2
  <2>2. ASSUME NEW x \in DOMAIN t, NEW y \in DOMAIN t, x < y
        PROVE  End(t, x) <= y
    <3>1. CASE x = a
      <4>1. c <= y /\ y # c
        BY <3>1, <2>2, <1>2, <1>4, <1>11
      <4>2. QED
        BY <3>1, <4>1, <1>1, <1>4, <1>8, <1>11
    <3>2. CASE x # a
      BY <3>2, <2>2, <1>4, <1>9, <1>11
    <3>3. QED
      BY <3>1, <3>2
  <2>3. ASSUME NEW x \in Address
        PROVE  \E y \in DOMAIN t : y <= x /\ x < End(t, y)
    <3>1. PICK y \in Blocks : y <= x /\ x < End(block, y)
      BY DEF GoodList, Tiles, Blocks
    <3>2. x \in Int
      BY HeapAssumption DEF Address
    <3>3. CASE y = c
      BY <3>1, <3>2, <3>3, <1>1, <1>3, <1>4, <1>8
    <3>4. CASE y = a
      <4>1. a <= x /\ x < c
        BY <3>1, <3>4, <1>2
      <4>2. c < End(block, c)
        BY <1>1, HeapAssumption DEF End, BlockHeader
      <4>3. x < End(t, a) /\ a \in DOMAIN t
        BY <4>1, <4>2, <3>2, <1>1, <1>3, <1>4, <1>8
      <4>4. QED
        BY <4>1, <4>3
    <3>5. CASE y # a /\ y # c
      BY <3>1, <3>5, <1>4, <1>9
    <3>6. QED
      BY <3>3, <3>4, <3>5
  <2>4. QED
    BY <2>1, <2>2, <2>3 DEF Tiles
<1>13. QED
  BY <1>1, <1>4, <1>7, <1>12 DEF GoodList, Blocks

\* Marking a block free keeps the list good.
LEMMA MarkGood ==
  ASSUME GoodList(block), NEW a \in Blocks
  PROVE  GoodList([block EXCEPT ![a].IsFree = TRUE])
<1> DEFINE t == [block EXCEPT ![a].IsFree = TRUE]
<1>1. DOMAIN t = Blocks /\ t \in [DOMAIN t -> BlockHeader]
  BY DEF GoodList, Blocks, BlockHeader
<1>2. \A x \in Blocks : t[x].Size = block[x].Size /\ t[x].Next = block[x].Next
  BY DEF GoodList, Blocks, BlockHeader
<1>3. \A x \in Blocks : End(t, x) = End(block, x)
  BY <1>2 DEF End
<1>4. QED
  BY <1>1, <1>2, <1>3 DEF GoodList, Tiles, Blocks

-----------------------------------------------------------------------------
(* What a step of the list does to its blocks. *)

\* Taking block a leaves the others alone, makes it long enough and not much
\* longer, and a block cut off behind it is free and inherits its link.
LEMMA TakeFacts ==
  ASSUME NEW b, GoodList(b), NEW size \in Nat,
         NEW a \in DOMAIN b, b[a].Size >= size
  PROVE  LET t == Take(b, a, size)
         IN  /\ DOMAIN b \subseteq DOMAIN t
             /\ ~t[a].IsFree
             /\ size <= t[a].Size /\ t[a].Size <= size + HeaderSize + BlockSize
             /\ \A c \in DOMAIN b : c # a => t[c] = b[c]
             /\ \A c \in DOMAIN t :
                  c \notin DOMAIN b => t[c].IsFree /\ t[c].Next = b[a].Next
<1> DEFINE t == Take(b, a, size)
           rest == a + HeaderSize + size
<1>1. a \in Int /\ b[a] \in BlockHeader
  BY HeapAssumption DEF GoodList, Address
<1>2. CASE b[a].Size > size + HeaderSize + BlockSize
  <2>1. t = Split(b, a, size, b[a].Size - size - HeaderSize)
    BY <1>2 DEF Take
  <2>2. a < rest /\ rest < End(b, a) /\ rest \in Int
    BY <1>1, <1>2, HeapAssumption DEF End, BlockHeader
  <2>3. rest \notin DOMAIN b
    BY <2>2, <1>1, HeapAssumption DEF GoodList, Tiles, Address, End, BlockHeader
  <2>4. t[a] = Header(size, FALSE, rest)
    BY <2>1 DEF Split
  <2>5. rest \in DOMAIN b \cup {rest} /\ rest # a
    BY <1>1, <2>2
  <2>6. t[rest] = Header(b[a].Size - size - HeaderSize, TRUE, b[a].Next)
    BY <2>1, <2>5 DEF Split
  <2>7. DOMAIN t = DOMAIN b \cup {rest}
    BY <2>1 DEF Split
  <2>8. \A c \in DOMAIN b : c # a => t[c] = b[c]
    BY <2>1, <2>3 DEF Split
  <2>9. ~t[a].IsFree /\ t[a].Size = size
    BY <2>4 DEF Header
  <2>10. t[rest].IsFree /\ t[rest].Next = b[a].Next
    BY <2>6 DEF Header
  <2>11. QED
    BY <2>7, <2>8, <2>9, <2>10, HeapAssumption
<1>3. CASE ~(b[a].Size > size + HeaderSize + BlockSize)
  <2>1. t = [b EXCEPT ![a].IsFree = FALSE]
    BY <1>3 DEF Take
  <2>2. DOMAIN t = DOMAIN b /\ \A c \in DOMAIN b : c # a => t[c] = b[c]
    BY <2>1
  <2>3. ~t[a].IsFree /\ t[a].Size = b[a].Size
    BY <2>1, <1>1 DEF BlockHeader
  <2>4. QED
    BY <1>1, <1>3, <2>2, <2>3, HeapAssumption DEF BlockHeader
<1>4. QED
  BY <1>2, <1>3

\* The list malloc searches is good, has no two free neighbours, and its used
\* blocks are exactly those backing what callers own.
LEMMA InitialisedFacts ==
  ASSUME IInv, pc = "idle"
  PROVE  LET b == Initialised
         IN  /\ GoodList(b)
             /\ \A a \in DOMAIN b :
                  b[a].IsFree /\ b[a].Next # NULL => ~b[b[a].Next].IsFree
             /\ \A p \in DOMAIN owned :
                  /\ p - HeaderSize \in DOMAIN b
                  /\ ~b[p - HeaderSize].IsFree
                  /\ owned[p] <= b[p - HeaderSize].Size
                  /\ b[p - HeaderSize].Size <= owned[p] + HeaderSize + BlockSize
             /\ \A a \in DOMAIN b : ~b[a].IsFree => a + HeaderSize \in DOMAIN owned
<1>1. CASE head = NULL
  <2>1. Blocks = {}
    BY <1>1 DEF IInv, BlocksTile
  <2>2. DOMAIN owned = {}
    BY <2>1 DEF IInv, OwnedBacked
  <2>3. DOMAIN WholeHeap = {0} /\ WholeHeap[0] = Header(MemorySize - HeaderSize, TRUE, NULL)
    BY DEF WholeHeap
  <2>4. WholeHeap[0].IsFree /\ WholeHeap[0].Next = NULL
    BY <2>3 DEF Header
  <2>5. QED
    BY <1>1, <2>2, <2>3, <2>4, WholeHeapGood DEF Initialised
<1>2. CASE head # NULL
  <2>1. Initialised = block
    BY <1>2 DEF Initialised
  <2>2. GoodList(block)
    BY <1>2 DEF IInv, TypeOK, BlocksTile, GoodList, Blocks
  <2>3. QED
    BY <2>1, <2>2 DEF IInv, Coalesced, FreeBehind, OwnedBacked, NothingLeaks, Blocks
<1>3. QED
  BY <1>1, <1>2

\* A good list that is the new block list is well typed and tiles the array.
LEMMA GoodNext ==
  ASSUME GoodList(block'), head' = 0
  PROVE  Blocks' \subseteq Address /\ block' \in [Blocks' -> BlockHeader] /\ BlocksTile'
BY HeapAssumption DEF GoodList, Blocks, BlocksTile, Tiles

-----------------------------------------------------------------------------
(* Every action keeps the invariant. *)

LEMMA InitMemoryKeeps == IInv /\ InitMemory => IInv'
<1> SUFFICES ASSUME IInv, InitMemory PROVE IInv'
  OBVIOUS
<1>1. Blocks = {} /\ DOMAIN owned = {}
  BY DEF IInv, BlocksTile, InitMemory, OwnedBacked
<1>2. pc = "idle"
  BY <1>1 DEF IInv, CurrentIsFree, TypeOK
<1>3. GoodList(block') /\ head' = 0
  BY WholeHeapGood DEF InitMemory
<1>4. Blocks' = {0} /\ block'[0].IsFree /\ block'[0].Next = NULL
  BY DEF InitMemory, WholeHeap, Blocks, Header
<1>5. TypeOK' /\ BlocksTile'
  BY <1>3, GoodNext DEF IInv, TypeOK, InitMemory
<1>6. Coalesced' /\ NothingLeaks'
  BY <1>4 DEF Coalesced, NothingLeaks, FreeBehind
<1>7. OwnedBacked' /\ CurrentIsFree'
  BY <1>1, <1>2 DEF OwnedBacked, CurrentIsFree, InitMemory
<1>8. QED
  BY <1>5, <1>6, <1>7 DEF IInv

LEMMA MallocKeeps ==
  ASSUME NEW size \in Nat, IInv, Malloc(size)
  PROVE  IInv'
<1> DEFINE b == Initialised
<1>1. pc = "idle" /\ pc' = "idle" /\ head' = 0 /\ current' = current
  BY DEF Malloc
<1>2. /\ GoodList(b)
      /\ \A x \in DOMAIN b : b[x].IsFree /\ b[x].Next # NULL => ~b[b[x].Next].IsFree
      /\ \A p \in DOMAIN owned :
           /\ p - HeaderSize \in DOMAIN b
           /\ ~b[p - HeaderSize].IsFree
           /\ owned[p] <= b[p - HeaderSize].Size
           /\ b[p - HeaderSize].Size <= owned[p] + HeaderSize + BlockSize
      /\ \A x \in DOMAIN b : ~b[x].IsFree => x + HeaderSize \in DOMAIN owned
  BY <1>1, InitialisedFacts
<1>3. ASSUME MallocFails(size)
      PROVE  IInv'
  <2>1. block' = b /\ owned' = owned /\ result' = NULL
    BY <1>3 DEF MallocFails
  <2>2. TypeOK' /\ BlocksTile'
    BY <1>1, <1>2, <2>1, GoodNext DEF IInv, TypeOK
  <2>3. Coalesced' /\ NothingLeaks' /\ OwnedBacked' /\ CurrentIsFree'
    BY <1>1, <1>2, <2>1
       DEF Coalesced, FreeBehind, NothingLeaks, OwnedBacked, CurrentIsFree, Blocks
  <2>4. QED
    BY <2>2, <2>3 DEF IInv
<1>4. ASSUME NEW a \in DOMAIN b, MallocFinds(size, a)
      PROVE  IInv'
  <2> DEFINE t == Take(b, a, size)
             p0 == a + HeaderSize
  <2>1. b[a].IsFree /\ b[a].Size >= size
    BY <1>4 DEF MallocFinds, FirstFit, Fitting
  <2>2. block' = t /\ result' = p0 /\ DOMAIN owned' = DOMAIN owned \cup {p0}
    BY <1>4 DEF MallocFinds
  <2>3. \A p \in DOMAIN owned' : owned'[p] = IF p = p0 THEN size ELSE owned[p]
    BY <1>4 DEF MallocFinds
  <2>4. a \in Nat /\ p0 \in Nat /\ p0 - HeaderSize = a
    BY <1>2, HeapAssumption DEF GoodList, Address
  <2>5. GoodList(t)
    BY <1>2, <2>1, TakeGood
  <2>6. /\ DOMAIN b \subseteq DOMAIN t
        /\ ~t[a].IsFree
        /\ size <= t[a].Size /\ t[a].Size <= size + HeaderSize + BlockSize
        /\ \A c \in DOMAIN b : c # a => t[c] = b[c]
        /\ \A c \in DOMAIN t : c \notin DOMAIN b => t[c].IsFree /\ t[c].Next = b[a].Next
    BY <1>2, <2>1, TakeFacts
  <2>7. \A p \in DOMAIN owned : p \in Nat /\ p # p0 /\ p - HeaderSize # a /\ owned[p] \in Nat
    BY <1>2, <2>1, <2>4, HeapAssumption DEF IInv, TypeOK
  <2>8. TypeOK'
    <3>1. owned' \in [DOMAIN owned' -> Nat] /\ DOMAIN owned' \subseteq Nat
      BY <1>4, <2>2, <2>3, <2>4, <2>7 DEF MallocFinds
    <3>2. QED
      BY <1>1, <2>2, <2>4, <2>5, <3>1, GoodNext DEF IInv, TypeOK
  <2>9. BlocksTile'
    BY <1>1, <2>2, <2>5, GoodNext
  <2>10. Coalesced'
    <3>1. ASSUME NEW x \in DOMAIN t, t[x].IsFree, t[x].Next # NULL
          PROVE  ~t[t[x].Next].IsFree
      <4>1. \A c \in DOMAIN b : b[c].Next # NULL => b[c].Next \in DOMAIN b
        BY <1>2 DEF GoodList, Tiles
      <4>2. CASE x \in DOMAIN b
        <5>1. x # a /\ t[x] = b[x]
          BY <3>1, <2>6, <4>2
        <5>2. QED
          BY <5>1, <4>1, <4>2, <3>1, <2>6, <1>2
      <4>3. CASE x \notin DOMAIN b
        <5>1. t[x].Next = b[a].Next /\ ~b[b[a].Next].IsFree /\ b[a].Next \in DOMAIN b
          BY <4>3, <4>1, <3>1, <2>1, <2>6, <1>2
        <5>2. QED
          BY <5>1, <2>6
      <4>4. QED
        BY <4>2, <4>3
    <3>2. QED
      BY <3>1, <2>2 DEF Coalesced, FreeBehind, Blocks
  <2>11. OwnedBacked'
    <3>1. ASSUME NEW p \in DOMAIN owned'
          PROVE  /\ p - HeaderSize \in DOMAIN t
                 /\ ~t[p - HeaderSize].IsFree
                 /\ owned'[p] <= t[p - HeaderSize].Size
                 /\ t[p - HeaderSize].Size <= owned'[p] + HeaderSize + BlockSize
      <4>1. CASE p = p0
        BY <4>1, <2>3, <2>4, <2>6
      <4>2. CASE p # p0
        <5>1. p \in DOMAIN owned /\ owned'[p] = owned[p]
          BY <4>2, <2>2, <2>3
        <5>2. t[p - HeaderSize] = b[p - HeaderSize] /\ p - HeaderSize \in DOMAIN t
          BY <5>1, <2>6, <2>7, <1>2
        <5>3. QED
          BY <5>1, <5>2, <1>2
      <4>3. QED
        BY <4>1, <4>2
    <3>2. QED
      BY <3>1, <2>2 DEF OwnedBacked, Blocks
  <2>12. NothingLeaks'
    <3>1. ASSUME NEW x \in DOMAIN t, ~t[x].IsFree
          PROVE  x + HeaderSize \in DOMAIN owned'
      BY <3>1, <2>2, <2>6, <1>2
    <3>2. QED
      BY <3>1, <2>2 DEF NothingLeaks, Blocks
  <2>13. QED
    BY <1>1, <2>8, <2>9, <2>10, <2>11, <2>12 DEF IInv, CurrentIsFree
<1>5. QED
  BY <1>3, <1>4 DEF Malloc

LEMMA FreeKeeps ==
  ASSUME NEW p \in DOMAIN owned, IInv, Free(p)
  PROVE  IInv'
<1> DEFINE a == p - HeaderSize
<1>1. /\ pc = "idle" /\ pc' = "merge" /\ current' = a /\ head' = head /\ result' = result
      /\ block' = [block EXCEPT ![a].IsFree = TRUE]
      /\ DOMAIN owned' = DOMAIN owned \ {p}
      /\ \A q \in DOMAIN owned' : owned'[q] = owned[q]
  BY DEF Free
<1>2. a \in Blocks /\ head = 0 /\ p \in Nat
  BY DEF IInv, OwnedBacked, BlocksTile, TypeOK
<1>3. GoodList(block)
  BY <1>2, HeapAssumption DEF IInv, TypeOK, BlocksTile, GoodList, Blocks
<1>4. GoodList(block')
  BY <1>1, <1>2, <1>3, MarkGood
<1>5. /\ Blocks' = Blocks
      /\ \A x \in Blocks : block'[x].Next = block[x].Next /\ block'[x].Size = block[x].Size
      /\ \A x \in Blocks : block'[x].IsFree <=> (x = a \/ block[x].IsFree)
  BY <1>1, <1>2 DEF IInv, TypeOK, BlockHeader, Blocks
<1>6. TypeOK' /\ BlocksTile'
  <2>1. owned' \in [DOMAIN owned' -> Nat] /\ DOMAIN owned' \subseteq Nat
    BY DEF Free, IInv, TypeOK
  <2>2. a \in Address
    BY <1>2 DEF IInv, TypeOK
  <2>3. QED
    BY <1>1, <1>2, <1>4, <2>1, <2>2, GoodNext DEF IInv, TypeOK
<1>7. Coalesced'
  <2>1. \A x \in Blocks : block[x].Next # NULL => block[x].Next \in Blocks
    BY <1>3 DEF GoodList, Tiles, Blocks
  <2>2. QED
    BY <1>1, <1>5, <2>1 DEF IInv, Coalesced, FreeBehind
<1>8. OwnedBacked'
  <2>1. \A q \in DOMAIN owned' : q - HeaderSize # a
    BY <1>1, <1>2, HeapAssumption DEF IInv, TypeOK
  <2>2. QED
    BY <1>1, <1>5, <2>1 DEF IInv, OwnedBacked
<1>9. NothingLeaks'
  <2>1. \A x \in Blocks : x # a => x + HeaderSize # p
    BY <1>2, <1>3, HeapAssumption DEF GoodList, Address, Blocks
  <2>2. QED
    BY <1>1, <1>5, <2>1 DEF IInv, NothingLeaks
<1>10. CurrentIsFree'
  BY <1>1, <1>2, <1>5 DEF CurrentIsFree
<1>11. QED
  BY <1>6, <1>7, <1>8, <1>9, <1>10 DEF IInv

\* Both kinds of merge: a free block a swallows its free successor c, and any
\* two free neighbours left in the list involve one of them.
LEMMA SwallowKeeps ==
  ASSUME IInv, NEW a \in Blocks, NEW c \in Blocks, block[a].Next = c,
         block[a].IsFree, block[c].IsFree,
         \A x \in Blocks : block[x].IsFree /\ FreeBehind(x) => x \in {a, c},
         block' = Swallow(a, c), pc' = "absorb", current' = a,
         UNCHANGED <<head, owned, result>>
  PROVE  IInv'
<1>1. head = 0
  BY DEF IInv, BlocksTile, TypeOK
<1>2. GoodList(block)
  BY <1>1, HeapAssumption DEF IInv, TypeOK, BlocksTile, GoodList, Blocks
<1>3. GoodList(block')
  BY <1>2, SwallowGood
<1>4. Blocks' = Blocks \ {c}
  BY DEF Swallow, Blocks
<1>5. a # c /\ c # NULL
  <2>1. a \in Int /\ block[a] \in BlockHeader
    BY HeapAssumption DEF IInv, TypeOK, Address
  <2>2. QED
    BY <2>1, <1>2, HeapAssumption DEF GoodList, Tiles, End, BlockHeader, Blocks, Address
<1>6. block'[a].IsFree /\ block'[a].Next = block[c].Next
  BY <1>5 DEF Swallow, Blocks, Header
<1>7. \A x \in Blocks \ {a, c} : block'[x] = block[x]
  BY DEF Swallow, Blocks
<1>8. TypeOK' /\ BlocksTile'
  <2>1. a \in Address
    BY DEF IInv, TypeOK
  <2>2. QED
    BY <1>1, <1>3, <2>1, GoodNext DEF IInv, TypeOK
<1>9. Coalesced'
  <2>1. ASSUME NEW x \in Blocks', x # a, block'[x].IsFree, FreeBehind(x)'
        PROVE  FALSE
    <3>1. x \in Blocks \ {a, c} /\ block'[x] = block[x]
      BY <2>1, <1>4, <1>7
    <3>2. block[x].Next # NULL /\ block[x].Next \in Blocks
      BY <2>1, <3>1, <1>2 DEF FreeBehind, GoodList, Tiles, Blocks
    <3>3. ~block[block[x].Next].IsFree
      BY <2>1, <3>1, <3>2 DEF FreeBehind
    <3>4. block'[block[x].Next] = block[block[x].Next]
      BY <3>2, <3>3, <1>7
    <3>5. QED
      BY <2>1, <3>1, <3>3, <3>4 DEF FreeBehind
  <2>2. QED
    BY <2>1 DEF Coalesced
<1>10. OwnedBacked'
  BY <1>4, <1>7 DEF IInv, OwnedBacked
<1>11. NothingLeaks'
  BY <1>4, <1>6, <1>7 DEF IInv, NothingLeaks
<1>12. CurrentIsFree'
  BY <1>4, <1>5, <1>6 DEF CurrentIsFree
<1>13. QED
  BY <1>8, <1>9, <1>10, <1>11, <1>12 DEF IInv

LEMMA MergePreviousKeeps == IInv /\ MergePrevious => IInv'
<1> SUFFICES ASSUME IInv, MergePrevious PROVE IInv'
  OBVIOUS
<1>1. pc = "merge" /\ pc' = "absorb" /\ UNCHANGED <<head, owned, result>>
  BY DEF MergePrevious
<1>2. current \in Blocks /\ block[current].IsFree
  BY <1>1 DEF IInv, CurrentIsFree
<1>3. \A x \in Blocks : block[x].IsFree /\ FreeBehind(x) =>
                       x = current \/ block[x].Next = current
  BY <1>1 DEF IInv, Coalesced
<1>4. CASE FreeBefore(current) = {} /\ UNCHANGED <<block, current>>
  <2>1. TypeOK' /\ BlocksTile'
    BY <1>1, <1>4 DEF IInv, TypeOK, BlocksTile, Blocks
  <2>2. Coalesced'
    BY <1>1, <1>3, <1>4 DEF Coalesced, FreeBehind, FreeBefore, Blocks
  <2>3. OwnedBacked' /\ NothingLeaks' /\ CurrentIsFree'
    BY <1>1, <1>2, <1>4 DEF IInv, OwnedBacked, NothingLeaks, CurrentIsFree, Blocks
  <2>4. QED
    BY <2>1, <2>2, <2>3 DEF IInv
<1>5. ASSUME NEW previous \in FreeBefore(current),
             block' = Swallow(previous, current), current' = previous
      PROVE  IInv'
  <2>1. previous \in Blocks /\ block[previous].Next = current /\ block[previous].IsFree
    BY <1>5 DEF FreeBefore, Blocks
  <2>2. ASSUME NEW x \in Blocks, block[x].Next = current
        PROVE  x = previous
    <3>1. GoodList(block)
      BY <1>2, HeapAssumption DEF IInv, TypeOK, BlocksTile, GoodList, Blocks
    <3>2. \A y \in Blocks : y \in Int /\ y # NULL /\ End(block, y) \in Int /\ y < End(block, y)
      BY HeapAssumption DEF IInv, TypeOK, Address, BlockHeader, End
    <3>3. End(block, x) = current /\ End(block, previous) = current
      BY <2>1, <2>2, <3>1, <3>2, <1>2 DEF GoodList, Tiles, Blocks
    <3>4. \A y, z \in Blocks : y < z => End(block, y) <= z
      BY <3>1 DEF GoodList, Tiles, Blocks
    <3>5. ~(x < previous) /\ ~(previous < x)
      BY <3>2, <3>3, <3>4, <2>1
    <3>6. QED
      BY <3>2, <3>5, <2>1
  <2>3. \A x \in Blocks : block[x].IsFree /\ FreeBehind(x) => x \in {previous, current}
    BY <1>3, <2>2
  <2>4. QED
    BY <1>1, <1>2, <1>5, <2>1, <2>3, SwallowKeeps
<1>6. QED
  BY <1>4, <1>5 DEF MergePrevious

LEMMA AbsorbNextKeeps == IInv /\ AbsorbNext => IInv'
<1> SUFFICES ASSUME IInv, AbsorbNext PROVE IInv'
  OBVIOUS
<1> DEFINE c == block[current].Next
<1>1. /\ pc = "absorb" /\ pc' = "absorb" /\ current' = current
      /\ block' = Swallow(current, c) /\ UNCHANGED <<head, owned, result>>
      /\ c # NULL /\ block[c].IsFree
  BY DEF AbsorbNext, FreeBehind
<1>2. current \in Blocks /\ block[current].IsFree
  BY <1>1 DEF IInv, CurrentIsFree
<1>3. c \in Blocks
  BY <1>1, <1>2 DEF IInv, BlocksTile, Tiles, Blocks
<1>4. \A x \in Blocks : block[x].IsFree /\ FreeBehind(x) => x \in {current, c}
  BY <1>1 DEF IInv, Coalesced
<1>5. QED
  BY <1>1, <1>2, <1>3, <1>4, SwallowKeeps

LEMMA FreeReturnsKeeps == IInv /\ FreeReturns => IInv'
<1> SUFFICES ASSUME IInv, FreeReturns PROVE IInv'
  OBVIOUS
<1>1. /\ pc = "absorb" /\ pc' = "idle" /\ current' = NULL /\ ~FreeBehind(current)
      /\ UNCHANGED <<head, block, owned, result>>
  BY DEF FreeReturns
<1>2. TypeOK' /\ BlocksTile' /\ OwnedBacked' /\ NothingLeaks'
  BY <1>1 DEF IInv, TypeOK, BlocksTile, OwnedBacked, NothingLeaks, Blocks
<1>3. Coalesced' /\ CurrentIsFree'
  BY <1>1 DEF IInv, Coalesced, CurrentIsFree, FreeBehind, Blocks
<1>4. QED
  BY <1>2, <1>3 DEF IInv

-----------------------------------------------------------------------------
(* The invariant holds of the specification. *)

LEMMA InitEstablishes == Init => IInv
<1> SUFFICES ASSUME Init PROVE IInv
  OBVIOUS
<1>1. Blocks = {} /\ DOMAIN owned = {}
  BY DEF Init, Blocks
<1>2. TypeOK
  BY <1>1 DEF Init, TypeOK
<1>3. QED
  BY <1>1, <1>2 DEF Init, IInv, BlocksTile, Coalesced, OwnedBacked, NothingLeaks, CurrentIsFree

\* Sizes that reach malloc are naturals, the wrapped products of calloc too.
LEMMA ProductIsNat ==
  ASSUME NEW item \in Items
  PROVE  (item[1] * item[2]) % WordRange \in Nat
<1>1. item[1] \in Nat /\ item[2] \in Nat
  BY HeapAssumption
<1>2. item[1] * item[2] \in Int
  BY <1>1
<1>3. QED
  BY <1>2, HeapAssumption

LEMMA NextKeeps == IInv /\ [Next]_vars => IInv'
<1> SUFFICES ASSUME IInv, [Next]_vars PROVE IInv'
  OBVIOUS
<1>1. CASE InitMemory
  BY <1>1, InitMemoryKeeps
<1>2. ASSUME NEW size \in Requests, Malloc(size) PROVE IInv'
  BY <1>2, MallocKeeps, HeapAssumption
<1>3. ASSUME NEW item \in Items, Calloc(item[1], item[2]) PROVE IInv'
  BY <1>3, MallocKeeps, ProductIsNat DEF Calloc
<1>4. ASSUME NEW p \in DOMAIN owned, Free(p) PROVE IInv'
  BY <1>4, FreeKeeps
<1>5. CASE MergePrevious
  BY <1>5, MergePreviousKeeps
<1>6. CASE AbsorbNext
  BY <1>6, AbsorbNextKeeps
<1>7. CASE FreeReturns
  BY <1>7, FreeReturnsKeeps
<1>8. CASE UNCHANGED vars
  BY <1>8 DEF vars, IInv, TypeOK, BlocksTile, Coalesced, FreeBehind, OwnedBacked,
              NothingLeaks, CurrentIsFree, Blocks
<1>9. QED
  BY <1>1, <1>2, <1>3, <1>4, <1>5, <1>6, <1>7, <1>8 DEF Next

LEMMA SpecKeeps == Spec => []IInv
BY InitEstablishes, NextKeeps, PTL DEF Spec

\* Every state of the heap is well typed (memory.h:10-14).
THEOREM TypeCorrect == Spec => []TypeOK
<1>1. IInv => TypeOK
  BY DEF IInv
<1>2. QED
  BY <1>1, SpecKeeps, PTL

\* The list tiles the array whatever was split and merged (memory.c:23-49, 327-338).
THEOREM ListTilesTheHeap == Spec => []BlocksTile
<1>1. IInv => BlocksTile
  BY DEF IInv
<1>2. QED
  BY <1>1, SpecKeeps, PTL

\* free leaves no two neighbouring free blocks (memory.c:37-48).
THEOREM FreeCoalesces == Spec => []Coalesced
<1>1. IInv => Coalesced
  BY DEF IInv
<1>2. QED
  BY <1>1, SpecKeeps, PTL

-----------------------------------------------------------------------------
(* What the invariant means for callers. *)

LEMMA InvKeepsOwnersApart == IInv => OwnersApart
<1> SUFFICES ASSUME IInv, NEW p \in DOMAIN owned
             PROVE  /\ p + owned[p] <= MemorySize
                    /\ \A a \in Blocks : a + HeaderSize <= p \/ p + owned[p] <= a
                    /\ \A q \in DOMAIN owned : p < q => p + owned[p] <= q - HeaderSize
  BY DEF OwnersApart
<1> DEFINE b == p - HeaderSize
<1>1. /\ b \in Blocks /\ p \in Nat /\ owned[p] \in Nat
      /\ block[b] \in BlockHeader /\ owned[p] <= block[b].Size
  BY DEF IInv, TypeOK, OwnedBacked
<1>2. head = 0
  BY <1>1 DEF IInv, BlocksTile, TypeOK
<1>3. \A x, y \in Blocks : x < y => End(block, x) <= y
  BY <1>2, HeapAssumption DEF IInv, BlocksTile, Tiles, Blocks
<1>4. \A x \in Blocks : /\ x \in Int /\ x < MemorySize
                        /\ End(block, x) \in Int /\ x + HeaderSize <= End(block, x)
  BY HeapAssumption DEF IInv, TypeOK, Address, End, BlockHeader
<1>5. End(block, b) <= MemorySize
  BY <1>1, <1>2, <1>4, HeapAssumption DEF IInv, BlocksTile, Tiles, Blocks
<1>6. p + owned[p] <= End(block, b)
  BY <1>1, HeapAssumption DEF End, BlockHeader
<1>7. p + owned[p] <= MemorySize
  BY <1>1, <1>4, <1>5, <1>6, HeapAssumption
<1>8. ASSUME NEW a \in Blocks
      PROVE  a + HeaderSize <= p \/ p + owned[p] <= a
  <2>1. CASE a < b
    BY <2>1, <1>1, <1>3, <1>4, HeapAssumption
  <2>2. CASE a = b
    BY <2>2, <1>1, <1>4, HeapAssumption
  <2>3. CASE b < a
    BY <2>3, <1>1, <1>3, <1>4, <1>6
  <2>4. QED
    BY <2>1, <2>2, <2>3, <1>1, <1>4
<1>9. ASSUME NEW q \in DOMAIN owned, p < q
      PROVE  p + owned[p] <= q - HeaderSize
  <2>1. q \in Nat /\ q - HeaderSize \in Blocks
    BY DEF IInv, TypeOK, OwnedBacked
  <2>2. b < q - HeaderSize
    BY <2>1, <1>1, <1>9, HeapAssumption
  <2>3. QED
    BY <2>1, <2>2, <1>1, <1>3, <1>4, <1>6
<1>10. QED
  BY <1>7, <1>8, <1>9

\* Callers never hold overlapping bytes, nor bytes of a header (memory.c:317-345).
THEOREM OwnersNeverOverlap == Spec => []OwnersApart
BY SpecKeeps, InvKeepsOwnersApart, PTL

LEMMA InvKeepsHeapWhole == IInv => FreedHeapIsWhole
<1> SUFFICES ASSUME IInv, head = 0, pc = "idle", owned = [p \in {} |-> 0]
             PROVE  block = WholeHeap
  BY DEF FreedHeapIsWhole
<1>1. /\ Tiles(block)
      /\ \A x \in Blocks : x \in Int /\ 0 <= x /\ x < MemorySize /\ block[x] \in BlockHeader
  BY HeapAssumption DEF IInv, BlocksTile, TypeOK, Address
<1>2. 0 \in Blocks
  <2>1. 0 \in Address
    BY HeapAssumption DEF Address
  <2>2. PICK a \in Blocks : a <= 0
    BY <2>1, <1>1 DEF Tiles, Blocks
  <2>3. QED
    BY <2>2, <1>1
<1>3. \A x \in Blocks : block[x].IsFree
  BY DEF IInv, NothingLeaks
<1>4. block[0].Next = NULL /\ End(block, 0) = MemorySize
  BY <1>1, <1>2, <1>3, HeapAssumption DEF IInv, Coalesced, FreeBehind, Tiles, Blocks, End, BlockHeader
<1>5. Blocks = {0}
  <2>1. ASSUME NEW x \in Blocks, x # 0 PROVE FALSE
    BY <2>1, <1>1, <1>2, <1>4, HeapAssumption DEF Tiles, Blocks
  <2>2. QED
    BY <2>1, <1>2
<1>6. block[0].Size = MemorySize - HeaderSize
  BY <1>1, <1>2, <1>4, HeapAssumption DEF End, BlockHeader
<1>7. block[0] = Header(MemorySize - HeaderSize, TRUE, NULL)
  BY <1>1, <1>2, <1>3, <1>4, <1>6 DEF Header, BlockHeader
<1>8. QED
  BY <1>5, <1>7 DEF WholeHeap, IInv, TypeOK, Blocks

\* A heap whose every allocation was freed is one block again: it does not
\* wear out (memory.c:356-365, 386-391).
THEOREM HeapDoesNotWearOut == Spec => []FreedHeapIsWhole
BY SpecKeeps, InvKeepsHeapWhole, PTL

-----------------------------------------------------------------------------
(* The heap implements the allocator. *)

LEMMA FindsAllocates ==
  ASSUME IInv, NEW size \in Nat, NEW a \in DOMAIN Initialised,
         Malloc(size), MallocFinds(size, a)
  PROVE  Abstract!Allocate(size)
<1> DEFINE p0 == a + HeaderSize
<1>1. OwnersApart' /\ IInv'
  BY MallocKeeps, InvKeepsOwnersApart, PTL
<1>2. /\ result' = p0
      /\ DOMAIN owned' = DOMAIN owned \cup {p0}
      /\ \A p \in DOMAIN owned' : owned'[p] = IF p = p0 THEN size ELSE owned[p]
      /\ owned' = [q \in DOMAIN owned \cup {p0} |-> IF q = p0 THEN size ELSE owned[q]]
  BY DEF MallocFinds
<1>3. pc = "idle"
  BY DEF Malloc
<1>4. a \in Nat
  BY <1>3, InitialisedFacts DEF GoodList, Address
<1>5. Initialised[a].IsFree
  BY DEF MallocFinds, FirstFit, Fitting
<1>6. \A q \in DOMAIN owned : q \in Nat /\ owned[q] \in Nat /\ q # p0
  BY <1>3, <1>4, <1>5, InitialisedFacts, HeapAssumption DEF IInv, TypeOK
<1>7. p0 + size <= MemorySize
  BY <1>1, <1>2 DEF OwnersApart
<1>8. p0 \in 0..MemorySize /\ Abstract!InHeap(p0, size)
  BY <1>4, <1>7, HeapAssumption DEF Abstract!InHeap
<1>9. ASSUME NEW q \in DOMAIN owned
      PROVE  Abstract!ClearOf(p0, size, q, 0)
  <2>1. q < p0 \/ p0 < q
    BY <1>4, <1>6, HeapAssumption
  <2>2. CASE q < p0
    <3>1. q \in DOMAIN owned' /\ p0 \in DOMAIN owned' /\ owned'[q] = owned[q]
      BY <1>2, <1>6
    <3>2. q + owned[q] <= p0 - HeaderSize
      BY <3>1, <2>2, <1>1 DEF OwnersApart
    <3>3. q + owned[q] + 0 <= p0 - HeaderSize
      BY <3>2, <1>6
    <3>4. QED
      BY <3>3 DEF Abstract!ClearOf
  <2>3. CASE p0 < q
    BY <2>3, <1>1, <1>2, <1>4, <1>6, HeapAssumption DEF OwnersApart, Abstract!ClearOf
  <2>4. QED
    BY <2>1, <2>2, <2>3
<1>10. QED
  BY <1>2, <1>8, <1>9 DEF Abstract!Allocate

LEMMA FailsRefuses ==
  ASSUME IInv, NEW size \in Nat, Malloc(size), MallocFails(size)
  PROVE  Abstract!Refuse(size)
<1> DEFINE b == Initialised
<1>1. pc = "idle"
  BY DEF Malloc
<1>2. /\ GoodList(b)
      /\ \A x \in DOMAIN b : b[x].IsFree /\ b[x].Next # NULL => ~b[b[x].Next].IsFree
      /\ \A p \in DOMAIN owned :
           b[p - HeaderSize].Size <= owned[p] + HeaderSize + BlockSize
      /\ \A x \in DOMAIN b : ~b[x].IsFree => x + HeaderSize \in DOMAIN owned
  BY <1>1, InitialisedFacts
<1>3. \A x \in DOMAIN b : b[x].IsFree => ~(b[x].Size >= size)
  BY DEF MallocFails, Fitting
<1>4. \A x \in DOMAIN b : x \in Nat /\ b[x] \in BlockHeader /\ End(b, x) \in Nat
  BY <1>2, HeapAssumption DEF GoodList, Address, End, BlockHeader
<1>5. ASSUME NEW p \in 0..MemorySize, Abstract!InHeap(p, size)
      PROVE  \E q \in DOMAIN owned : ~Abstract!ClearOf(p, size, q, HeaderSize + BlockSize)
  <2>1. p \in Nat /\ HeaderSize <= p /\ p + size <= MemorySize
    BY <1>5, HeapAssumption DEF Abstract!InHeap
  <2>2. p - HeaderSize \in Address
    BY <2>1, HeapAssumption DEF Address
  <2>3. PICK a \in DOMAIN b : a <= p - HeaderSize /\ p - HeaderSize < End(b, a)
    BY <2>2, <1>2 DEF GoodList, Tiles
  <2>4. ASSUME NEW x \in DOMAIN b, ~b[x].IsFree, x < p + size, p - HeaderSize < End(b, x)
        PROVE  \E q \in DOMAIN owned : ~Abstract!ClearOf(p, size, q, HeaderSize + BlockSize)
    <3> DEFINE q == x + HeaderSize
    <3>1. q \in DOMAIN owned
      BY <2>4, <1>2
    <3>2. owned[q] \in Nat /\ q - HeaderSize = x
      BY <3>1, <1>4, HeapAssumption DEF IInv, TypeOK
    <3>3. b[x].Size <= owned[q] + HeaderSize + BlockSize
      BY <3>1, <3>2, <1>2
    <3>4. ~(p + size <= q - HeaderSize)
      BY <2>1, <2>4, <3>2, <1>4
    <3>5. End(b, x) <= q + owned[q] + (HeaderSize + BlockSize)
      BY <3>2, <3>3, <1>4, HeapAssumption DEF End, BlockHeader
    <3>6. ~(q + owned[q] + (HeaderSize + BlockSize) <= p - HeaderSize)
      BY <2>1, <2>4, <3>2, <3>5, <1>4, HeapAssumption
    <3>7. ~Abstract!ClearOf(p, size, q, HeaderSize + BlockSize)
      BY <3>4, <3>6 DEF Abstract!ClearOf
    <3>8. QED
      BY <3>1, <3>7
  <2>5. CASE ~b[a].IsFree
    BY <2>1, <2>3, <2>4, <2>5, <1>4, HeapAssumption
  <2>6. CASE b[a].IsFree
    <3> DEFINE c == b[a].Next
    <3>1. End(b, a) < p + size
      BY <2>1, <2>3, <2>6, <1>3, <1>4, HeapAssumption DEF End, BlockHeader
    <3>2. End(b, a) # MemorySize
      BY <3>1, <2>1, <1>4, HeapAssumption
    <3>3. c = End(b, a) /\ c \in DOMAIN b
      BY <3>2, <1>2 DEF GoodList, Tiles
    <3>4. ~b[c].IsFree
      BY <3>3, <2>6, <1>2, <1>4, HeapAssumption
    <3>5. p - HeaderSize < End(b, c)
      BY <3>3, <2>1, <2>3, <1>4, HeapAssumption DEF End, BlockHeader
    <3>6. QED
      BY <3>1, <3>3, <3>4, <3>5, <2>4
  <2>7. QED
    BY <2>5, <2>6
<1>6. result' = NULL /\ owned' = owned
  BY DEF MallocFails
<1>7. QED
  BY <1>5, <1>6 DEF Abstract!Refuse

LEMMA MallocRefines ==
  ASSUME IInv, NEW size \in Nat, Malloc(size)
  PROVE  Abstract!Allocate(size) \/ Abstract!Refuse(size)
BY FindsAllocates, FailsRefuses DEF Malloc

LEMMA StepRefines == IInv /\ [Next]_vars => [Abstract!Next]_(Abstract!vars)
<1> SUFFICES ASSUME IInv, [Next]_vars
             PROVE  Abstract!Next \/ UNCHANGED <<owned, result>>
  BY DEF Abstract!vars
<1>1. ASSUME NEW size \in Requests, Malloc(size) PROVE Abstract!Next
  BY <1>1, MallocRefines, HeapAssumption DEF Abstract!Next
<1>2. ASSUME NEW item \in Items, Calloc(item[1], item[2]) PROVE Abstract!Next
  BY <1>2, MallocRefines, ProductIsNat DEF Abstract!Next, Calloc
<1>3. ASSUME NEW p \in DOMAIN owned, Free(p) PROVE Abstract!Next
  BY <1>3 DEF Free, Abstract!Next, Abstract!Release
<1>4. CASE InitMemory \/ MergePrevious \/ AbsorbNext \/ FreeReturns
  BY <1>4 DEF InitMemory, MergePrevious, AbsorbNext, FreeReturns
<1>5. CASE UNCHANGED vars
  BY <1>5 DEF vars
<1>6. QED
  BY <1>1, <1>2, <1>3, <1>4, <1>5 DEF Next

\* malloc, calloc and free are, step for step, the abstract allocator; in
\* particular a NULL from malloc means that the heap has no room (memory.c:344).
THEOREM HeapImplementsAllocator == Spec => ImplementsAllocator
<1>1. Init => Abstract!Init
  BY DEF Init, Abstract!Init
<1>2. QED
  BY <1>1, SpecKeeps, StepRefines, PTL DEF Spec, ImplementsAllocator, Abstract!Spec

-----------------------------------------------------------------------------
(* memset and memcpy. *)

\* memset writes every byte of the region and none outside it: what the ends and
\* the words between them leave out or overlap, for every alignment and length.
THEOREM MemsetFills ==
    ASSUME NEW mem, NEW value, NEW dst \in Nat, NEW n \in Nat
    PROVE  memset(mem, dst, value, n) = Filled(mem, dst, value, n)
<1> DEFINE first == dst + Unaligned(dst)
           words == (n - Unaligned(dst)) \div wsize
<1>1. EndBytes(dst, n) \cup WordBytes(dst, n) = dst..(dst + n - 1)
  <2>1. CASE n <= 8
    <3>1. WordBytes(dst, n) = {}
      BY <2>1 DEF WordBytes
    <3>2. \A a \in dst..(dst + n - 1) : a \in EndBytes(dst, n)
      <4>1. SUFFICES ASSUME NEW a \in dst..(dst + n - 1)
                     PROVE  a - dst \in 0..(EndLength(n) - 1) \/ dst + n - 1 - a \in 0..(EndLength(n) - 1)
        BY DEF EndBytes
      <4>2. QED  BY <2>1 DEF EndLength
    <3>3. EndBytes(dst, n) \subseteq dst..(dst + n - 1)
      BY <2>1 DEF EndBytes, EndLength
    <3>4. QED  BY <3>1, <3>2, <3>3
  <2>2. CASE n > 8
    <3>1. /\ Unaligned(dst) \in 0..3
          /\ words \in Nat /\ wsize * words <= n - Unaligned(dst)
          /\ n - Unaligned(dst) - wsize * words <= 3
      BY <2>2 DEF Unaligned, wsize
    <3>2. WordBytes(dst, n) = first..(first + wsize * words - 1)
      BY <2>2 DEF WordBytes
    <3>3. EndLength(n) = 4
      BY <2>2 DEF EndLength
    <3>4. EndBytes(dst, n) = (dst..(dst + 3)) \cup ((dst + n - 4)..(dst + n - 1))
      <4>1. \A a \in dst..(dst + 3) : a \in EndBytes(dst, n)
        <5>1. \A a \in dst..(dst + 3) : a - dst \in 0..3 /\ a = dst + (a - dst)
          OBVIOUS
        <5>2. QED  BY <3>3, <5>1 DEF EndBytes
      <4>2. \A a \in (dst + n - 4)..(dst + n - 1) : a \in EndBytes(dst, n)
        <5>1. \A a \in (dst + n - 4)..(dst + n - 1) :
                  dst + n - 1 - a \in 0..3 /\ a = dst + n - 1 - (dst + n - 1 - a)
          OBVIOUS
        <5>2. QED  BY <3>3, <5>1 DEF EndBytes
      <4>3. \A a \in EndBytes(dst, n) : a \in dst..(dst + 3) \/ a \in (dst + n - 4)..(dst + n - 1)
        BY <3>3 DEF EndBytes
      <4>4. QED  BY <4>1, <4>2, <4>3
    <3> HIDE DEF words
    <3>5. first \in Nat /\ first <= dst + 3 /\ first + wsize * words >= dst + n - 3
            /\ first + wsize * words <= dst + n /\ wsize * words \in Nat
      BY <3>1 DEF wsize
    <3> HIDE DEF first
    <3>6. \A a \in first..(first + wsize * words - 1) : a \in dst..(dst + n - 1)
      BY <3>1, <3>5 DEF first
    <3>7. QED  BY <2>2, <3>2, <3>4, <3>5, <3>6
  <2>3. QED  BY <2>1, <2>2
<1>2. QED  BY <1>1 DEF memset, Filled

\* Addresses are numbers, and n of them from src on are there.
HasRegion(mem, src, n) == DOMAIN mem \subseteq Nat /\ src..(src + n - 1) \subseteq DOMAIN mem

\* The two cases of memcpy; in the second dst and src are the ends of the regions.
Upwards(mem, dst, src, n) ==
    /\ dst \in Nat /\ src \in Nat /\ n \in Nat /\ dst < src
    /\ HasRegion(mem, src, n)
Downwards(mem, dst, src, n) ==
    /\ dst \in Nat /\ src \in Nat /\ n \in Nat /\ src < dst /\ n <= src
    /\ HasRegion(mem, src - n, n)

\* memcpy towards lower addresses: with k bytes moved, one more turn of the loop,
\* of a byte or of a word, moves w more, for what it reads was not overwritten.
THEOREM CopyUpKeeps ==
    ASSUME NEW mem, NEW dst, NEW src, NEW n, Upwards(mem, dst, src, n),
           NEW k, NEW w, NEW next, NEW to, NEW from, k \in Nat, w \in Nat,
           next = k + w, next <= n, to = dst + k, from = src + k
    PROVE  CopyUnit(Moved(mem, dst, src, k), to, from, w) = Moved(mem, dst, src, next)
<1> DEFINE m == Moved(mem, dst, src, k)
<1>0. /\ dst \in Nat /\ src \in Nat /\ n \in Nat /\ k \in Nat /\ w \in Nat /\ dst < src
      /\ HasRegion(mem, src, n)
  BY DEF Upwards
<1>1. DOMAIN m = DOMAIN mem
  BY DEF Moved
<1>2. SUFFICES ASSUME NEW a \in DOMAIN mem
               PROVE  (IF a \in to..(to + w - 1) THEN m[a - to + from] ELSE m[a])
                        = (IF a \in dst..(dst + next - 1) THEN mem[a - dst + src] ELSE mem[a])
  BY <1>1 DEF CopyUnit, Moved
<1>3. a \in Nat
  BY <1>0 DEF HasRegion
<1>4. CASE a \in to..(to + w - 1)
  <2>1. a - to + from = a - dst + src
    BY <1>0, <1>3
  <2>2. a - dst + src \in DOMAIN mem /\ a - dst + src \notin dst..(dst + k - 1)
    BY <1>0, <1>3, <1>4 DEF HasRegion
  <2>3. m[a - dst + src] = mem[a - dst + src]
    BY <2>2 DEF Moved
  <2>4. a \in dst..(dst + next - 1)
    BY <1>0, <1>3, <1>4
  <2>5. QED  BY <1>4, <2>1, <2>3, <2>4
<1>5. CASE a \notin to..(to + w - 1)
  <2>1. a \in dst..(dst + next - 1) <=> a \in dst..(dst + k - 1)
    BY <1>0, <1>3, <1>5
  <2>2. QED  BY <1>5, <2>1 DEF Moved
<1>6. QED  BY <1>4, <1>5

\* The k bytes below the ends dst and src of the regions are moved.
MovedDown(mem, dst, src, k) == Moved(mem, dst - k, src - k, k)

\* memcpy towards higher addresses: the same, from the top.
THEOREM CopyDownKeeps ==
    ASSUME NEW mem, NEW dst, NEW src, NEW n, Downwards(mem, dst, src, n),
           NEW k, NEW w, NEW next, NEW to, NEW from, k \in Nat, w \in Nat,
           to \in Int, from \in Int,
           next = k + w, next <= n, dst = to + next, src = from + next
    PROVE  CopyUnit(MovedDown(mem, dst, src, k), to, from, w) = MovedDown(mem, dst, src, next)
<1> DEFINE m == MovedDown(mem, dst, src, k)
<1>0. /\ dst \in Nat /\ src \in Nat /\ n \in Nat /\ k \in Nat /\ w \in Nat /\ src < dst /\ n <= src
      /\ HasRegion(mem, src - n, n) /\ to = dst - next /\ from = src - next
  BY DEF Downwards
<1>1. DOMAIN m = DOMAIN mem
  BY DEF Moved, MovedDown
<1>2. SUFFICES ASSUME NEW a \in DOMAIN mem
               PROVE  (IF a \in to..(to + w - 1) THEN m[a - to + from] ELSE m[a])
                        = (IF a \in (dst - next)..(dst - next + next - 1)
                             THEN mem[a - (dst - next) + (src - next)] ELSE mem[a])
  BY <1>1 DEF CopyUnit, Moved, MovedDown
<1>3. a \in Nat
  BY <1>0 DEF HasRegion
<1>4. a - to + from = a - dst + src /\ a - (dst - next) + (src - next) = a - dst + src
        /\ a - (dst - k) + (src - k) = a - dst + src
  BY <1>0, <1>3
<1>5. CASE a \in to..(to + w - 1)
  <2>1. a - dst + src \in DOMAIN mem /\ a - dst + src \notin (dst - k)..(dst - k + k - 1)
    BY <1>0, <1>3, <1>5 DEF HasRegion
  <2>2. m[a - dst + src] = mem[a - dst + src]
    BY <2>1 DEF Moved, MovedDown
  <2>3. a \in (dst - next)..(dst - next + next - 1)
    BY <1>0, <1>3, <1>5
  <2>4. QED  BY <1>4, <1>5, <2>2, <2>3
<1>6. CASE a \notin to..(to + w - 1)
  <2>1. a \in (dst - next)..(dst - next + next - 1) <=> a \in (dst - k)..(dst - k + k - 1)
    BY <1>0, <1>3, <1>6
  <2>2. m[a] = IF a \in (dst - k)..(dst - k + k - 1) THEN mem[a - dst + src] ELSE mem[a]
    BY <1>4 DEF Moved, MovedDown
  <2>3. QED  BY <1>4, <1>6, <2>1, <2>2
<1>7. QED  BY <1>5, <1>6

\* What memcpy copies singly first lies in the region, and if words are left both
\* pointers are then aligned.
THEOREM CopiesAlignedWords ==
    ASSUME NEW dst \in Nat, NEW src \in Nat, NEW n \in Nat
    PROVE  /\ HeadUp(dst, src, n) \in 0..n
           /\ n - HeadUp(dst, src, n) >= wsize =>
                 BothAligned(dst + HeadUp(dst, src, n), src + HeadUp(dst, src, n))
           /\ HeadDown(dst, src, n) \in 0..n
           /\ n - HeadDown(dst, src, n) >= wsize =>
                 BothAligned(dst - HeadDown(dst, src, n), src - HeadDown(dst, src, n))
BY DEF HeadUp, HeadDown, BothAligned, wsize

\* Induction over the turns of a loop.
LEMMA FirstCounterexample ==
    ASSUME NEW t \in Nat, NEW S, S \subseteq 0..t, S # {}
    PROVE  \E i \in S : i = 0 \/ i - 1 \in (0..t) \ S
<1>1. S \subseteq Nat
  OBVIOUS
<1>2. PICK i \in S : \A j \in S : ~(<<j, i>> \in OpToRel(<, Nat))
  BY <1>1, NatLessThanWellFounded, WFMin, Zenon
<1>3. \A j \in S : ~(j < i)
  BY <1>1, <1>2 DEF OpToRel
<1>4. QED  BY <1>3

\* The turns of a loop upwards lead from each part to the next.
TurnsUp(part, t, dst, src, w) ==
    /\ part = [i \in 0..t |-> part[i]]
    /\ \A i \in 1..t : CopyUnit(part[i - 1], dst + w * (i - 1), src + w * (i - 1), w) = part[i]

\* A loop whose turns lead from each part to the next leads from the first part
\* to the last.
LEMMA LoopUpReaches ==
    ASSUME NEW t, t \in Nat, NEW part, NEW dst, NEW src, NEW w, TurnsUp(part, t, dst, src, w)
    PROVE  LoopUp(part[0], dst, src, w, t) = part[t]
<1> DEFINE step(f, i) == CopyUnit(f[i - 1], dst + w * (i - 1), src + w * (i - 1), w)
           turn(f, i) == IF i = 0 THEN part[0] ELSE step(f, i)
           loop(f) == [i \in 0..t |-> turn(f, i)]
<1>0. /\ part = [i \in 0..t |-> part[i]]
      /\ \A i \in 1..t : CopyUnit(part[i - 1], dst + w * (i - 1), src + w * (i - 1), w) = part[i]
  BY DEF TurnsUp
<1>1. \A i \in 0..t : part[i] = turn(part, i)
  <2>1. \A i \in 1..t : step(part, i) = part[i]
    BY <1>0
  <2> HIDE DEF step
  <2>2. ASSUME NEW i \in 0..t PROVE part[i] = turn(part, i)
    <3>1. i = 0 \/ (i # 0 /\ i \in 1..t)
      OBVIOUS
    <3>2. QED  BY <2>1, <3>1, Zenon
  <2>3. QED  BY <2>2, Zenon
<1>2. part = loop(part)
  <2> HIDE DEF turn
  <2>1. QED  BY <1>0, <1>1, Zenon
<1> DEFINE after == CHOOSE f : f = loop(f)
<1>3. after = loop(after)
  <2> HIDE DEF loop
  <2>1. QED  BY <1>2, Zenon
<1>4. LoopUp(part[0], dst, src, w, t) = after[t]
  BY DEF LoopUp
<1> HIDE DEF after
<1>5. \A i \in 0..t : after[i] = turn(after, i)
  <2> HIDE DEF turn
  <2>1. \A i \in 0..t : loop(after)[i] = turn(after, i)
    BY Zenon
  <2> HIDE DEF loop
  <2>2. QED  BY <1>3, <2>1, Zenon
<1>6. \A i \in 0..t : after[i] = part[i]
  <2> DEFINE S == {i \in 0..t : after[i] # part[i]}
  <2> SUFFICES ASSUME S # {} PROVE FALSE
    OBVIOUS
  <2>1. PICK i \in S : i = 0 \/ i - 1 \in (0..t) \ S
    BY FirstCounterexample
  <2>2. i \in 0..t /\ after[i] # part[i]
    BY <2>1
  <2>3. CASE i = 0
    BY <1>5, <2>2, <2>3
  <2>4. CASE i - 1 \in (0..t) \ S
    <3>1. i # 0 /\ after[i - 1] = part[i - 1]
      BY <2>2, <2>4
    <3>2. step(after, i) = step(part, i)
      BY <3>1
    <3> HIDE DEF step
    <3>3. turn(after, i) = turn(part, i)
      BY <3>1, <3>2, Zenon
    <3> HIDE DEF turn
    <3>4. QED  BY <1>1, <1>5, <2>2, <3>3, Zenon
  <2>5. QED  BY <2>1, <2>3, <2>4
<1>7. t \in 0..t
  OBVIOUS
<1>8. QED  BY <1>4, <1>6, <1>7, Zenon

\* A whole loop upwards, behind k bytes that were moved before.
LEMMA LoopUpMoves ==
    ASSUME NEW mem, NEW dst, NEW src, NEW n, Upwards(mem, dst, src, n),
           NEW k, NEW t, NEW w, NEW to, NEW from, NEW end, k \in Nat, t \in Nat, w \in {1, wsize},
           to = dst + k, from = src + k, end = k + w * t, end <= n
    PROVE  LoopUp(Moved(mem, dst, src, k), to, from, w, t) = Moved(mem, dst, src, end)
<1> DEFINE part == [i \in 0..t |-> Moved(mem, dst, src, k + w * i)]
<1>0. /\ dst \in Nat /\ src \in Nat /\ n \in Nat /\ k \in Nat /\ t \in Nat /\ w \in {1, 4}
      /\ dst < src
  BY DEF Upwards, wsize
<1>1. ASSUME NEW i \in 1..t
      PROVE  CopyUnit(part[i - 1], to + w * (i - 1), from + w * (i - 1), w) = part[i]
  <2> DEFINE j == k + w * (i - 1)
             next == k + w * i
             a == to + w * (i - 1)
             b == from + w * (i - 1)
  <2>1. /\ j \in Nat /\ w \in Nat /\ next \in Nat /\ next = j + w /\ next <= n
        /\ a = dst + j /\ b = src + j /\ a \in Int /\ b \in Int
    BY <1>0 DEF wsize
  <2>2. part[i - 1] = Moved(mem, dst, src, j) /\ part[i] = Moved(mem, dst, src, next)
    OBVIOUS
  <2> HIDE DEF j, next, a, b, part
  <2>4. CopyUnit(Moved(mem, dst, src, j), a, b, w) = Moved(mem, dst, src, next)
    BY <2>1, CopyUpKeeps
  <2>5. CopyUnit(part[i - 1], a, b, w) = part[i]
    BY <2>2, <2>4, Zenon
  <2>6. QED  BY <2>5, Zenon DEF a, b
<1>2. part[0] = Moved(mem, dst, src, k) /\ part[t] = Moved(mem, dst, src, end)
  <2>1. k + w * 0 = k /\ 0 \in 0..t /\ t \in 0..t
    BY <1>0 DEF wsize
  <2>2. QED  BY <2>1
<1>3. part = [i \in 0..t |-> part[i]]
  OBVIOUS
<1> HIDE DEF part
<1>4. TurnsUp(part, t, to, from, w)
  BY <1>1, <1>3, Zenon DEF TurnsUp
<1>5. LoopUp(part[0], to, from, w, t) = part[t]
  BY <1>4, LoopUpReaches
<1>6. QED  BY <1>2, <1>5, Zenon

\* The turns of a loop downwards lead from each part to the next.
TurnsDown(part, t, dst, src, w) ==
    /\ part = [i \in 0..t |-> part[i]]
    /\ \A i \in 1..t : CopyUnit(part[i - 1], dst - w * i, src - w * i, w) = part[i]

\* A loop whose turns lead from each part to the next leads from the first part
\* to the last.
LEMMA LoopDownReaches ==
    ASSUME NEW t, t \in Nat, NEW part, NEW dst, NEW src, NEW w, TurnsDown(part, t, dst, src, w)
    PROVE  LoopDown(part[0], dst, src, w, t) = part[t]
<1> DEFINE step(f, i) == CopyUnit(f[i - 1], dst - w * i, src - w * i, w)
           turn(f, i) == IF i = 0 THEN part[0] ELSE step(f, i)
           loop(f) == [i \in 0..t |-> turn(f, i)]
<1>0. /\ part = [i \in 0..t |-> part[i]]
      /\ \A i \in 1..t : CopyUnit(part[i - 1], dst - w * i, src - w * i, w) = part[i]
  BY DEF TurnsDown
<1>1. \A i \in 0..t : part[i] = turn(part, i)
  <2>1. \A i \in 1..t : step(part, i) = part[i]
    BY <1>0
  <2> HIDE DEF step
  <2>2. ASSUME NEW i \in 0..t PROVE part[i] = turn(part, i)
    <3>1. i = 0 \/ (i # 0 /\ i \in 1..t)
      OBVIOUS
    <3>2. QED  BY <2>1, <3>1, Zenon
  <2>3. QED  BY <2>2, Zenon
<1>2. part = loop(part)
  <2> HIDE DEF turn
  <2>1. QED  BY <1>0, <1>1, Zenon
<1> DEFINE after == CHOOSE f : f = loop(f)
<1>3. after = loop(after)
  <2> HIDE DEF loop
  <2>1. QED  BY <1>2, Zenon
<1>4. LoopDown(part[0], dst, src, w, t) = after[t]
  BY DEF LoopDown
<1> HIDE DEF after
<1>5. \A i \in 0..t : after[i] = turn(after, i)
  <2> HIDE DEF turn
  <2>1. \A i \in 0..t : loop(after)[i] = turn(after, i)
    BY Zenon
  <2> HIDE DEF loop
  <2>2. QED  BY <1>3, <2>1, Zenon
<1>6. \A i \in 0..t : after[i] = part[i]
  <2> DEFINE S == {i \in 0..t : after[i] # part[i]}
  <2> SUFFICES ASSUME S # {} PROVE FALSE
    OBVIOUS
  <2>1. PICK i \in S : i = 0 \/ i - 1 \in (0..t) \ S
    BY FirstCounterexample
  <2>2. i \in 0..t /\ after[i] # part[i]
    BY <2>1
  <2>3. CASE i = 0
    BY <1>5, <2>2, <2>3
  <2>4. CASE i - 1 \in (0..t) \ S
    <3>1. i # 0 /\ after[i - 1] = part[i - 1]
      BY <2>2, <2>4
    <3>2. step(after, i) = step(part, i)
      BY <3>1
    <3> HIDE DEF step
    <3>3. turn(after, i) = turn(part, i)
      BY <3>1, <3>2, Zenon
    <3> HIDE DEF turn
    <3>4. QED  BY <1>1, <1>5, <2>2, <3>3, Zenon
  <2>5. QED  BY <2>1, <2>3, <2>4
<1>7. t \in 0..t
  OBVIOUS
<1>8. QED  BY <1>4, <1>6, <1>7, Zenon

\* A whole loop downwards; dst and src are the ends of the regions.
LEMMA LoopDownMoves ==
    ASSUME NEW mem, NEW dst, NEW src, NEW n, Downwards(mem, dst, src, n),
           NEW k, NEW t, NEW w, NEW to, NEW from, NEW end, k \in Nat, t \in Nat, w \in {1, wsize},
           to = dst - k, from = src - k, end = k + w * t, end <= n
    PROVE  LoopDown(MovedDown(mem, dst, src, k), to, from, w, t) = MovedDown(mem, dst, src, end)
<1> DEFINE part == [i \in 0..t |-> MovedDown(mem, dst, src, k + w * i)]
<1>0. /\ dst \in Nat /\ src \in Nat /\ n \in Nat /\ k \in Nat /\ t \in Nat /\ w \in {1, 4}
      /\ src < dst /\ n <= src
  BY DEF Downwards, wsize
<1>1. ASSUME NEW i \in 1..t
      PROVE  CopyUnit(part[i - 1], to - w * i, from - w * i, w) = part[i]
  <2> DEFINE j == k + w * (i - 1)
             next == k + w * i
             a == to - w * i
             b == from - w * i
  <2>1. /\ j \in Nat /\ w \in Nat /\ next \in Nat /\ next = j + w /\ next <= n
        /\ dst = a + next /\ src = b + next /\ a \in Int /\ b \in Int
    BY <1>0 DEF wsize
  <2>2. part[i - 1] = MovedDown(mem, dst, src, j) /\ part[i] = MovedDown(mem, dst, src, next)
    OBVIOUS
  <2> HIDE DEF j, next, a, b, part
  <2>4. CopyUnit(MovedDown(mem, dst, src, j), a, b, w) = MovedDown(mem, dst, src, next)
    BY <2>1, CopyDownKeeps
  <2>5. CopyUnit(part[i - 1], a, b, w) = part[i]
    BY <2>2, <2>4, Zenon
  <2>6. QED  BY <2>5, Zenon DEF a, b
<1>2. part[0] = MovedDown(mem, dst, src, k) /\ part[t] = MovedDown(mem, dst, src, end)
  <2>1. k + w * 0 = k /\ 0 \in 0..t /\ t \in 0..t
    BY <1>0 DEF wsize
  <2>2. QED  BY <2>1
<1>3. part = [i \in 0..t |-> part[i]]
  OBVIOUS
<1> HIDE DEF part
<1>4. TurnsDown(part, t, to, from, w)
  BY <1>1, <1>3, Zenon DEF TurnsDown
<1>5. LoopDown(part[0], to, from, w, t) = part[t]
  BY <1>4, LoopDownReaches
<1>6. QED  BY <1>2, <1>5, Zenon

\* memcpy: the region is moved, whatever the alignment of the two regions, their
\* overlap and their length; this is what the C library promises of memmove.
THEOREM MemcpyMoves ==
    ASSUME NEW mem, NEW dst \in Nat, NEW src \in Nat, NEW n \in Nat,
           HasRegion(mem, src, n), mem = [a \in DOMAIN mem |-> mem[a]]
    PROVE  memcpy(mem, dst, src, n) = Moved(mem, dst, src, n)
<1>1. Moved(mem, dst, src, 0) = mem /\ \A d, s \in Int : Moved(mem, d, s, 0) = mem
  <2>1. ASSUME NEW d \in Int, NEW s \in Int PROVE Moved(mem, d, s, 0) = mem
    <3>1. d..(d + 0 - 1) = {}
      OBVIOUS
    <3>2. Moved(mem, d, s, 0) = [a \in DOMAIN mem |-> mem[a]]
      BY <3>1 DEF Moved
    <3>3. QED  BY <3>2
  <2>2. QED  BY <2>1
<1>2. CASE n = 0
  BY <1>1, <1>2 DEF memcpy
<1>3. CASE dst = src
  <2>1. memcpy(mem, dst, src, n) = mem
    BY <1>3 DEF memcpy
  <2>2. \A a \in DOMAIN mem : a - dst + src = a
    BY <1>3 DEF HasRegion
  <2>3. Moved(mem, dst, src, n) = [a \in DOMAIN mem |-> mem[a]]
    BY <2>2 DEF Moved
  <2>4. QED  BY <2>1, <2>3
<1>4. CASE n # 0 /\ dst < src
  <2> DEFINE t == HeadUp(dst, src, n)
             words == (n - t) \div wsize
             rest == (n - t) % wsize
             to == t + wsize * words
             front == LoopUp(mem, dst, src, 1, t)
             body == LoopUp(front, dst + t, src + t, wsize, words)
  <2>1. memcpy(mem, dst, src, n) = LoopUp(body, dst + to, src + to, 1, rest)
    BY <1>4 DEF memcpy, CopyForward
  <2>0. Upwards(mem, dst, src, n)
    BY <1>4 DEF Upwards
  <2>2. t \in 0..n
    BY CopiesAlignedWords
  <2> HIDE DEF t
  <2>3. words \in Nat /\ rest \in Nat /\ to + 1 * rest = n /\ to \in Nat /\ to <= n /\ 0 + 1 * t = t
    BY <2>2 DEF wsize
  <2>4. dst = dst + 0 /\ src = src + 0 /\ t = 0 + 1 * t /\ n = to + 1 * rest
    BY <2>3
  <2> HIDE DEF words, rest, front, body
  <2>5. front = Moved(mem, dst, src, t)
    <3>1. LoopUp(Moved(mem, dst, src, 0), dst, src, 1, t) = Moved(mem, dst, src, t)
      BY <2>0, <2>2, <2>4, LoopUpMoves
    <3>2. QED  BY <1>1, <3>1 DEF front
  <2>6. body = Moved(mem, dst, src, to)
    BY <2>0, <2>2, <2>3, <2>5, LoopUpMoves DEF body
  <2> HIDE DEF to
  <2>7. LoopUp(Moved(mem, dst, src, to), dst + to, src + to, 1, rest) = Moved(mem, dst, src, n)
    BY <2>0, <2>3, <2>4, LoopUpMoves
  <2>8. QED  BY <2>1, <2>6, <2>7
<1>5. CASE n # 0 /\ src < dst
  <2> DEFINE d == dst + n
             s == src + n
             t == HeadDown(d, s, n)
             words == (n - t) \div wsize
             rest == (n - t) % wsize
             to == t + wsize * words
             front == LoopDown(mem, d, s, 1, t)
             body == LoopDown(front, d - t, s - t, wsize, words)
             moved(j) == MovedDown(mem, d, s, j)
  <2>1. memcpy(mem, dst, src, n) = LoopDown(body, d - to, s - to, 1, rest)
    BY <1>5 DEF memcpy, CopyBackward
  <2>2. d \in Nat /\ s \in Nat /\ s < d /\ n <= s /\ s - n = src /\ d - n = dst /\ HasRegion(mem, s - n, n)
    <3>1. s - n = src
      OBVIOUS
    <3>2. QED  BY <1>5, <3>1
  <2> HIDE DEF d, s
  <2>3. t \in 0..n
    BY <2>2, CopiesAlignedWords
  <2> HIDE DEF t
  <2>4. words \in Nat /\ rest \in Nat /\ to + 1 * rest = n /\ to \in Nat /\ to <= n /\ 0 + 1 * t = t
    BY <2>3 DEF wsize
  <2>5. d = d - 0 /\ s = s - 0 /\ t = 0 + 1 * t /\ n = to + 1 * rest
    BY <2>2, <2>4
  <2>6. moved(0) = mem /\ moved(n) = Moved(mem, dst, src, n)
    BY <1>1, <2>2, <2>5 DEF MovedDown
  <2>7. Downwards(mem, d, s, n)
    BY <2>2 DEF Downwards
  <2> HIDE DEF words, rest, front, body
  <2>8. front = moved(t)
    <3>1. LoopDown(moved(0), d, s, 1, t) = moved(t)
      BY <2>3, <2>5, <2>7, LoopDownMoves
    <3>2. QED  BY <2>6, <3>1 DEF front
  <2>9. body = moved(to)
    BY <2>3, <2>4, <2>7, <2>8, LoopDownMoves DEF body
  <2> HIDE DEF to
  <2>10. LoopDown(moved(to), d - to, s - to, 1, rest) = moved(n)
    BY <2>4, <2>5, <2>7, LoopDownMoves
  <2>11. QED  BY <2>1, <2>6, <2>9, <2>10
<1>6. QED  BY <1>2, <1>3, <1>4, <1>5

\* memmove moves its region as well: one byte a turn, from the end that an overlap
\* cannot spoil.
THEOREM MemmoveMoves ==
    ASSUME NEW mem, NEW dst \in Nat, NEW src \in Nat, NEW n \in Nat,
           HasRegion(mem, src, n), mem = [a \in DOMAIN mem |-> mem[a]]
    PROVE  memmove(mem, dst, src, n) = Moved(mem, dst, src, n)
<1>1. ASSUME NEW d \in Int, NEW s \in Int PROVE Moved(mem, d, s, 0) = mem
  <2>1. d..(d + 0 - 1) = {}
    OBVIOUS
  <2>2. Moved(mem, d, s, 0) = [a \in DOMAIN mem |-> mem[a]]
    BY <2>1 DEF Moved
  <2>3. QED  BY <2>2
<1>2. n = 0 + 1 * n
  OBVIOUS
<1>3. CASE dst < src
  <2>1. Upwards(mem, dst, src, n)
    BY <1>3 DEF Upwards
  <2>2. dst = dst + 0 /\ src = src + 0
    OBVIOUS
  <2>3. LoopUp(Moved(mem, dst, src, 0), dst, src, 1, n) = Moved(mem, dst, src, n)
    BY <1>2, <2>1, <2>2, LoopUpMoves
  <2>4. QED  BY <1>1, <1>3, <2>3 DEF memmove
<1>4. CASE src < dst
  <2> DEFINE d == dst + n
             s == src + n
  <2>1. d \in Nat /\ s \in Nat /\ s < d /\ n <= s /\ s - n = src /\ d - n = dst /\ d = d - 0 /\ s = s - 0
    BY <1>4
  <2>2. memmove(mem, dst, src, n) = LoopDown(mem, d, s, 1, n)
    BY <1>4 DEF memmove
  <2> HIDE DEF d, s
  <2>3. HasRegion(mem, s - n, n)
    BY <2>1
  <2>4. Downwards(mem, d, s, n)
    BY <2>1, <2>3 DEF Downwards
  <2>5. LoopDown(MovedDown(mem, d, s, 0), d, s, 1, n) = MovedDown(mem, d, s, n)
    BY <1>2, <2>1, <2>4, LoopDownMoves
  <2>6. MovedDown(mem, d, s, 0) = mem /\ MovedDown(mem, d, s, n) = Moved(mem, dst, src, n)
    BY <1>1, <2>1 DEF MovedDown
  <2>7. QED  BY <2>2, <2>5, <2>6
<1>5. CASE src = dst
  <2> DEFINE part == [i \in 0..n |-> mem]
  <2> DEFINE d == dst + n
             s == src + n
  <2>0. d \in Nat /\ s = d
    BY <1>5
  <2> HIDE DEF d, s
  <2>1. ASSUME NEW i \in 1..n
        PROVE  CopyUnit(part[i - 1], d - 1 * i, s - 1 * i, 1) = part[i]
    <3>1. part[i - 1] = mem /\ part[i] = mem
      OBVIOUS
    <3> DEFINE low == d - 1 * i
               from == s - 1 * i
    <3>3. \A a \in DOMAIN mem : a - low + from = a
      BY <2>0 DEF HasRegion
    <3> HIDE DEF low, from
    <3>4. CopyUnit(mem, low, from, 1) = [a \in DOMAIN mem |-> mem[a]]
      BY <3>3 DEF CopyUnit
    <3>5. QED  BY <3>1, <3>4 DEF low, from
  <2>2. part = [i \in 0..n |-> part[i]] /\ part[0] = mem /\ part[n] = mem
    OBVIOUS
  <2> HIDE DEF part
  <2>3. TurnsDown(part, n, d, s, 1)
    BY <2>1, <2>2, Zenon DEF TurnsDown
  <2>4. LoopDown(mem, d, s, 1, n) = mem
    BY <2>2, <2>3, LoopDownReaches
  <2>5. \A a \in DOMAIN mem : a - dst + src = a
    BY <1>5 DEF HasRegion
  <2>6. Moved(mem, dst, src, n) = mem
    BY <2>5 DEF Moved
  <2>7. QED  BY <1>5, <2>4, <2>6 DEF memmove, d, s
<1>6. QED  BY <1>3, <1>4, <1>5

\* What a tail of a word and a byte leaves of a pattern behind the longs.
LEMMA StosAt ==
    ASSUME NEW mem, NEW dst, NEW pattern, NEW w, NEW n, NEW a \in DOMAIN mem
    PROVE  /\ DOMAIN Stos(mem, dst, pattern, w, n) = DOMAIN mem
           /\ a \in dst..(dst + w * n - 1) =>
                 Stos(mem, dst, pattern, w, n)[a] = PatternByte(pattern, (a - dst) % w)
           /\ a \notin dst..(dst + w * n - 1) => Stos(mem, dst, pattern, w, n)[a] = mem[a]
BY DEF Stos

\* Nothing is stored by a string instruction whose count is 0.
LEMMA StosNone ==
    ASSUME NEW mem, mem = [a \in DOMAIN mem |-> mem[a]], NEW dst \in Int, NEW pattern, NEW w \in Nat
    PROVE  Stos(mem, dst, pattern, w, 0) = mem
<1>1. dst..(dst + w * 0 - 1) = {}
  OBVIOUS
<1>2. QED  BY <1>1 DEF Stos

\* The two ways of storing a pattern agree, for every pattern and every count: the
\* cases of constant_c_and_count_memset are those of the two tests of bits.
THEOREM PatternMemsetsAgree ==
    ASSUME NEW mem, DOMAIN mem \subseteq Nat, mem = [a \in DOMAIN mem |-> mem[a]],
           NEW dst \in Nat, NEW pattern \in Nat, NEW n \in Nat
    PROVE  constant_c_and_count_memset(mem, dst, pattern, n) = constant_c_memset(mem, dst, pattern, n)
<1> DEFINE words == n \div 4
           half == (n \div 2) % 2
           longs == Stos(mem, dst, pattern, 4, words)
           tail == dst + 4 * words
           both == Stos(longs, tail, pattern, 2, half)
           one == constant_c_and_count_memset(mem, dst, pattern, n)
           other == constant_c_memset(mem, dst, pattern, n)
<1>1. other = Stos(both, tail + 2 * half, pattern, 1, n % 2)
  BY DEF constant_c_memset
<1>2. /\ words \in Nat /\ half \in {0, 1} /\ n % 2 \in {0, 1} /\ tail \in Nat
  OBVIOUS
<1>3. longs = [a \in DOMAIN longs |-> longs[a]] /\ both = [a \in DOMAIN both |-> both[a]]
  BY DEF Stos
<1>4. /\ half = 0 => both = longs
      /\ n % 2 = 0 => other = both
      /\ words = 0 => longs = mem /\ tail = dst
  <2>1. half = 0 => both = longs
    <3>1. half = 0 => both = Stos(longs, tail, pattern, 2, 0)
      OBVIOUS
    <3> HIDE DEF both, longs, half, tail
    <3>2. Stos(longs, tail, pattern, 2, 0) = longs
      BY <1>2, <1>3, StosNone
    <3>3. QED  BY <3>1, <3>2
  <2>2. n % 2 = 0 => other = both
    <3>1. tail + 2 * half \in Int
      BY <1>2
    <3>2. QED  BY <1>1, <1>3, <3>1, StosNone
  <2>3. words = 0 => longs = mem /\ tail = dst
    BY StosNone
  <2>4. QED  BY <2>1, <2>2, <2>3
<1>5. /\ n % 4 = 0 => n % 2 = 0 /\ half = 0
      /\ n % 4 = 1 => n % 2 = 1 /\ half = 0
      /\ n % 4 = 2 => n % 2 = 0 /\ half = 1
      /\ n % 4 = 3 => n % 2 = 1 /\ half = 1
  OBVIOUS
<1> HIDE DEF words, half, longs, both, other
<1>6. CASE n = 0
  <2>1. words = 0 /\ half = 0 /\ n % 2 = 0
    BY <1>6 DEF words, half
  <2>2. one = mem
    BY <1>6 DEF constant_c_and_count_memset
  <2>3. QED  BY <1>4, <2>1, <2>2 DEF other
<1>7. CASE n = 1
  <2>1. words = 0 /\ half = 0 /\ n % 2 = 1 /\ tail + 2 * half = tail
    BY <1>7, <1>2 DEF words, half
  <2>2. one = Stos(mem, dst, pattern, 1, 1)
    BY <1>7 DEF constant_c_and_count_memset
  <2>3. QED  BY <1>1, <1>4, <2>1, <2>2 DEF other
<1>8. CASE n = 2
  <2>1. words = 0 /\ half = 1 /\ n % 2 = 0
    BY <1>8 DEF words, half
  <2>2. one = Stos(mem, dst, pattern, 2, 1)
    BY <1>8 DEF constant_c_and_count_memset
  <2>3. QED  BY <1>4, <2>1, <2>2 DEF other, both
<1>9. CASE n = 3
  <2>1. words = 0 /\ half = 1 /\ n % 2 = 1 /\ tail + 2 * half = tail + 2
    BY <1>9, <1>2 DEF words, half
  <2>2. one = Stos(Stos(mem, dst, pattern, 2, 1), dst + 2, pattern, 1, 1)
    BY <1>9 DEF constant_c_and_count_memset
  <2>3. QED  BY <1>1, <1>4, <2>1, <2>2 DEF other, both
<1>10. CASE n = 4
  <2>1. words = 1 /\ half = 0 /\ n % 2 = 0
    BY <1>10 DEF words, half
  <2>2. one = Stos(mem, dst, pattern, 4, 1)
    BY <1>10 DEF constant_c_and_count_memset
  <2>3. QED  BY <1>4, <2>1, <2>2 DEF other, longs
<1>11. CASE n > 4
  <2>1. one = CASE n % 4 = 0 -> longs
                [] n % 4 = 1 -> Stos(longs, tail, pattern, 1, 1)
                [] n % 4 = 2 -> Stos(longs, tail, pattern, 2, 1)
                [] n % 4 = 3 -> Stos(Stos(longs, tail, pattern, 2, 1), tail + 2, pattern, 1, 1)
    BY <1>11 DEF constant_c_and_count_memset, longs, words
  <2>2. CASE n % 4 = 0
    <3>1. half = 0 /\ n % 2 = 0
      BY <1>5, <2>2
    <3>2. QED  BY <1>4, <2>1, <2>2, <3>1 DEF other
  <2>3. CASE n % 4 = 1
    <3>0. half = 0 /\ n % 2 = 1
      BY <1>5, <2>3
    <3>1. half = 0 /\ n % 2 = 1 /\ tail + 2 * half = tail
      BY <1>2, <3>0
    <3>2. QED  BY <1>1, <1>4, <2>1, <2>3, <3>1 DEF other
  <2>4. CASE n % 4 = 2
    <3>1. half = 1 /\ n % 2 = 0
      BY <1>2, <1>5, <2>4
    <3>2. QED  BY <1>4, <2>1, <2>4, <3>1 DEF other, both
  <2>5. CASE n % 4 = 3
    <3>1. half = 1 /\ n % 2 = 1 /\ tail + 2 * half = tail + 2
      BY <1>2, <1>5, <2>5
    <3>2. QED  BY <1>1, <2>1, <2>5, <3>1 DEF other, both
  <2>6. n % 4 \in 0..3
    OBVIOUS
  <2>7. QED  BY <2>2, <2>3, <2>4, <2>5, <2>6
<1>12. QED  BY <1>6, <1>7, <1>8, <1>9, <1>10, <1>11 DEF other

\* A pattern of four equal bytes fills the region with that byte, for every count:
\* what the longs, the word and the byte leave out or overlap is nothing.
THEOREM PatternMemsetFills ==
    ASSUME NEW mem, DOMAIN mem \subseteq Nat, NEW dst \in Nat, NEW n \in Nat,
           NEW c, NEW pattern, \A i \in 0..3 : PatternByte(pattern, i) = c % 256
    PROVE  constant_c_memset(mem, dst, pattern, n) = Filled(mem, dst, c, n)
<1> DEFINE words == n \div 4
           half == (n \div 2) % 2
           odd == n % 2
           tail == dst + 4 * words
           last == tail + 2 * half
           longs == Stos(mem, dst, pattern, 4, words)
           both == Stos(longs, tail, pattern, 2, half)
           all == Stos(both, last, pattern, 1, odd)
<1>1. constant_c_memset(mem, dst, pattern, n) = all
  BY DEF constant_c_memset
<1>2. /\ words \in Nat /\ half \in {0, 1} /\ odd \in {0, 1} /\ tail \in Nat /\ last \in Nat
  OBVIOUS
<1>3. last + odd = dst + n
  OBVIOUS
<1> HIDE DEF words, half, odd
<1>8. /\ longs = Stos(mem, dst, pattern, 4, words) /\ both = Stos(longs, tail, pattern, 2, half)
      /\ all = Stos(both, last, pattern, 1, odd)
  OBVIOUS
<1>4. DOMAIN longs = DOMAIN mem /\ DOMAIN both = DOMAIN mem /\ DOMAIN all = DOMAIN mem
  BY DEF Stos
<1>6. all = [a \in DOMAIN mem |-> all[a]]
  BY <1>4 DEF Stos
<1> HIDE DEF longs, both, all
<1>5. ASSUME NEW a \in DOMAIN mem
      PROVE  all[a] = Filled(mem, dst, c, n)[a]
  <2> DEFINE upto(b) == a \in dst..(b - 1)
  <2>0. a \in Nat
    OBVIOUS
  <2>1. ASSUME NEW x \in Nat, NEW w \in {1, 2, 4}
        PROVE  PatternByte(pattern, x % w) = c % 256
    <3>1. x % w \in 0..3
      OBVIOUS
    <3>2. QED  BY <3>1
  <2>2. /\ upto(tail) => longs[a] = c % 256
        /\ ~upto(tail) => longs[a] = mem[a]
    <3>1. upto(tail) => a - dst \in Nat /\ longs[a] = PatternByte(pattern, (a - dst) % 4)
      BY <1>2, <1>8, <2>0, StosAt
    <3>2. ~upto(tail) => longs[a] = mem[a]
      BY <1>2, <1>8, <2>0, StosAt
    <3>3. QED  BY <2>1, <3>1, <3>2
  <2>3. /\ upto(last) => both[a] = c % 256
        /\ ~upto(last) => both[a] = mem[a]
    <3>1. a \in tail..(tail + 2 * half - 1) => a - tail \in Nat /\ both[a] = PatternByte(pattern, (a - tail) % 2)
      BY <1>2, <1>4, <1>8, <2>0, StosAt
    <3>2. a \in tail..(tail + 2 * half - 1) => both[a] = c % 256
      BY <2>1, <3>1
    <3>3. a \notin tail..(tail + 2 * half - 1) => both[a] = longs[a]
      BY <1>4, <1>8, StosAt
    <3>4. upto(last) <=> upto(tail) \/ a \in tail..(tail + 2 * half - 1)
      BY <1>2, <2>0
    <3>5. QED  BY <2>2, <3>2, <3>3, <3>4
  <2>4. /\ upto(dst + n) => all[a] = c % 256
        /\ ~upto(dst + n) => all[a] = mem[a]
    <3> DEFINE end == last + 1 * odd
    <3>1. a \in last..(end - 1) => a - last \in Nat /\ all[a] = PatternByte(pattern, (a - last) % 1)
      BY <1>2, <1>4, <1>8, <2>0, StosAt
    <3>2. a \in last..(end - 1) => all[a] = c % 256
      BY <2>1, <3>1
    <3>3. a \notin last..(end - 1) => all[a] = both[a]
      BY <1>2, <1>4, <1>8, <2>0, StosAt
    <3>4. upto(dst + n) <=> upto(last) \/ a \in last..(end - 1)
      BY <1>2, <1>3, <2>0 DEF last, tail
    <3>5. QED  BY <2>3, <3>2, <3>3, <3>4
  <2>5. QED  BY <2>4 DEF Filled
<1>7. QED  BY <1>1, <1>5, <1>6 DEF Filled

\* The least element of a set of addresses.
LEMMA Least ==
    ASSUME NEW S, S \subseteq Nat, S # {}
    PROVE  \E a \in S : \A b \in S : a <= b
<1>1. PICK a \in S : \A b \in S : ~(<<b, a>> \in OpToRel(<, Nat))
  BY NatLessThanWellFounded, WFMin, Zenon
<1>2. \A b \in S : ~(b < a)
  BY <1>1 DEF OpToRel
<1>3. QED  BY <1>2

\* memscan and memchr stop at the first byte equal to c; past the last one memscan
\* gives the end of the region, memchr 0.
THEOREM ScansStopAtTheFirst ==
    ASSUME NEW mem, NEW at \in Nat, NEW n \in Nat, NEW c
    PROVE  LET last == memscan(mem, at, c, n)
           IN  /\ last \in at..(at + n)
               /\ last < at + n => mem[last] = c % 256
               /\ \A a \in at..(last - 1) : mem[a] # c % 256
               /\ memchr(mem, at, c, n) = IF last = at + n THEN 0 ELSE last
<1> DEFINE same == Equals(mem, at, c, n)
           first == CHOOSE a \in same : \A b \in same : a <= b
           last == memscan(mem, at, c, n)
<1>1. same \subseteq at..(at + n - 1) /\ \A a \in at..(at + n - 1) : a \in same <=> mem[a] = c % 256
  BY DEF Equals
<1>2. CASE same = {}
  <2>1. last = at + n /\ memchr(mem, at, c, n) = 0
    BY <1>2 DEF memscan, memchr, Scas
  <2>2. QED  BY <1>1, <1>2, <2>1
<1>3. CASE same # {}
  <2>1. n # 0
    BY <1>1, <1>3
  <2>2. Scas(mem, at, c, n) = 1 + first
    BY <1>3 DEF Scas
  <2>3. same \subseteq Nat
    BY <1>1
  <2>4. first \in same /\ \A b \in same : first <= b
    <3>1. \E a \in same : \A b \in same : a <= b
      BY <1>3, <2>3, Least
    <3> HIDE DEF same
    <3>2. QED  BY <3>1
  <2>5. last = first /\ memchr(mem, at, c, n) = first
    <3> HIDE DEF first
    <3>1. first \in Nat
      BY <2>3, <2>4
    <3>2. QED  BY <1>3, <2>1, <2>2, <3>1 DEF memscan, memchr
  <2> HIDE DEF first, last, same
  <2>6. last \in at..(at + n - 1) /\ mem[last] = c % 256
    BY <1>1, <2>4, <2>5
  <2>7. \A a \in at..(last - 1) : mem[a] # c % 256
    <3> SUFFICES ASSUME NEW a \in at..(last - 1), mem[a] = c % 256 PROVE FALSE
      OBVIOUS
    <3>1. a \in same
      BY <1>1, <2>6
    <3>2. QED  BY <2>4, <2>5, <2>6, <3>1
  <2>8. QED  BY <2>5, <2>6, <2>7 DEF last
<1>4. QED  BY <1>2, <1>3
=============================================================================
