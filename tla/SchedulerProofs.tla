--------------------------- MODULE SchedulerProofs ---------------------------
(***************************************************************************)
(* No block the list reaches was freed, and what add_process writes        *)
(* through the tail is never a freed block, for every number of processes  *)
(* and every heap; and the list is the queue of module ReadyQueue.         *)
(***************************************************************************)
EXTENDS Scheduler, SequenceTheorems, WellFoundedInduction, TLAPS

\* Blocks are numbered when they are handed out.
Numbered == \A b \in allocated : pid[b] \in 1..MaxPid

\* Each block is led to from one place at most, the head from none but the
\* block schedule() is about to free.
Chain ==
  /\ \A b \in allocated : next[b] \in allocated \cup {NULL}
  /\ \A a, b \in allocated : next[a] = next[b] /\ next[a] # NULL => a = b
  /\ \A b \in allocated : b # current /\ next[b] # NULL => next[b] \notin {ready_queue_head, current}

\* The block schedule() works on is the head until it is unlinked.
AtHead ==
  /\ ready_queue_head \in allocated \cup {NULL}
  /\ after \in {"idle", "loop"} => current = NULL
  /\ after \in {"running", "unlink", "free"} => current \in allocated
  /\ after \in {"running", "unlink"} => ready_queue_head = current
  /\ after \in {"running", "unlink", "free"} => next[current] # current
  /\ after = "free" => ready_queue_head = next[current]

\* The tail ends the list; it dangles only when the list has become empty.
AtTail ==
  /\ ready_queue_tail \in allocated => next[ready_queue_tail] = NULL
  /\ ready_queue_head # NULL => ready_queue_tail \in allocated
  /\ after = "idle" /\ ready_queue_head = NULL => ready_queue_tail = NULL
  /\ after \in {"running", "unlink", "free"} =>
       ready_queue_tail \in allocated

Sound == TypeOK /\ Numbered /\ Chain /\ AtHead /\ AtTail
-----------------------------------------------------------------------------

LEMMA InitSound == Init => Sound
<1> SUFFICES ASSUME Init PROVE Sound
  OBVIOUS
<1>1. ran \in Seq(1..MaxPid)
  BY DEF Init
<1>2. next_pid \in 1..MaxPid+1 /\ pid \in [Blocks -> 0..MaxPid]
  BY SchedulerAssumption DEF Init
<1>3. TypeOK
  BY <1>1, <1>2 DEF Init, TypeOK
<1> QED
  BY <1>3 DEF Init, Sound, Numbered, Chain, AtHead, AtTail

\* A new block is linked behind the tail or begins the list.
LEMMA AddProcessKeeps ==
  ASSUME Sound, NEW b \in Blocks, AddProcess(b)
  PROVE  Sound'
<1>1. TypeOK /\ Numbered /\ Chain /\ AtHead /\ AtTail /\ NULL \notin Blocks /\ NULL \notin allocated
  BY SchedulerAssumption DEF Sound, TypeOK
<1>2. /\ after \in {"idle", "running"} /\ b \notin allocated
      /\ allocated' = allocated \cup {b}
      /\ ready_queue_head' = IF ready_queue_tail = NULL THEN b ELSE ready_queue_head
      /\ ready_queue_tail' = b
      /\ UNCHANGED <<current, after, ran>>
  BY DEF AddProcess
<1>3. /\ next' \in [Blocks -> Blocks \cup {NULL}]
      /\ next'[b] = NULL
      /\ \A a \in allocated : next'[a] = IF a = ready_queue_tail THEN b ELSE next[a]
  BY <1>1, <1>2 DEF AddProcess, LinkedBehind, TypeOK
<1>4. next_pid \in 1..MaxPid /\ next_pid' \in 1..MaxPid+1
  BY <1>1, SchedulerAssumption DEF AddProcess, TypeOK
<1>5. /\ pid' \in [Blocks -> 0..MaxPid] /\ pid'[b] = next_pid
      /\ \A a \in allocated : pid'[a] = pid[a]
      /\ state' \in [Blocks -> {"READY", "RUNNING", "TERMINATED"}]
  BY <1>1, <1>2, <1>4 DEF AddProcess, NewPid, TypeOK
<1>6. TypeOK'
  BY <1>1, <1>2, <1>3, <1>4, <1>5 DEF TypeOK
<1>7. Numbered'
  BY <1>1, <1>2, <1>4, <1>5 DEF Numbered
<1>8. ready_queue_tail = NULL <=> ready_queue_head = NULL
  BY <1>1, <1>2 DEF AtHead, AtTail
<1>9. ready_queue_tail # NULL => ready_queue_tail \in allocated /\ next[ready_queue_tail] = NULL
  BY <1>1, <1>8 DEF AtTail
<1>10. \A a \in allocated : next[a] # b
  BY <1>1, <1>2 DEF Chain
<1>11. Chain'
  <2>1. \A a \in allocated' : next'[a] \in allocated' \cup {NULL}
    BY <1>1, <1>2, <1>3 DEF Chain
  <2>2. \A a, c \in allocated' : next'[a] = next'[c] /\ next'[a] # NULL => a = c
    BY <1>1, <1>2, <1>3, <1>10 DEF Chain
  <2>3. ASSUME NEW a \in allocated', a # current, next'[a] # NULL
        PROVE  next'[a] \notin {ready_queue_head', current}
    <3>1. a \in allocated /\ (a = ready_queue_tail \/ next'[a] = next[a])
      BY <1>2, <1>3, <2>3
    <3>2. CASE a = ready_queue_tail
      <4>1. next'[a] = b /\ ready_queue_tail # NULL
        BY <1>1, <1>3, <3>1, <3>2
      <4>2. ready_queue_head \in allocated /\ ready_queue_head' = ready_queue_head
        BY <1>1, <1>2, <1>8, <4>1 DEF AtHead
      <4>3. current # b
        BY <1>1, <1>2 DEF AtHead
      <4> QED
        BY <1>2, <4>1, <4>2, <4>3
    <3>3. CASE a # ready_queue_tail
      BY <1>1, <1>2, <1>10, <2>3, <3>1, <3>3 DEF Chain
    <3> QED
      BY <3>2, <3>3
  <2> QED
    BY <1>2, <2>1, <2>2, <2>3 DEF Chain
<1>12. AtHead'
  BY <1>1, <1>2, <1>3, <1>8, <1>9 DEF AtHead
<1>13. AtTail'
  BY <1>2, <1>3, <1>8 DEF AtTail
<1> QED
  BY <1>6, <1>7, <1>11, <1>12, <1>13 DEF Sound

\* Running, unlinking and freeing the head keeps the chain.
LEMMA ScheduleKeeps ==
  ASSUME Sound, CallSchedule \/ Schedule
  PROVE  Sound'
<1>1. TypeOK /\ Numbered /\ Chain /\ AtHead /\ AtTail /\ NULL \notin Blocks /\ NULL \notin allocated
  BY SchedulerAssumption DEF Sound, TypeOK
<1>2. CASE CallSchedule
  BY <1>1, <1>2 DEF CallSchedule, queue, pcb, Sound, TypeOK, Numbered, Chain, AtHead, AtTail
<1>3. CASE RunHead
  <2>1. /\ ready_queue_head \in allocated /\ current = NULL
        /\ current' = ready_queue_head /\ after' = "running"
        /\ UNCHANGED <<ready_queue_head, ready_queue_tail, next_pid, pid, next, allocated>>
    BY <1>1, <1>3 DEF RunHead, AtHead, queue
  <2>2. ran' \in Seq(1..MaxPid)
    <3>1. ran \in Seq(1..MaxPid) /\ pid[ready_queue_head] \in 1..MaxPid
      BY <1>1, <2>1 DEF TypeOK, Numbered
    <3>2. ran' = Append(ran, pid[ready_queue_head])
      BY <1>3 DEF RunHead
    <3> QED
      BY <3>1, <3>2
  <2>3. state' \in [Blocks -> {"READY", "RUNNING", "TERMINATED"}]
    BY <1>1, <1>3 DEF RunHead, TypeOK
  <2>4. TypeOK' /\ Numbered'
    BY <1>1, <2>1, <2>2, <2>3 DEF TypeOK, Numbered
  <2>5. Chain' /\ AtHead' /\ AtTail'
    BY <1>1, <2>1 DEF Chain, AtHead, AtTail
  <2> QED
    BY <2>4, <2>5 DEF Sound
<1>4. CASE Ends
  <2>1. state' \in [Blocks -> {"READY", "RUNNING", "TERMINATED"}]
    BY <1>1, <1>4 DEF Ends, TypeOK
  <2> QED
    BY <1>1, <1>4, <2>1 DEF Ends, queue, Sound, TypeOK, Numbered, Chain, AtHead, AtTail
<1>5. CASE Unlink
  <2>1. /\ after = "unlink" /\ after' = "free" /\ current \in allocated
        /\ ready_queue_head' = next[current]
        /\ UNCHANGED <<ready_queue_tail, next_pid, pid, state, next, allocated, current, ran>>
    BY <1>1, <1>5 DEF Unlink, AtHead, pcb
  <2>2. TypeOK' /\ Numbered'
    BY <1>1, <2>1 DEF TypeOK, Numbered
  <2>3. Chain'
    BY <1>1, <2>1 DEF Chain
  <2>4. AtHead' /\ AtTail'
    BY <1>1, <2>1 DEF Chain, AtHead, AtTail
  <2> QED
    BY <2>2, <2>3, <2>4 DEF Sound
<1>6. CASE Free
  <2>1. /\ after = "free" /\ after' = "loop" /\ current \in allocated
        /\ current' = NULL /\ allocated' = allocated \ {current}
        /\ ready_queue_head = next[current] /\ next[current] # current
        /\ UNCHANGED <<ready_queue_head, ready_queue_tail, next_pid, pid, state, next, ran>>
    BY <1>1, <1>6 DEF Free, Freed, AtHead, queue, pcb
  <2>2. TypeOK' /\ Numbered'
    BY <1>1, <2>1 DEF TypeOK, Numbered
  <2>3. Chain'
    BY <1>1, <2>1 DEF Chain
  <2>4. AtHead' /\ AtTail'
    BY <1>1, <2>1 DEF AtHead, AtTail
  <2> QED
    BY <2>2, <2>3, <2>4 DEF Sound
<1>7. CASE LoopEnds
  <2>1. /\ after = "loop" /\ after' = "idle" /\ ready_queue_head = NULL /\ ready_queue_tail' = NULL
        /\ UNCHANGED <<ready_queue_head, next_pid, pid, state, next, allocated, current, ran>>
    BY <1>7 DEF LoopEnds, TailOfNone, pcb
  <2>2. TypeOK' /\ Numbered'
    BY <1>1, <2>1 DEF TypeOK, Numbered
  <2>3. Chain' /\ AtHead' /\ AtTail'
    BY <1>1, <2>1 DEF Chain, AtHead, AtTail
  <2> QED
    BY <2>2, <2>3 DEF Sound
<1> QED
  BY <1>2, <1>3, <1>4, <1>5, <1>6, <1>7 DEF Schedule

LEMMA NextSound == Sound /\ [Next]_vars => Sound'
<1>1. Sound /\ UNCHANGED vars => Sound'
  BY DEF vars, Sound, TypeOK, Numbered, Chain, AtHead, AtTail
<1> QED
  BY <1>1, AddProcessKeeps, ScheduleKeeps DEF Next

\* Sound is inductive, hence holds in every state that can be reached.
THEOREM SoundAlways == Spec => []Sound
  BY InitSound, NextSound, PTL DEF Spec

\* NoDanglingBlock: whatever can be reached was not freed, and the tail
\* add_process writes through is the last block of the list
\* (cpu_sched.c:30-36, 50-53).
THEOREM NeverDangles == Spec => []NoDanglingBlock
<1>1. ASSUME Sound
      PROVE  NoDanglingBlock
  <2>1. NULL \notin allocated
    BY <1>1, SchedulerAssumption DEF Sound, TypeOK
  <2> QED
    BY <1>1, <2>1 DEF Sound, Chain, AtHead, AtTail, NoDanglingBlock
<1> QED
  BY <1>1, SoundAlways, PTL

\* The block schedule() frees is in nobody's list any more (cpu_sched.c:50-51).
THEOREM FreesOnlyUnlinked ==
  Spec => [][Free => \A b \in allocated : b # current => next[b] # current]_vars
<1>1. Sound /\ [Next]_vars => [Free => \A b \in allocated : b # current => next[b] # current]_vars
  <2> SUFFICES ASSUME Sound, Free, NEW b \in allocated, b # current
               PROVE  next[b] # current
    OBVIOUS
  <2>1. current \in allocated /\ NULL \notin allocated
    BY SchedulerAssumption DEF Sound, TypeOK, AtHead, Free
  <2> QED
    BY <2>1 DEF Sound, Chain
<1> QED
  BY <1>1, SoundAlways, PTL DEF Spec

-----------------------------------------------------------------------------
(* The list is the queue of ReadyQueue. *)

Served == Len(ran)

\* The list holds, one behind the other, the numbers that were given out and not
\* run yet; a block whose number was run is the one schedule() works on.
InOrder ==
  /\ ran = [i \in 1..Served |-> i]
  /\ \A b \in allocated : pid[b] < next_pid /\ (b = current \/ pid[b] > Served)
  /\ \A a, b \in allocated : pid[a] = pid[b] => a = b
  /\ \A b \in allocated :
       IF next[b] = NULL THEN pid[b] = next_pid - 1 ELSE pid[next[b]] = pid[b] + 1
  /\ current # NULL => pid[current] = Served
  /\ after \in {"idle", "loop"} =>
       IF ready_queue_head = NULL THEN Served = next_pid - 1 ELSE pid[ready_queue_head] = Served + 1

Ordered == Sound /\ InOrder

LEMMA InitInOrder == Init => InOrder
  BY DEF Init, InOrder, Served

LEMMA AddProcessInOrder ==
  ASSUME Ordered, NEW b \in Blocks, AddProcess(b)
  PROVE  InOrder'
<1>1. /\ TypeOK /\ Numbered /\ Chain /\ AtHead /\ AtTail /\ InOrder
      /\ NULL \notin Blocks /\ NULL \notin allocated
  BY SchedulerAssumption DEF Ordered, Sound, TypeOK
<1>2. /\ after \in {"idle", "running"} /\ b \notin allocated
      /\ allocated' = allocated \cup {b} /\ next_pid' = next_pid + 1
      /\ ready_queue_head' = IF ready_queue_tail = NULL THEN b ELSE ready_queue_head
      /\ UNCHANGED <<current, after, ran>>
  BY DEF AddProcess
<1>3. /\ next'[b] = NULL
      /\ \A a \in allocated : next'[a] = IF a = ready_queue_tail THEN b ELSE next[a]
  BY <1>1, <1>2 DEF AddProcess, LinkedBehind, TypeOK
<1>4. /\ pid'[b] = next_pid
      /\ \A a \in allocated : pid'[a] = pid[a] /\ pid[a] \in 1..MaxPid
      /\ next_pid \in Nat
  BY <1>1, <1>2 DEF AddProcess, NewPid, TypeOK, Numbered
<1>5. Served' = Served /\ Served \in Nat
  BY <1>1, <1>2 DEF Served, TypeOK
<1>6. ready_queue_tail = NULL <=> ready_queue_head = NULL
  BY <1>1, <1>2 DEF AtHead, AtTail
<1>7. ready_queue_tail # NULL => ready_queue_tail \in allocated /\ next[ready_queue_tail] = NULL
  BY <1>1, <1>6 DEF AtTail
<1>8. Served <= next_pid - 1
  <2>1. CASE after = "idle"
    BY <1>1, <1>2, <1>4, <1>5, <2>1 DEF InOrder, AtHead
  <2>2. CASE after = "running"
    BY <1>1, <1>2, <1>4, <1>5, <2>2 DEF InOrder, AtHead
  <2>3. QED  BY <1>2, <2>1, <2>2
<1> HIDE DEF Served
<1>9. \A a \in allocated : next[a] = NULL => a = ready_queue_tail
  <2>1. ASSUME NEW a \in allocated, next[a] = NULL PROVE a = ready_queue_tail
    <3>1. pid[a] = next_pid - 1
      BY <1>1, <2>1 DEF InOrder
    <3>2. ready_queue_tail # NULL
      BY <1>1, <1>2, <1>4, <1>5, <1>6, <3>1 DEF InOrder, AtHead
    <3>3. pid[ready_queue_tail] = next_pid - 1
      BY <1>1, <1>7, <3>2 DEF InOrder
    <3>4. QED  BY <1>1, <1>7, <3>1, <3>2, <3>3 DEF InOrder
  <2>2. QED  BY <2>1
<1>10. ran' = [i \in 1..Served' |-> i]
  BY <1>1, <1>2, <1>5 DEF InOrder
<1>11. \A a \in allocated' : pid'[a] < next_pid' /\ (a = current' \/ pid'[a] > Served')
  BY <1>1, <1>2, <1>4, <1>5, <1>8 DEF InOrder
<1>12. \A a, c \in allocated' : pid'[a] = pid'[c] => a = c
  BY <1>1, <1>2, <1>4 DEF InOrder
<1>13. ASSUME NEW a \in allocated'
       PROVE  IF next'[a] = NULL THEN pid'[a] = next_pid' - 1 ELSE pid'[next'[a]] = pid'[a] + 1
  <2>1. CASE a = b
    BY <1>2, <1>3, <1>4, <2>1
  <2>2. CASE a # b /\ a = ready_queue_tail
    <3>1. a \in allocated /\ next[a] = NULL /\ next'[a] = b
      BY <1>1, <1>2, <1>3, <1>7, <2>2
    <3>2. pid[a] = next_pid - 1
      BY <1>1, <3>1 DEF InOrder
    <3>3. QED  BY <1>1, <1>4, <3>1, <3>2
  <2>3. CASE a # b /\ a # ready_queue_tail
    <3>1. a \in allocated /\ next'[a] = next[a] /\ next[a] # NULL
      BY <1>2, <1>3, <1>9, <2>3
    <3>2. next[a] \in allocated /\ pid[next[a]] = pid[a] + 1
      BY <1>1, <3>1 DEF Chain, InOrder
    <3>3. QED  BY <1>4, <3>1, <3>2
  <2>4. QED  BY <2>1, <2>2, <2>3
<1>14. current' # NULL => pid'[current'] = Served'
  BY <1>1, <1>2, <1>4, <1>5 DEF InOrder, AtHead
<1>15. after' \in {"idle", "loop"} =>
         IF ready_queue_head' = NULL THEN Served' = next_pid' - 1 ELSE pid'[ready_queue_head'] = Served' + 1
  BY <1>1, <1>2, <1>4, <1>5, <1>6 DEF InOrder, AtHead
<1>16. QED  BY <1>10, <1>11, <1>12, <1>13, <1>14, <1>15 DEF InOrder

LEMMA ScheduleInOrder ==
  ASSUME Ordered, CallSchedule \/ Schedule
  PROVE  InOrder'
<1>1. TypeOK /\ Numbered /\ Chain /\ AtHead /\ InOrder /\ NULL \notin Blocks /\ NULL \notin allocated
  BY SchedulerAssumption DEF Ordered, Sound, TypeOK
<1>2. Served \in Nat /\ next_pid \in Nat /\ \A b \in allocated : pid[b] \in Nat
  BY <1>1 DEF Served, TypeOK, Numbered
<1>3. CASE CallSchedule
  BY <1>1, <1>3 DEF CallSchedule, queue, pcb, InOrder, Served
<1>4. CASE RunHead
  <2>1. /\ ready_queue_head \in allocated /\ current = NULL /\ after = "loop"
        /\ current' = ready_queue_head /\ after' = "running"
        /\ UNCHANGED <<ready_queue_head, next_pid, pid, next, allocated>>
    BY <1>1, <1>4 DEF RunHead, AtHead, queue
  <2>2. pid[ready_queue_head] = Served + 1
    BY <1>1, <2>1 DEF InOrder
  <2>3. ran' = Append(ran, Served + 1)
    BY <1>4, <2>2 DEF RunHead
  <2>4. Served' = Served + 1
    BY <1>1, <2>3 DEF Served, TypeOK
  <2>5. ran' = [i \in 1..Served' |-> i]
    <3>1. ran = [i \in 1..Served |-> i]
      BY <1>1 DEF InOrder
    <3> HIDE DEF Served
    <3>2. Append([i \in 1..Served |-> i], Served + 1) = [i \in 1..(Served + 1) |-> i]
      BY <1>2
    <3>3. QED  BY <2>3, <2>4, <3>1, <3>2
  <2> HIDE DEF Served
  <2>6. \A b \in allocated : b = ready_queue_head \/ pid[b] > Served + 1
    BY <1>1, <1>2, <2>1, <2>2 DEF InOrder
  <2>7. QED  BY <1>1, <2>1, <2>2, <2>4, <2>5, <2>6 DEF InOrder
<1>5. CASE Ends
  BY <1>1, <1>5 DEF Ends, queue, InOrder, Served
<1>6. CASE Unlink
  BY <1>1, <1>6 DEF Unlink, pcb, InOrder, Served
<1>7. CASE Free
  <2>1. /\ after = "free" /\ after' = "loop" /\ current \in allocated
        /\ current' = NULL /\ allocated' = allocated \ {current}
        /\ ready_queue_head = next[current]
        /\ UNCHANGED <<ready_queue_head, next_pid, pid, next, ran>>
    BY <1>1, <1>7 DEF Free, Freed, AtHead, queue, pcb
  <2>2. pid[current] = Served /\ Served' = Served /\ current # NULL
    BY <1>1, <2>1 DEF InOrder, Served
  <2> HIDE DEF Served
  <2>3. IF ready_queue_head = NULL THEN Served = next_pid - 1 ELSE pid[ready_queue_head] = Served + 1
    BY <1>1, <2>1, <2>2 DEF InOrder
  <2>4. QED  BY <1>1, <2>1, <2>2, <2>3 DEF InOrder
<1>8. CASE LoopEnds
  BY <1>1, <1>8 DEF LoopEnds, TailOfNone, pcb, InOrder, Served
<1>9. QED  BY <1>3, <1>4, <1>5, <1>6, <1>7, <1>8 DEF Schedule

LEMMA NextOrdered == Ordered /\ [Next]_vars => Ordered'
<1>1. Ordered /\ UNCHANGED vars => InOrder'
  BY DEF vars, Ordered, InOrder, Served
<1>2. Ordered /\ [Next]_vars => InOrder'
  BY <1>1, AddProcessInOrder, ScheduleInOrder DEF Next
<1>3. QED  BY <1>2, NextSound DEF Ordered

LEMMA OrderedAlways == Spec => []Ordered
<1>1. Init => Ordered
  BY InitSound, InitInOrder DEF Ordered
<1>2. QED  BY <1>1, NextOrdered, PTL DEF Spec

\* Processes run in the order in which they were added, each once and none left
\* out in between, also those that a process adds while it runs
\* (cpu_sched.c:28-36, 42-52).
THEOREM RunsInOrder == Spec => [](ran = [i \in 1..Len(ran) |-> i])
<1>1. Ordered => ran = [i \in 1..Len(ran) |-> i]
  BY DEF Ordered, InOrder, Served
<1>2. QED  BY <1>1, OrderedAlways, PTL

-----------------------------------------------------------------------------
(* What reading the list returns. *)

\* k numbers that follow c.
Following(c, k) == [i \in 1..k |-> c + i]

LEMMA FollowingNone == ASSUME NEW c PROVE Following(c, 0) = <<>>
  BY DEF Following

LEMMA FollowingHeadTail ==
  ASSUME NEW c \in Nat, NEW k \in Nat
  PROVE  /\ Append(Following(c, k), c + k + 1) = Following(c, k + 1)
         /\ <<c + 1>> \o Following(c + 1, k) = Following(c, k + 1)
         /\ Head(Following(c, k + 1)) = c + 1
         /\ Tail(Following(c, k + 1)) = Following(c + 1, k)
         /\ Following(c, k + 1) # <<>>
<1>1. /\ Following(c, k) \in Seq(Nat) /\ Following(c + 1, k) \in Seq(Nat)
      /\ Following(c, k + 1) \in Seq(Nat)
      /\ Len(Following(c, k)) = k /\ Len(Following(c + 1, k)) = k
      /\ Len(Following(c, k + 1)) = k + 1
  BY DEF Following
<1>2. Append(Following(c, k), c + k + 1) = Following(c, k + 1)
  BY <1>1 DEF Following
<1>3. <<c + 1>> \o Following(c + 1, k) = Following(c, k + 1)
  BY <1>1 DEF Following
<1>4. Tail(Following(c, k + 1)) = Following(c + 1, k)
  BY <1>1 DEF Following
<1>5. Head(Following(c, k + 1)) = c + 1 /\ Following(c, k + 1) # <<>>
  BY <1>1 DEF Following
<1>6. QED  BY <1>2, <1>3, <1>4, <1>5

\* Induction: the least number for which a statement fails.
LEMMA LeastCounterexample ==
  ASSUME NEW S, S \subseteq Nat, S # {}
  PROVE  \E i \in S : i = 0 \/ i - 1 \in Nat \ S
<1>1. PICK i \in S : \A j \in S : ~(<<j, i>> \in OpToRel(<, Nat))
  BY NatLessThanWellFounded, WFMin, Zenon
<1>2. \A j \in S : ~(j < i)
  BY <1>1 DEF OpToRel
<1>3. QED  BY <1>2

\* One round of walk in PidsOn, for all blocks at once.
Round(id, link, f, n) ==
  [a \in Blocks \cup {NULL} |-> IF a = NULL \/ n = 0 THEN <<>> ELSE <<id[a]>> \o f[n-1][link[a]]]

Walks(id, link, t, f) == f = [n \in 0..t |-> Round(id, link, f, n)]

\* The recursion of walk defines a function.
LEMMA WalkExists ==
  ASSUME NEW id, NEW link, NEW t \in Nat
  PROVE  \E f : Walks(id, link, t, f)
<1> DEFINE Bad == {m \in Nat : ~\E f : Walks(id, link, m, f)}
<1> SUFFICES ASSUME Bad # {} PROVE FALSE
  OBVIOUS
<1>1. PICK m \in Bad : m = 0 \/ m - 1 \in Nat \ Bad
  BY LeastCounterexample
<1>2. ASSUME NEW f, NEW g, NEW n \in Nat, n = 0 \/ f[n - 1] = g[n - 1]
      PROVE  Round(id, link, f, n) = Round(id, link, g, n)
  BY <1>2 DEF Round
<1>3. CASE m = 0
  <2> DEFINE f == [n \in 0..0 |-> Round(id, link, <<>>, n)]
  <2>1. \A n \in 0..0 : Round(id, link, f, n) = Round(id, link, <<>>, n)
    <3> HIDE DEF f
    <3>1. QED  BY <1>2
  <2>2. Walks(id, link, 0, f)
    <3>1. f = [n \in 0..0 |-> Round(id, link, <<>>, n)]
      OBVIOUS
    <3> HIDE DEF f
    <3>2. QED  BY <2>1, <3>1, Zenon DEF Walks
  <2>3. QED  BY <1>3, <2>2
<1>4. CASE m # 0
  <2>1. PICK f : Walks(id, link, m - 1, f)
    BY <1>1, <1>4
  <2> DEFINE g == [n \in 0..m |-> Round(id, link, f, n)]
  <2>2. \A n \in 0..m : g[n] = Round(id, link, f, n)
    OBVIOUS
  <2>3. f = [n \in 0..(m - 1) |-> Round(id, link, f, n)]
    BY <2>1, Zenon DEF Walks
  <2>4. \A n \in 0..(m - 1) : f[n] = Round(id, link, f, n)
    BY <2>3, Zenon
  <2>5. g = [n \in 0..m |-> Round(id, link, f, n)]
    OBVIOUS
  <2> HIDE DEF g
  <2>6. \A n \in 0..m : Round(id, link, f, n) = Round(id, link, g, n)
    <3>1. ASSUME NEW n \in 0..m PROVE n = 0 \/ f[n - 1] = g[n - 1]
      BY <2>2, <2>4
    <3>2. QED  BY <1>2, <3>1
  <2>7. Walks(id, link, m, g)
    BY <2>5, <2>6, Zenon DEF Walks
  <2>8. QED  BY <2>7
<1>5. QED  BY <1>3, <1>4

\* A list whose blocks are numbered one after the other up to last.
NumberedList(id, link, A, last) ==
  /\ A \subseteq Blocks /\ last \in Nat
  /\ \A a \in A : id[a] \in 1..last
  /\ \A a \in A : IF link[a] = NULL THEN id[a] = last ELSE link[a] \in A /\ id[link[a]] = id[a] + 1

\* Read far enough, it returns the numbers from the first block's on.
LEMMA WalkReads ==
  ASSUME NEW id, NEW link, NEW A, NEW last, NEW t \in Nat, NEW f,
         NumberedList(id, link, A, last), Walks(id, link, t, f)
  PROVE  /\ f[t][NULL] = <<>>
         /\ \A a \in A : last - id[a] + 1 <= t => f[t][a] = Following(id[a] - 1, last - id[a] + 1)
<1>1. f = [n \in 0..t |-> Round(id, link, f, n)]
  BY Zenon DEF Walks
<1>2. \A n \in 0..t : f[n] = Round(id, link, f, n)
  BY <1>1, Zenon
<1>3. ASSUME NEW n \in 0..t PROVE f[n][NULL] = <<>>
  BY <1>2 DEF Round
<1> DEFINE Reads(n) == \A a \in A : last - id[a] + 1 <= n => f[n][a] = Following(id[a] - 1, last - id[a] + 1)
           Bad == {n \in 0..t : ~Reads(n)}
<1>4. Bad = {}
  <2> SUFFICES ASSUME Bad # {} PROVE FALSE
    OBVIOUS
  <2>1. PICK n \in Bad : n = 0 \/ n - 1 \in Nat \ Bad
    <3>1. Bad \subseteq Nat
      OBVIOUS
    <3> HIDE DEF Bad
    <3>2. QED  BY <3>1, LeastCounterexample
  <2>2. n \in 0..t /\ n \in Nat /\ (n = 0 \/ (n - 1 \in 0..t /\ Reads(n - 1)))
    BY <2>1
  <2>3. PICK a \in A : last - id[a] + 1 <= n /\ f[n][a] # Following(id[a] - 1, last - id[a] + 1)
    BY <2>1
  <2>4. /\ a \in Blocks /\ id[a] \in 1..last /\ last \in Nat /\ a # NULL
        /\ IF link[a] = NULL THEN id[a] = last ELSE link[a] \in A /\ id[link[a]] = id[a] + 1
    BY SchedulerAssumption DEF NumberedList
  <2>5. n # 0
    BY <2>2, <2>3, <2>4
  <2>6. f[n][a] = <<id[a]>> \o f[n - 1][link[a]]
    BY <1>2, <2>2, <2>4, <2>5 DEF Round
  <2>7. CASE link[a] = NULL
    <3>1. f[n - 1][link[a]] = Following(id[a], 0)
      BY <1>3, <2>2, <2>4, <2>5, <2>7, FollowingNone
    <3>2. <<id[a]>> \o Following(id[a], 0) = Following(id[a] - 1, 1)
      BY <2>4 DEF Following
    <3>3. last - id[a] + 1 = 1
      BY <2>4, <2>7
    <3>4. QED  BY <2>3, <2>6, <3>1, <3>2, <3>3
  <2>8. CASE link[a] # NULL
    <3> DEFINE k == last - id[a]
    <3>1. link[a] \in A /\ id[link[a]] = id[a] + 1 /\ k \in Nat /\ last - id[link[a]] + 1 = k /\ k <= n - 1
      BY <2>2, <2>3, <2>4, <2>8
    <3>2. f[n - 1][link[a]] = Following(id[a], k)
      <4>1. id[link[a]] - 1 = id[a]
        BY <2>4, <3>1
      <4>2. f[n - 1][link[a]] = Following(id[link[a]] - 1, last - id[link[a]] + 1)
        BY <2>2, <2>5, <3>1
      <4>3. QED  BY <3>1, <4>1, <4>2
    <3>3. <<id[a]>> \o Following(id[a], k) = Following(id[a] - 1, k + 1)
      <4> DEFINE c == id[a] - 1
      <4>1. c \in Nat /\ c + 1 = id[a]
        BY <2>4
      <4> HIDE DEF c, k
      <4>2. <<c + 1>> \o Following(c + 1, k) = Following(c, k + 1)
        BY <3>1, <4>1, FollowingHeadTail
      <4>3. QED  BY <4>1, <4>2 DEF c
    <3>4. QED  BY <2>3, <2>6, <3>2, <3>3
  <2>9. QED  BY <2>7, <2>8
<1>5. t \in 0..t
  OBVIOUS
<1>6. Reads(t)
  BY <1>4, <1>5
<1>7. QED  BY <1>3, <1>5, <1>6

LEMMA PidsOnReads ==
  ASSUME NEW id, NEW link, NEW A, NEW last, NumberedList(id, link, A, last), last <= MaxPid
  PROVE  /\ PidsOn(id, link, NULL) = <<>>
         /\ \A a \in A : PidsOn(id, link, a) = Following(id[a] - 1, last - id[a] + 1)
<1> DEFINE walk == CHOOSE f : Walks(id, link, MaxPid, f)
<1>1. Walks(id, link, MaxPid, walk)
  <2>1. \E f : Walks(id, link, MaxPid, f)
    BY SchedulerAssumption, WalkExists
  <2>2. QED  BY <2>1, Zenon
<1>2. \A b : PidsOn(id, link, b) = walk[MaxPid][b]
  BY DEF PidsOn, Walks, Round
<1> HIDE DEF walk
<1>3. /\ walk[MaxPid][NULL] = <<>>
      /\ \A a \in A : last - id[a] + 1 <= MaxPid => walk[MaxPid][a] = Following(id[a] - 1, last - id[a] + 1)
  BY <1>1, SchedulerAssumption, WalkReads
<1>4. \A a \in A : last - id[a] + 1 <= MaxPid
  BY SchedulerAssumption DEF NumberedList
<1>5. QED  BY <1>2, <1>3, <1>4

\* What waits is what was added and not run.
WaitsInOrder == Waiting = Following(Served, next_pid - 1 - Served)

LEMMA OrderedWaits == Ordered => WaitsInOrder
<1> SUFFICES ASSUME Ordered PROVE WaitsInOrder
  OBVIOUS
<1> DEFINE last == next_pid - 1
           first == IF after \in {"running", "unlink"} THEN next[current] ELSE ready_queue_head
<1>1. TypeOK /\ Numbered /\ Chain /\ AtHead /\ InOrder /\ NULL \notin Blocks /\ NULL \notin allocated
  BY SchedulerAssumption DEF Ordered, Sound, TypeOK
<1>2. last \in Nat /\ last <= MaxPid /\ Served \in Nat /\ MaxPid \in Nat
  BY <1>1, SchedulerAssumption DEF Served, TypeOK
<1> HIDE DEF Served
<1>3. NumberedList(pid, next, allocated, last)
  <2>1. allocated \subseteq Blocks /\ last \in Nat
    BY <1>1, <1>2 DEF TypeOK
  <2>2. \A a \in allocated : pid[a] \in 1..last
    BY <1>1, <1>2 DEF TypeOK, Numbered, InOrder
  <2>3. \A a \in allocated : IF next[a] = NULL THEN pid[a] = last
                             ELSE next[a] \in allocated /\ pid[next[a]] = pid[a] + 1
    BY <1>1 DEF Chain, InOrder
  <2>4. QED  BY <2>1, <2>2, <2>3 DEF NumberedList
<1>4. IF first = NULL THEN Served = last ELSE first \in allocated /\ pid[first] = Served + 1
  <2>1. CASE after \in {"idle", "loop"}
    BY <1>1, <2>1 DEF InOrder, AtHead
  <2>2. CASE after \in {"running", "unlink", "free"}
    <3>1. current \in allocated /\ pid[current] = Served /\ first = next[current]
      BY <1>1, <2>2 DEF InOrder, AtHead
    <3>2. QED  BY <1>1, <3>1 DEF InOrder, Chain
  <2>3. QED  BY <1>1, <2>1, <2>2 DEF TypeOK
<1>5. Waiting = PidsOn(pid, next, first)
  BY DEF Waiting
<1> HIDE DEF last, first
<1>6. /\ PidsOn(pid, next, NULL) = <<>>
      /\ \A a \in allocated : PidsOn(pid, next, a) = Following(pid[a] - 1, last - pid[a] + 1)
  BY <1>2, <1>3, PidsOnReads
<1>7. CASE first = NULL
  <2>1. last - Served = 0 /\ Following(Served, 0) = <<>>
    BY <1>2, <1>4, <1>7, FollowingNone
  <2>2. QED  BY <1>5, <1>6, <1>7, <2>1 DEF WaitsInOrder, last
<1>8. CASE first # NULL
  <2>1. pid[first] - 1 = Served /\ last - pid[first] + 1 = last - Served
    BY <1>2, <1>4, <1>8
  <2>2. Waiting = Following(Served, last - Served)
    BY <1>4, <1>5, <1>6, <1>8, <2>1
  <2>3. QED  BY <2>2 DEF WaitsInOrder, last
<1>9. QED  BY <1>7, <1>8

LEMMA StepRefines ==
  Ordered /\ WaitsInOrder /\ WaitsInOrder' /\ [Next]_vars => [Queue!Next]_<<next_pid - 1, Waiting, Running>>
<1> SUFFICES ASSUME Ordered, WaitsInOrder, WaitsInOrder', [Next]_vars
             PROVE  Queue!Next \/ UNCHANGED <<next_pid - 1, Waiting, Running>>
  OBVIOUS
<1> DEFINE k == next_pid - 1 - Served
<1>1. TypeOK /\ Numbered /\ AtHead /\ InOrder /\ NULL \notin Blocks /\ NULL \notin allocated
  BY SchedulerAssumption DEF Ordered, Sound, TypeOK
<1>2. Served \in Nat /\ next_pid \in Nat /\ k \in Int
  BY <1>1 DEF Served, TypeOK
<1>3. UNCHANGED <<next_pid, ran>> => Waiting' = Waiting
  BY DEF WaitsInOrder, Served
<1>4. ASSUME NEW b \in Blocks, AddProcess(b) PROVE Queue!Add
  <2>1. next_pid' = next_pid + 1 /\ Served' = Served /\ k \in Nat
    <3>1. next_pid' = next_pid + 1 /\ Served' = Served /\ after \in {"idle", "running"}
      BY <1>4 DEF AddProcess, Served
    <3> HIDE DEF Served
    <3>2. \A a \in allocated : pid[a] < next_pid /\ pid[a] \in Nat
      BY <1>1 DEF InOrder, Numbered
    <3>3. Served <= next_pid - 1
      BY <1>1, <1>2, <3>1, <3>2 DEF InOrder, AtHead
    <3>4. QED  BY <1>2, <3>1, <3>3
  <2> HIDE DEF Served
  <2>2. Waiting = Following(Served, k)
    BY DEF WaitsInOrder
  <2>3. Waiting' = Following(Served, k + 1)
    <3>1. next_pid' - 1 - Served' = k + 1
      BY <1>2, <2>1
    <3> HIDE DEF k
    <3>2. QED  BY <2>1, <3>1 DEF WaitsInOrder
  <2>4. Served + k + 1 = next_pid' - 1
    BY <1>2, <2>1
  <2> HIDE DEF k
  <2>5. Waiting' = Append(Waiting, next_pid' - 1)
    <3>1. Append(Following(Served, k), Served + k + 1) = Following(Served, k + 1)
      BY <1>2, <2>1, FollowingHeadTail
    <3>2. QED  BY <2>2, <2>3, <2>4, <3>1
  <2>6. UNCHANGED Running
    BY <1>1, <1>4 DEF AddProcess, Running, AtHead, TypeOK
  <2>7. next_pid' - 1 = (next_pid - 1) + 1
    BY <1>2, <2>1
  <2>8. QED  BY <2>5, <2>6, <2>7 DEF Queue!Add
<1>5. CASE RunHead
  <2>1. /\ ready_queue_head \in allocated /\ after = "loop" /\ after' = "running"
        /\ current' = ready_queue_head /\ UNCHANGED <<next_pid, pid>>
        /\ ran' = Append(ran, pid[ready_queue_head])
    BY <1>1, <1>5 DEF RunHead, AtHead
  <2>2. Served' = Served + 1
    BY <1>1, <2>1 DEF Served, TypeOK
  <2> HIDE DEF Served
  <2>3. pid[ready_queue_head] = Served + 1 /\ pid[ready_queue_head] < next_pid
    BY <1>1, <2>1 DEF InOrder
  <2> DEFINE rest == k - 1
  <2>4. rest \in Nat /\ k = rest + 1 /\ next_pid' - 1 - Served' = rest
    BY <1>2, <2>1, <2>2, <2>3
  <2>5. Waiting = Following(Served, rest + 1)
    BY <2>4 DEF WaitsInOrder
  <2> HIDE DEF k, rest
  <2>6. Waiting' = Following(Served + 1, rest)
    BY <2>2, <2>4 DEF WaitsInOrder
  <2>7. Head(Waiting) = Served + 1 /\ Tail(Waiting) = Waiting' /\ Waiting # <<>>
    BY <1>2, <2>4, <2>5, <2>6, FollowingHeadTail
  <2>8. Running = <<>> /\ Running' = <<Served + 1>>
    BY <2>1, <2>3 DEF Running
  <2>9. QED  BY <2>1, <2>7, <2>8 DEF Queue!Next, Queue!Run
<1>6. CASE Ends
  <2>1. Running # <<>> /\ Running' = <<>> /\ UNCHANGED <<next_pid, ran>>
    BY <1>6 DEF Ends, Running
  <2>2. QED  BY <1>3, <2>1 DEF Queue!Next, Queue!Exit
<1>7. CASE CallSchedule \/ Unlink \/ Free \/ LoopEnds
  <2>1. UNCHANGED <<next_pid, ran, Running>>
    BY <1>7 DEF CallSchedule, Unlink, Free, LoopEnds, Running, pcb
  <2>2. QED  BY <1>3, <2>1
<1>8. CASE UNCHANGED vars
  <2>1. UNCHANGED <<next_pid, ran, Running>>
    BY <1>8 DEF vars, Running
  <2>2. QED  BY <1>3, <2>1
<1>9. QED  BY <1>4, <1>5, <1>6, <1>7, <1>8 DEF Next, Schedule, Queue!Next

\* The linked list behaves as the queue of ReadyQueue: every step of add_process
\* and schedule() is a step of that queue or changes nothing of it
\* (cpu_sched.c:19-54).
THEOREM ListImplementsQueue == Spec => ImplementsReadyQueue
<1>1. Init => Queue!Init
  <2> SUFFICES ASSUME Init PROVE Queue!Init
    OBVIOUS
  <2>1. WaitsInOrder
    BY InitSound, InitInOrder, OrderedWaits DEF Ordered
  <2>2. Served = 0 /\ next_pid = 1 /\ Running = <<>>
    BY DEF Init, Served, Running
  <2> HIDE DEF Served
  <2>3. Waiting = <<>>
    <3>1. Waiting = Following(0, 1 - 1 - 0)
      BY <2>1, <2>2 DEF WaitsInOrder
    <3>2. QED  BY <3>1, FollowingNone
  <2>4. QED  BY <2>2, <2>3 DEF Queue!Init
<1>2. QED
  BY <1>1, OrderedAlways, OrderedWaits, StepRefines, PTL DEF Spec, ImplementsReadyQueue, Queue!Spec
=============================================================================
