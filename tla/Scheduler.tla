----------------------------- MODULE Scheduler -----------------------------
(***************************************************************************)
(* core/cpu_sched.c: process control blocks in a singly linked list in the *)
(* heap.  schedule() runs the head to its end, then unlinks and frees it;  *)
(* while it runs it is still the head, and add_process links new blocks    *)
(* behind it.                                                              *)
(*                                                                         *)
(* A block freed by schedule() may be handed out again by the next malloc. *)
(***************************************************************************)
EXTENDS Integers, Sequences

CONSTANTS
  Blocks,       \* addresses malloc may return
  NULL,
  MaxPid        \* bound: processes ever added

ASSUME SchedulerAssumption == NULL \notin Blocks /\ MaxPid \in Nat

VARIABLES
  ready_queue_head, ready_queue_tail, next_pid,
  pid, state, next,     \* the fields of every block
  allocated,            \* blocks malloc has handed out
  current, after,       \* schedule()'s local, and where it is
  ran                   \* pids in the order in which they were run (history)

pcb == <<pid, state, next>>
queue == <<ready_queue_head, ready_queue_tail>>
vars == <<ready_queue_head, ready_queue_tail, next_pid, pid, state, next,
          allocated, current, after, ran>>

\* schedule() is "idle" (not called), in its "loop" test, "running" the entry
\* point, or about to "unlink" or "free" the block that ended.
Init ==
  /\ ready_queue_head = NULL /\ ready_queue_tail = NULL /\ next_pid = 1
  /\ pid = [b \in Blocks |-> 0]
  /\ state = [b \in Blocks |-> "READY"]
  /\ next = [b \in Blocks |-> NULL]
  /\ allocated = {}
  /\ current = NULL /\ after = "idle"
  /\ ran = <<>>

-----------------------------------------------------------------------------
(* add_process: main calls it between runs, a process while it runs.  When the
   heap is full it changes nothing. *)

NewPid == next_pid

\* Fault: the old tail is not linked to the new block.
LinkedNowhere(b) == next' = [next EXCEPT ![b] = NULL]

\* The new block ends the list; the old tail, if any, leads to it.
LinkedBehind(b) ==
  next' = [a \in Blocks |-> IF a = b THEN NULL
                            ELSE IF a = ready_queue_tail THEN b ELSE next[a]]

AddProcess(b) ==
  /\ after \in {"idle", "running"}
  /\ next_pid <= MaxPid
  /\ b \in Blocks \ allocated
  /\ allocated' = allocated \cup {b}
  /\ pid' = [pid EXCEPT ![b] = NewPid]
  /\ next_pid' = next_pid + 1
  /\ state' = [state EXCEPT ![b] = "READY"]
  /\ LinkedBehind(b)
  /\ ready_queue_head' = IF ready_queue_tail = NULL THEN b ELSE ready_queue_head
  /\ ready_queue_tail' = b
  /\ UNCHANGED <<current, after, ran>>

-----------------------------------------------------------------------------
(* schedule *)

CallSchedule ==
  /\ after = "idle"
  /\ after' = "loop"
  /\ UNCHANGED <<queue, next_pid, pcb, allocated, current, ran>>

RunHead ==
  /\ after = "loop" /\ ready_queue_head # NULL
  /\ current' = ready_queue_head
  /\ state' = [state EXCEPT ![ready_queue_head] = "RUNNING"]
  /\ ran' = Append(ran, pid[ready_queue_head])
  /\ after' = "running"
  /\ UNCHANGED <<queue, next_pid, pid, next, allocated>>

\* entry_point returns.
Ends ==
  /\ after = "running"
  /\ state' = [state EXCEPT ![current] = "TERMINATED"]
  /\ after' = "unlink"
  /\ UNCHANGED <<queue, next_pid, pid, next, allocated, current, ran>>

Unlink ==
  /\ after = "unlink"
  /\ ready_queue_head' = next[current]
  /\ after' = "free"
  /\ UNCHANGED <<ready_queue_tail, next_pid, pcb, allocated, current, ran>>

Freed == allocated \ {current}

Free ==
  /\ after = "free"
  /\ allocated' = Freed
  /\ current' = NULL
  /\ after' = "loop"
  /\ UNCHANGED <<queue, next_pid, pcb, ran>>

\* Fault: the tail keeps the address of the last block that was freed.
TailKept == ready_queue_tail

TailOfNone == NULL

LoopEnds ==
  /\ after = "loop" /\ ready_queue_head = NULL
  /\ ready_queue_tail' = TailOfNone
  /\ after' = "idle"
  /\ UNCHANGED <<ready_queue_head, next_pid, pcb, allocated, current, ran>>

Schedule == RunHead \/ Ends \/ Unlink \/ Free \/ LoopEnds

Next ==
  \/ \E b \in Blocks : AddProcess(b)
  \/ CallSchedule
  \/ Schedule

\* Processes end, and whoever fills the queue calls schedule() in the end.
Spec == Init /\ [][Next]_vars /\ WF_vars(Schedule) /\ WF_vars(CallSchedule)

-----------------------------------------------------------------------------
(* Properties *)

TypeOK ==
  /\ ready_queue_head \in Blocks \cup {NULL} /\ ready_queue_tail \in Blocks \cup {NULL}
  /\ next_pid \in 1..MaxPid+1
  /\ pid \in [Blocks -> 0..MaxPid]
  /\ state \in [Blocks -> {"READY", "RUNNING", "TERMINATED"}]
  /\ next \in [Blocks -> Blocks \cup {NULL}]
  /\ allocated \subseteq Blocks /\ current \in Blocks \cup {NULL}
  /\ after \in {"idle", "loop", "running", "unlink", "free"}
  /\ ran \in Seq(1..MaxPid)

\* The pids on the list that begins at b, read in at most MaxPid steps.
PidsOn(id, link, b) ==
  LET walk[n \in 0..MaxPid] ==
        [a \in Blocks \cup {NULL} |-> IF a = NULL \/ n = 0 THEN <<>> ELSE <<id[a]>> \o walk[n-1][link[a]]]
  IN  walk[MaxPid][b]

\* The processes that wait: the list, without the block that runs or has run.
Waiting == PidsOn(pid, next, IF after \in {"running", "unlink"} THEN next[current] ELSE ready_queue_head)

Running == IF after = "running" THEN <<pid[current]>> ELSE <<>>

\* Every block that can be reached is one malloc handed out, and whenever
\* add_process may run, the tail is the last block of the list: what it writes
\* through the tail is never a freed block (cpu_sched.c:30-36, 50-53).
NoDanglingBlock ==
  /\ TypeOK
  /\ \A b \in Blocks : b \in allocated /\ b # current => next[b] \in allocated \cup {NULL}
  /\ ready_queue_head \in allocated \cup {NULL}
  /\ after \in {"idle", "running"} =>
       /\ ready_queue_tail \in allocated \cup {NULL}
       /\ ready_queue_tail = NULL <=> ready_queue_head = NULL

\* A process added is run, also one that is added while the last one runs.
EveryProcessRuns ==
  \A p \in 1..MaxPid : next_pid > p ~> \E i \in DOMAIN ran : ran[i] = p

Queue == INSTANCE ReadyQueue WITH
  added <- next_pid - 1, waiting <- Waiting, running <- Running

\* The linked list behaves as the queue of ReadyQueue: what was added and not
\* run yet waits in the order of its numbers, and the first of it runs next
\* (cpu_sched.c:19-54).
ImplementsReadyQueue == Queue!Spec
=============================================================================
