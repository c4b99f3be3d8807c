----------------------------- MODULE ReadyQueue -----------------------------
(***************************************************************************)
(* What core/cpu_sched.c promises: processes are numbered as they are      *)
(* added and run one at a time, each once, to its end, first come first    *)
(* served.  A process may add others while it runs.                        *)
(***************************************************************************)
EXTENDS Integers, Sequences

VARIABLES
  added,       \* processes added so far
  waiting,     \* pids not yet run, first come first
  running      \* the pid that runs, as a sequence of at most one

Init == added = 0 /\ waiting = <<>> /\ running = <<>>

Add ==
  /\ added' = added + 1
  /\ waiting' = Append(waiting, added')
  /\ UNCHANGED running

Run ==
  /\ running = <<>> /\ waiting # <<>>
  /\ running' = <<Head(waiting)>>
  /\ waiting' = Tail(waiting)
  /\ UNCHANGED added

Exit == running # <<>> /\ running' = <<>> /\ UNCHANGED <<added, waiting>>

Next == Add \/ Run \/ Exit

Spec == Init /\ [][Next]_<<added, waiting, running>>
=============================================================================
