------------------------------ MODULE Executor ------------------------------
(***************************************************************************)
(* What the scheduler promises the program (README.md, "Executors"): a     *)
(* function given to it is run once, by a thread that is inside one of the *)
(* entry points and is running nothing else, and never from within post or *)
(* defer; no function is started while the scheduler is stopped.  Only     *)
(* dispatch may run its function inside the function that calls it.        *)
(***************************************************************************)
CONSTANTS Threads, Ops, NoOp

VARIABLES status,   \* of each operation
          runner,   \* the operation each thread is running, or NoOp
          halted    \* stopped and not restarted

vars == <<status, runner, halted>>

Init ==
  /\ status = [o \in Ops |-> "new"]
  /\ runner = [t \in Threads |-> NoOp]
  /\ halted = FALSE

Submit(o) ==
  /\ status[o] = "new"
  /\ status' = [status EXCEPT ![o] = "waiting"]
  /\ UNCHANGED <<runner, halted>>

RunInline(t, o) ==
  /\ runner[t] # NoOp
  /\ status[o] = "new"
  /\ status' = [status EXCEPT ![o] = "done"]
  /\ UNCHANGED <<runner, halted>>

Start(t, o) ==
  /\ ~halted
  /\ runner[t] = NoOp
  /\ status[o] = "waiting"
  /\ status' = [status EXCEPT ![o] = "running"]
  /\ runner' = [runner EXCEPT ![t] = o]
  /\ UNCHANGED halted

Finish(t) ==
  /\ runner[t] # NoOp
  /\ status' = [status EXCEPT ![runner[t]] = "done"]
  /\ runner' = [runner EXCEPT ![t] = NoOp]
  /\ UNCHANGED halted

Halt    == halted' = TRUE /\ UNCHANGED <<status, runner>>
Restart == halted' = FALSE /\ UNCHANGED <<status, runner>>

Next ==
  \/ \E o \in Ops : Submit(o)
  \/ \E t \in Threads : Finish(t) \/ \E o \in Ops : RunInline(t, o) \/ Start(t, o)
  \/ Halt \/ Restart

Spec == Init /\ [][Next]_vars
=============================================================================
