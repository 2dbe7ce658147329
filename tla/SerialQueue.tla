---------------------------- MODULE SerialQueue ----------------------------
(***************************************************************************)
(* What a strand promises (README.md: "Not concurrent with any other       *)
(* function object sharing the strand, and in FIFO order"): functions are  *)
(* accepted into one queue per strand and begun from its head, one at a    *)
(* time, by whichever thread; only the thread that is running a function   *)
(* of the strand may run further ones out of turn, inside that function.   *)
(***************************************************************************)
EXTENDS Sequences

CONSTANTS Strands, Threads, Ops, Idle

VARIABLES fifo,    \* accepted functions not begun, per strand
          active,  \* the thread running functions of the strand, or Idle
          fresh    \* functions not yet given to any strand

vars == <<fifo, active, fresh>>

Init ==
  /\ fifo = [s \in Strands |-> << >>]
  /\ active = [s \in Strands |-> Idle]
  /\ fresh = Ops

Accept(s, o) ==
  /\ o \in fresh
  /\ fresh' = fresh \ {o}
  /\ fifo' = [fifo EXCEPT ![s] = Append(@, o)]
  /\ UNCHANGED active

Begin(s, t) ==
  /\ active[s] = Idle
  /\ fifo[s] # << >>
  /\ fifo' = [fifo EXCEPT ![s] = Tail(@)]
  /\ active' = [active EXCEPT ![s] = t]
  /\ UNCHANGED fresh

RunInside(s, o) ==
  /\ active[s] # Idle
  /\ o \in fresh
  /\ fresh' = fresh \ {o}
  /\ UNCHANGED <<fifo, active>>

End(s) ==
  /\ active[s] # Idle
  /\ active' = [active EXCEPT ![s] = Idle]
  /\ UNCHANGED <<fifo, fresh>>

Next ==
  \E s \in Strands :
    \/ \E o \in Ops : Accept(s, o) \/ RunInside(s, o)
    \/ \E t \in Threads : Begin(s, t)
    \/ End(s)

Spec == Init /\ [][Next]_vars
=============================================================================
