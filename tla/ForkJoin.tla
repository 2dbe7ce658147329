------------------------------ MODULE ForkJoin ------------------------------
(***************************************************************************)
(* What copost, codispatch and codefer promise (bits/coinvoker.h): several *)
(* heads run independently, and the tail is called once, with the value of *)
(* every head, when the last of them has ended; if one of them ends        *)
(* without a value, the tail is dropped instead, and not before.           *)
(***************************************************************************)
EXTENDS Integers

CONSTANT MaxHeads

VARIABLES ended,  \* per head: "no", "value" or "dropped"
          join    \* the tail: "waiting", "called" or "dropped"

vars == <<ended, join>>

Init ==
  /\ \E n \in 0 .. MaxHeads : ended = [h \in 1 .. n |-> "no"]
  /\ join = "waiting"

End(h) ==
  /\ join = "waiting" /\ ended[h] = "no"
  /\ \E how \in {"value", "dropped"} : ended' = [ended EXCEPT ![h] = how]
  /\ LET last  == \A g \in DOMAIN ended : ended'[g] # "no"
         whole == \A g \in DOMAIN ended : ended'[g] = "value"
     IN join' = IF ~last THEN "waiting" ELSE IF whole THEN "called" ELSE "dropped"

\* With no heads there is nothing to wait for; and the launch itself can fail
\* before any head has been handed to an executor.
EndAtOnce ==
  /\ join = "waiting" /\ \A h \in DOMAIN ended : ended[h] = "no"
  /\ \/ DOMAIN ended = {} /\ join' = "called"
     \/ join' = "dropped"
  /\ ended' = [h \in DOMAIN ended |-> "dropped"]

Next == EndAtOnce \/ \E h \in DOMAIN ended : End(h)
=============================================================================
