---------------------------- MODULE PendingWaits ----------------------------
(***************************************************************************)
(* What timers promise.  A timer has an expiry and the waits begun on it.  *)
(* How a wait ends is decided once: with success when its timer has        *)
(* expired, with canceled when the timer is canceled, given another expiry *)
(* or destroyed before that.  Waits are told in the order in which they    *)
(* were decided; expired together, the earlier expiry is told first.  The  *)
(* end of the execution context abandons those that have not been told.    *)
(***************************************************************************)
EXTENDS Integers, Sequences, SequencesExt

CONSTANTS Timers, Waits, MaxTime, Null

VARIABLES now,      \* the clock
          timer,    \* per timer: Null, or its expiry and its waits
          decided,  \* waits and how they end, not yet told
          outcome,  \* of each wait
          up        \* the execution context is

vars == <<now, timer, decided, outcome, up>>

Never == MaxTime + 1

Init ==
  /\ now = 0
  /\ timer = [t \in Timers |-> Null]
  /\ decided = << >>
  /\ outcome = [w \in Waits |-> "unused"]
  /\ up = TRUE

Live(t) == timer[t] # Null
Ended(ws, code) == [i \in DOMAIN ws |-> [wait |-> ws[i], code |-> code]]
Decide(ws, code) == decided' = decided \o Ended(ws, code)
WaitsOf(t) == IF Live(t) THEN timer[t].waits ELSE << >>

Construct(t) ==
  /\ up /\ ~Live(t)
  /\ \E e \in 0..Never : timer' = [timer EXCEPT ![t] = [expiry |-> e, waits |-> << >>]]
  /\ UNCHANGED <<now, decided, outcome, up>>

Wait(t, w) ==
  /\ up /\ Live(t) /\ outcome[w] = "unused"
  /\ timer' = [timer EXCEPT ![t].waits = Append(@, w)]
  /\ outcome' = [outcome EXCEPT ![w] = "waiting"]
  /\ UNCHANGED <<now, decided, up>>

\* Cancels all waits; the timer may also get a new expiry.
Cancel(t) ==
  /\ up /\ Live(t)
  /\ Decide(WaitsOf(t), "canceled")
  /\ \E e \in 0..Never : timer' = [timer EXCEPT ![t] = [expiry |-> e, waits |-> << >>]]
  /\ UNCHANGED <<now, outcome, up>>

CancelOne(t) ==
  /\ up /\ Live(t) /\ WaitsOf(t) # << >>
  /\ Decide(<<Head(WaitsOf(t))>>, "canceled")
  /\ timer' = [timer EXCEPT ![t].waits = Tail(@)]
  /\ UNCHANGED <<now, outcome, up>>

Move(t, s) ==
  /\ up /\ Live(s) /\ s # t
  /\ Decide(WaitsOf(t), "canceled")
  /\ timer' = [timer EXCEPT ![t] = timer[s], ![s] = [expiry |-> Never, waits |-> << >>]]
  /\ UNCHANGED <<now, outcome, up>>

Destroy(t) ==
  /\ Live(t)
  /\ Decide(WaitsOf(t), "canceled")
  /\ timer' = [timer EXCEPT ![t] = Null]
  /\ UNCHANGED <<now, outcome, up>>

Expired == {t \in Timers : WaitsOf(t) # << >> /\ timer[t].expiry <= now}

Earliest(s) == \A i, j \in DOMAIN s : i < j => timer[s[i]].expiry <= timer[s[j]].expiry

Expire ==
  /\ Expired # {}
  /\ \E s \in SetToSeqs(Expired) :
       Earliest(s) /\ Decide(FlattenSeq([i \in DOMAIN s |-> WaitsOf(s[i])]), "success")
  /\ timer' = [t \in Timers |-> IF t \in Expired THEN [timer[t] EXCEPT !.waits = << >>]
                                ELSE timer[t]]
  /\ UNCHANGED <<now, outcome, up>>

Tell ==
  /\ decided # << >>
  /\ outcome' = [outcome EXCEPT ![Head(decided).wait] = Head(decided).code]
  /\ decided' = Tail(decided)
  /\ UNCHANGED <<now, timer, up>>

\* The wait that is being told when the context ends still is.
Abandon ==
  /\ up /\ up' = FALSE
  /\ \E n \in {0, 1} : n <= Len(decided) /\ decided' = SubSeq(decided, 1, n)
  /\ timer' = [t \in Timers |-> IF Live(t) THEN [timer[t] EXCEPT !.waits = << >>] ELSE Null]
  /\ outcome' = [w \in Waits |->
                   IF outcome[w] = "waiting" /\ \A i \in DOMAIN decided' : decided'[i].wait # w
                   THEN "destroyed" ELSE outcome[w]]
  /\ UNCHANGED now

Tick ==
  /\ now < MaxTime /\ now' = now + 1
  /\ UNCHANGED <<timer, decided, outcome, up>>

Next ==
  \/ \E t \in Timers :
       \/ Construct(t) \/ Cancel(t) \/ CancelOne(t) \/ Destroy(t)
       \/ \E w \in Waits : Wait(t, w)
       \/ \E s \in Timers : Move(t, s)
  \/ Expire \/ Tell \/ Abandon \/ Tick
=============================================================================
