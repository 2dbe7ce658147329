---------------------------- MODULE BoundedQueue ----------------------------
(***************************************************************************)
(* What a channel promises: a FIFO of values.  A put succeeds at once if a *)
(* get waits for it or if fewer than capacity values are there; otherwise  *)
(* it waits (README.md: "it will wait until printer is ready to get it"),  *)
(* its value being next in line all the same, and succeeds when values     *)
(* before it have been taken.  A get takes the first value or waits for    *)
(* one.  A closed queue refuses puts and, once it is empty, gets.          *)
(***************************************************************************)
EXTENDS Integers, Sequences, Functions

CONSTANTS Chans, Puts, Gets, Capacities, NoValue, NoQueue

VARIABLES queue,    \* per channel: NoQueue, or its contents and waiting gets
          outcome,  \* of each put and get
          got       \* the value each get was completed with

vars == <<queue, outcome, got>>

Calls == Puts \cup Gets

Init ==
  /\ queue = [c \in Chans |-> NoQueue]
  /\ outcome = [p \in Calls |-> "unused"]
  /\ got = [g \in Gets |-> NoValue]

Open(c) == queue[c] # NoQueue
Settle(ps, result) ==
  outcome' = [p \in Calls |-> IF p \in ps THEN result ELSE outcome[p]]

\* The puts that have not succeeded, and everyone who waits.
Excess(q)  == SubSeq(q.items, q.capacity + 1, Len(q.items))
Waiting(q) == Range(Excess(q)) \cup Range(q.gets)

Put(c, o) ==
  /\ Open(c) /\ outcome[o] = "unused"
  /\ LET q == queue[c] IN
       \/ /\ ~q.open
          /\ Settle({o}, "broken_pipe") /\ UNCHANGED <<queue, got>>
       \/ /\ q.open /\ q.gets # << >>
          /\ queue' = [queue EXCEPT ![c].gets = Tail(@)]
          /\ got' = [got EXCEPT ![Head(q.gets)] = o]
          /\ Settle({o, Head(q.gets)}, "success")
       \/ /\ q.open /\ q.gets = << >> /\ Len(q.items) < q.capacity
          /\ queue' = [queue EXCEPT ![c].items = Append(@, o)]
          /\ Settle({o}, "success") /\ UNCHANGED got
       \/ /\ q.open /\ q.gets = << >> /\ Len(q.items) >= q.capacity
          /\ \/ queue' = [queue EXCEPT ![c].items = Append(@, o)] /\ Settle({o}, "waiting")
             \/ UNCHANGED queue /\ Settle({o}, "would_block")
          /\ UNCHANGED got

Get(c, g) ==
  /\ Open(c) /\ outcome[g] = "unused"
  /\ LET q == queue[c] IN
       \/ /\ q.items # << >>
          /\ queue' = [queue EXCEPT ![c].items = Tail(@)]
          /\ got' = [got EXCEPT ![g] = Head(q.items)]
          /\ Settle({g} \cup (IF Excess(q) = << >> THEN {} ELSE {Head(Excess(q))}), "success")
       \/ /\ q.items = << >> /\ ~q.open
          /\ Settle({g}, "broken_pipe") /\ UNCHANGED <<queue, got>>
       \/ /\ q.items = << >> /\ q.open
          /\ \/ queue' = [queue EXCEPT ![c].gets = Append(@, g)] /\ Settle({g}, "waiting")
             \/ UNCHANGED queue /\ Settle({g}, "would_block")
          /\ UNCHANGED got

Close(c) ==
  /\ Open(c)
  /\ queue' = [queue EXCEPT ![c].open = FALSE, ![c].gets = << >>]
  /\ Settle(Range(queue[c].gets), "broken_pipe")
  /\ UNCHANGED got

\* Who waits is sent away; reset also drops the values and opens the queue.
Cancel(c) ==
  /\ Open(c)
  /\ queue' = [queue EXCEPT ![c].gets = << >>,
                 ![c].items = SubSeq(@, 1, Len(@) - Len(Excess(queue[c])))]
  /\ Settle(Waiting(queue[c]), "canceled")
  /\ UNCHANGED got

Reset(c) ==
  /\ Open(c)
  /\ queue' = [queue EXCEPT ![c].gets = << >>, ![c].items = << >>, ![c].open = TRUE]
  /\ Settle(Waiting(queue[c]), "canceled")
  /\ UNCHANGED got

Construct(c) ==
  /\ ~Open(c)
  /\ \E n \in Capacities :
       queue' = [queue EXCEPT ![c] =
                   [capacity |-> n, open |-> TRUE, items |-> << >>, gets |-> << >>]]
  /\ UNCHANGED <<outcome, got>>

Destroy(c) ==
  /\ Open(c)
  /\ queue' = [queue EXCEPT ![c] = NoQueue]
  /\ Settle(Waiting(queue[c]), "destroyed")
  /\ UNCHANGED got

Move(c, d) ==
  /\ Open(d) /\ c # d
  /\ queue' = [queue EXCEPT ![c] = queue[d], ![d] = NoQueue]
  /\ Settle(IF Open(c) THEN Waiting(queue[c]) ELSE {}, "canceled")
  /\ UNCHANGED got

Next ==
  \E c \in Chans :
    \/ \E o \in Puts : Put(c, o)
    \/ \E g \in Gets : Get(c, g)
    \/ Close(c) \/ Cancel(c) \/ Reset(c) \/ Construct(c) \/ Destroy(c)
    \/ \E d \in Chans : Move(c, d)
=============================================================================
