----------------------------- MODULE TimerHeap -----------------------------
(***************************************************************************)
(* The heap of a timer queue (bits/timer_queue.h): an array of entries, a  *)
(* time and a timer each, of which none is earlier than its parent, and in *)
(* every timer the index of its entry, so that a timer can be removed from *)
(* the middle.  Operators on a record with the fields heap and index.      *)
(*                                                                         *)
(* Indices are one more than in the code, and 0 is its ~size_t(0).  An     *)
(* index is not reset when its entry is removed.                           *)
(***************************************************************************)
EXTENDS Integers, Sequences

NoIndex == 0

Before(q, i, j) == q.heap[i].at < q.heap[j].at
Parent(i) == i \div 2

Swap(q, i, j) ==
  [q EXCEPT !.heap  = [@ EXCEPT ![i] = q.heap[j], ![j] = q.heap[i]],
            !.index = [@ EXCEPT ![q.heap[j].timer] = i, ![q.heap[i].timer] = j]]

\* One turn of the loop of _Up_heap, on a queue and an index, and all of them.
Raised(s) ==
  LET p == Parent(s.at) IN
  IF s.at > 1 /\ Before(s.queue, s.at, p)
  THEN [queue |-> Swap(s.queue, s.at, p), at |-> p]
  ELSE s

UpHeap(q, i) ==
  LET turn[n \in 0..i] == IF n = 0 THEN [queue |-> q, at |-> i] ELSE Raised(turn[n - 1]) IN
  turn[i].queue

MinChild(q, i) ==
  IF 2 * i = Len(q.heap) \/ Before(q, 2 * i, 2 * i + 1) THEN 2 * i ELSE 2 * i + 1

\* The same of _Down_heap.
Lowered(s) ==
  LET c == MinChild(s.queue, s.at) IN
  IF 2 * s.at > Len(s.queue.heap) \/ Before(s.queue, s.at, c)
  THEN s
  ELSE [queue |-> Swap(s.queue, s.at, c), at |-> c]

DownHeap(q, i) ==
  LET last == Len(q.heap)
      turn[n \in 0..last] == IF n = 0 THEN [queue |-> q, at |-> i] ELSE Lowered(turn[n - 1]) IN
  turn[last].queue

Pushed(q, t, at) ==
  UpHeap([q EXCEPT !.heap = Append(@, [at |-> at, timer |-> t]),
                   !.index[t] = Len(q.heap) + 1],
         Len(q.heap) + 1)

\* The entry that fills the gap may belong above or below it.
OnlyDown(q, i) == DownHeap(q, i)    \* mutant: it is only moved down
Settled(q, i) ==
  IF i > 1 /\ Before(q, i, Parent(i)) THEN UpHeap(q, i) ELSE DownHeap(q, i)

PopBack(q) == [q EXCEPT !.heap = SubSeq(@, 1, Len(@) - 1)]

\* mutant: the last entry is removed whichever it is
TakesTheLast(q, t) == IF q.heap = << >> THEN q ELSE PopBack(q)
OutOfHeap(q, t) ==
  LET i == q.index[t]
      last == Len(q.heap) IN
  IF i = NoIndex \/ i > last THEN q
  ELSE IF i = last THEN PopBack(q)
  ELSE Settled(PopBack(Swap(q, i, last)), i)

----------------------------------------------------------------------------
(* What the operators are to keep true.                                    *)

Ordered(q) == \A i \in 2..Len(q.heap) : ~Before(q, i, Parent(i))
Indexed(q) == \A i \in 1..Len(q.heap) : q.index[q.heap[i].timer] = i
Entries(q) == {q.heap[i] : i \in 1..Len(q.heap)}
=============================================================================
