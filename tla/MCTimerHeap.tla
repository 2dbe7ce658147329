---------------------------- MODULE MCTimerHeap ----------------------------
(***************************************************************************)
(* The heap of TimerHeap on its own, for TLC: timers with every choice of  *)
(* times are pushed, each once and in the order of their names, which are  *)
(* interchangeable, and removed at any moment.  Six entries are the fewest *)
(* for which the entry that fills a gap has to move up.                    *)
(***************************************************************************)
EXTENDS TimerHeap

CONSTANTS HeapSize, HeapTimes

ASSUME HeapAssumption == HeapSize \in Nat /\ HeapTimes \subseteq Nat

VARIABLES heapQueue   \* the heap, and the index of every timer

HeapTimers == 1..HeapSize

HeapInit == heapQueue = [heap |-> << >>, index |-> [t \in HeapTimers |-> NoIndex]]

InHeap(t) == \E e \in Entries(heapQueue) : e.timer = t

NotPushed(t) == heapQueue.index[t] = NoIndex
PushedNext(t) == NotPushed(t) /\ \A u \in 1..(t - 1) : ~NotPushed(u)

PushTimer(t, at) == PushedNext(t) /\ heapQueue' = Pushed(heapQueue, t, at)
RemoveTimer(t)   == InHeap(t) /\ heapQueue' = OutOfHeap(heapQueue, t)

HeapNext == \E t \in HeapTimers : RemoveTimer(t) \/ \E at \in HeapTimes : PushTimer(t, at)

HeapSpec == HeapInit /\ [][HeapNext]_heapQueue

----------------------------------------------------------------------------
(* Properties.                                                             *)

\* However entries are moved about, the heap stays ordered, so that the first
\* entry, at which the reactor looks (_Wait_duration, _Get_ready_timers), is one
\* of the earliest, and every timer of it knows its entry, so that _Remove_timer
\* removes what it is asked to; and a push adds one entry and a removal takes
\* away that of the timer it is for (timer_queue.h:193-303).
HeapKept ==
  [][/\ Ordered(heapQueue') /\ Indexed(heapQueue')
     /\ \A t \in HeapTimers :
          /\ RemoveTimer(t) => Entries(heapQueue') = {e \in Entries(heapQueue) : e.timer # t}
          /\ \A at \in HeapTimes :
               PushTimer(t, at) => Entries(heapQueue') = Entries(heapQueue) \cup {[at |-> at, timer |-> t]}]_heapQueue
=============================================================================
