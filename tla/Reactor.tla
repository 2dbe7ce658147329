------------------------------ MODULE Reactor ------------------------------
(***************************************************************************)
(* Timers (bits/timer.h), the queue that holds those that are waited for   *)
(* (bits/timer_queue.h) and the reactor, whose thread completes the waits  *)
(* (bits/reactor.h).  A timer with waits is active: it is in a linked list *)
(* through the timers themselves and, unless it never expires, in a heap   *)
(* by expiry.  The reactor moves the waits of expired timers, as a cancel  *)
(* does, to a queue of ready operations, completes these one by one with   *)
(* its mutex released, and then sleeps until the first expiry, a minute at *)
(* most.                                                                   *)
(*                                                                         *)
(* Every member of a timer that matters here runs under the reactor's      *)
(* mutex and is one step; operator= cancels and moves under two locks, but *)
(* a Cancel before the step leaves it the same.  A timer is used by one    *)
(* thread at a time.  There is one clock, and its time stops at MaxTime,   *)
(* which stands for any later time too.                                    *)
(*                                                                         *)
(* A move leaves some fields of its source as they were: the index of an   *)
(* expired timer, the links of an active one.  harm records the moves      *)
(* that let another timer's state depend on them, and nothing is modelled  *)
(* after a harm that is not in Followed.                                   *)
(***************************************************************************)
EXTENDS TimerHeap, Functions

CONSTANTS Timers,   \* timer objects
          Waits,    \* one element for each asynchronous wait
          MaxTime,  \* the last moment anything expires
          MaxWait,  \* the longest sleep, 60 s in the code
          Followed, \* the kinds of harm after which the model goes on
          Null      \* no timer, no wait, nothing that a user sees

Codes == {"success", "canceled"}
Completions == [wait : Waits, code : Codes]

ASSUME ReactorAssumption ==
  /\ MaxTime \in Nat
  /\ MaxWait \in Nat \ {0}
  /\ Followed \subseteq {"index", "links"}
  /\ Null \notin Timers \cup Waits \cup Completions
  /\ Null \notin [expiry : 0..MaxTime + 1, waits : Seq(Waits)]

VARIABLES now,      \* the clock
          life,     \* of each timer object: "none" or "live"
          expiry,   \* of each timer, _M_expiry
          queue,    \* the timer queue and the timers' own data
          ready,    \* _M_ops: waits to complete and their error codes
          reactor,  \* where the reactor's thread is
          current,  \* the wait it completes, or Null
          sleep,    \* the time it still sleeps
          phase,    \* of the execution context
          outcome,  \* of each wait
          harm, undefined

vars == <<now, life, expiry, queue, ready, reactor, current, sleep, phase, outcome, harm, undefined>>

Times == 0..MaxTime
Never == MaxTime + 1    \* time_point::max()

Init ==
  /\ now = 0
  /\ life = [t \in Timers |-> "none"]
  /\ expiry = [t \in Timers |-> Never]
  /\ queue = [heap |-> << >>, index |-> [t \in Timers |-> NoIndex],
              next |-> [t \in Timers |-> Null], prev |-> [t \in Timers |-> Null],
              first |-> Null, ops |-> [t \in Timers |-> << >>]]
  /\ ready = << >>
  /\ reactor = "run" /\ current = Null /\ sleep = 0
  /\ phase = "up"
  /\ outcome = [w \in Waits |-> "unused"]
  /\ harm = {} /\ undefined = FALSE

----------------------------------------------------------------------------
(* The timer queue.                                                        *)

Active(q, t) == q.prev[t] # Null \/ q.first = t

Linked(q, t) ==
  [q EXCEPT !.first = t,
            !.next[t] = q.first,
            !.prev = [u \in Timers |-> IF u = q.first THEN t
                                       ELSE IF u = t THEN Null ELSE q.prev[u]]]

Unlinked(q, t) ==
  [q EXCEPT
     !.first = IF @ = t THEN q.next[t] ELSE @,
     !.next = [u \in Timers |-> IF u = t THEN Null
                                ELSE IF u = q.prev[t] THEN q.next[t] ELSE q.next[u]],
     !.prev = [u \in Timers |-> IF u = t THEN Null
                                ELSE IF u = q.next[t] THEN q.prev[t] ELSE q.prev[u]]]

Removed(q, t) == Unlinked(OutOfHeap(q, t), t)

Activated(q, t, at) ==
  IF Active(q, t) THEN q
  ELSE Linked(IF at = Never THEN [q EXCEPT !.index[t] = NoIndex] ELSE Pushed(q, t, at), t)

Enqueued(q, t, at, w) == [Activated(q, t, at) EXCEPT !.ops[t] = Append(@, w)]

NeverTold(q, t, w) == FALSE    \* mutant: the reactor is not woken
\* Whether the reactor has to be told that its sleep is too long now.
IsFirst(q, t, w) == q.index[t] = 1 /\ Head(q.ops[t]) = w

\* The first n waits of t are taken; a timer without waits is not active.
AlwaysRemoved(q, t) == Removed(q, t)    \* mutant: though it has waits left
RemovedIfIdle(q, t) == IF q.ops[t] = << >> THEN Removed(q, t) ELSE q
Without(q, t, n) ==
  IF Active(q, t)
  THEN RemovedIfIdle([q EXCEPT !.ops[t] = SubSeq(@, n + 1, Len(@))], t)
  ELSE q
Taken(q, t, n) == IF Active(q, t) THEN SubSeq(q.ops[t], 1, n) ELSE << >>

NotRepointed(heap, i, t) == heap    \* mutant: the entry is still the source's
Repointed(heap, i, t) == IF i \in DOMAIN heap THEN [heap EXCEPT ![i].timer = t] ELSE heap

\* The target takes the place of the source: in the heap, where the entry
\* at the source's index becomes the target's, and in the list.  (An index
\* past the end is still inside the vector's memory, which never shrinks.)
Moved(q, target, source) ==
  LET i == q.index[source] IN
  [q EXCEPT
     !.ops[target] = @ \o q.ops[source], !.ops[source] = << >>,
     !.index[target] = i, !.index[source] = NoIndex,
     !.heap = Repointed(@, i, target),
     !.prev = [u \in Timers |-> IF u = q.next[source] THEN target
                                ELSE IF u = target THEN q.prev[source] ELSE q.prev[u]],
     !.next = [u \in Timers |-> IF u = target THEN q.next[source]
                                ELSE IF u = q.prev[source] THEN target ELSE q.next[u]],
     !.first = IF @ = source THEN target ELSE @]

\* What a move from source leaves behind that is not its own any more.
MoveHarm(q, source) ==
  (IF ~Active(q, source) /\ q.index[source] \in DOMAIN q.heap THEN {"index"} ELSE {})
  \cup
  (IF q.prev[source] # Null \/ (~Active(q, source) /\ q.next[source] # Null)
   THEN {"links"} ELSE {})

WaitsOf(ws, code) == [i \in DOMAIN ws |-> [wait |-> ws[i], code |-> code]]

\* The waits of the timers whose entry is due, the earliest first.  A first
\* entry that its timer does not know is never removed: the loop is endless.
EarlyDue(q) == q.heap # << >> /\ q.heap[1].at <= now + 1    \* mutant: too early
IsDue(q)   == q.heap # << >> /\ q.heap[1].at <= now
IsStuck(q) == IsDue(q) /\ q.index[q.heap[1].timer] \notin DOMAIN q.heap

\* One turn of the loop, on a queue and the ready operations.
Expired(s) ==
  LET t == s.queue.heap[1].timer IN
  IF ~IsDue(s.queue) \/ IsStuck(s.queue) THEN s
  ELSE [queue |-> Removed([s.queue EXCEPT !.ops[t] = << >>], t),
        ready |-> s.ready \o WaitsOf(s.queue.ops[t], "success")]

Expire(s) ==
  LET most == Len(s.queue.heap)
      turn[n \in 0..most] == IF n = 0 THEN s ELSE Expired(turn[n - 1]) IN
  turn[most]

\* The list from its head on: the timers in every set that holds the head and,
\* with a timer, the next one.
HoldsList(q, S) ==
  /\ q.first # Null => q.first \in S
  /\ \A t \in S : q.next[t] # Null => q.next[t] \in S

ActiveTimers(q) == {t \in Timers : \A S \in SUBSET Timers : HoldsList(q, S) => t \in S}

AllTaken(q) ==
  LET Clear(f, v) == [t \in Timers |-> IF t \in ActiveTimers(q) THEN v ELSE f[t]] IN
  [q EXCEPT !.ops = Clear(@, << >>), !.next = Clear(@, Null), !.prev = Clear(@, Null),
            !.first = Null, !.heap = << >>]

----------------------------------------------------------------------------
(* Timers.                                                                 *)

Defined == ~undefined /\ harm \subseteq Followed

MayUse(t) == Defined /\ phase = "up" /\ life[t] = "live"

Notify(told) ==
  /\ reactor' = IF told /\ reactor = "sleep" THEN "run" ELSE reactor
  /\ sleep' = IF told THEN 0 ELSE sleep

CancelUpTo(t, n) ==
  /\ queue' = Without(queue, t, n)
  /\ ready' = ready \o WaitsOf(Taken(queue, t, n), "canceled")
  /\ Notify(Taken(queue, t, n) # << >>)

All(t) == Len(queue.ops[t])

Construct(t) ==
  /\ Defined /\ phase = "up" /\ life[t] = "none"
  /\ life' = [life EXCEPT ![t] = "live"]
  /\ \E e \in Times \cup {Never} : expiry' = [expiry EXCEPT ![t] = e]
  /\ UNCHANGED <<now, queue, ready, reactor, current, sleep, phase, outcome, harm, undefined>>

Cancel(t) ==
  /\ MayUse(t)
  /\ CancelUpTo(t, All(t))
  /\ UNCHANGED <<now, life, expiry, current, phase, outcome, harm, undefined>>

CancelOne(t) ==
  /\ MayUse(t)
  /\ CancelUpTo(t, IF All(t) = 0 THEN 0 ELSE 1)
  /\ UNCHANGED <<now, life, expiry, current, phase, outcome, harm, undefined>>

ExpiresAt(t, e) ==
  /\ MayUse(t)
  /\ CancelUpTo(t, All(t))
  /\ expiry' = [expiry EXCEPT ![t] = e]
  /\ UNCHANGED <<now, life, current, phase, outcome, harm, undefined>>

Wait(t, w) ==
  /\ MayUse(t)
  /\ outcome[w] = "unused"
  /\ outcome' = [outcome EXCEPT ![w] = "waiting"]
  /\ queue' = Enqueued(queue, t, expiry[t], w)
  /\ Notify(IsFirst(queue', t, w))
  /\ UNCHANGED <<now, life, expiry, ready, current, phase, harm, undefined>>

MoveExpiry(t, s) == expiry' = [expiry EXCEPT ![t] = expiry[s], ![s] = Never]

\* The links of a source that is not active may point to what is gone.
Dangles(s) == queue.next[s] # Null /\ life[queue.next[s]] = "none"

MoveConstruct(t, s) ==
  /\ MayUse(s) /\ life[t] = "none"
  /\ life' = [life EXCEPT ![t] = "live"]
  /\ MoveExpiry(t, s)
  /\ queue' = Moved(queue, t, s)
  /\ harm' = harm \cup MoveHarm(queue, s)
  /\ undefined' = Dangles(s)
  /\ UNCHANGED <<now, ready, reactor, current, sleep, phase, outcome>>

MoveAssign(t, s) ==
  /\ MayUse(s) /\ MayUse(t) /\ s # t
  /\ MoveExpiry(t, s)
  /\ LET q == Without(queue, t, All(t)) IN
       /\ queue' = Moved(q, t, s)
       /\ harm' = harm \cup MoveHarm(q, s)
  /\ ready' = ready \o WaitsOf(Taken(queue, t, All(t)), "canceled")
  /\ Notify(Taken(queue, t, All(t)) # << >>)
  /\ undefined' = Dangles(s)
  /\ UNCHANGED <<now, life, current, phase, outcome>>

\* The queue still points to t.
Referenced(q, t) ==
  \/ q.first = t
  \/ \E u \in Timers \ {t} : Active(q, u) /\ (q.next[u] = t \/ q.prev[u] = t)
  \/ \E e \in Entries(q) : e.timer = t

Erased(q, t) ==
  [q EXCEPT !.index[t] = NoIndex, !.next[t] = Null, !.prev[t] = Null, !.ops[t] = << >>]

Destroy(t) ==
  /\ Defined /\ phase \in {"up", "shutdown"} /\ life[t] = "live"
  /\ LET q == Without(queue, t, All(t)) IN
       /\ queue' = Erased(q, t)
       /\ undefined' = Referenced(q, t)
  /\ ready' = ready \o WaitsOf(Taken(queue, t, All(t)), "canceled")
  /\ Notify(Taken(queue, t, All(t)) # << >>)
  /\ life' = [life EXCEPT ![t] = "none"]
  /\ expiry' = [expiry EXCEPT ![t] = Never]
  /\ UNCHANGED <<now, current, phase, outcome, harm>>

----------------------------------------------------------------------------
(* The reactor's thread.                                                   *)

Least(a, b) == IF a < b THEN a ELSE b

WaitDuration(q) ==
  IF q.heap = << >> THEN MaxWait
  ELSE IF q.heap[1].at <= now THEN 0
  ELSE Least(MaxWait, q.heap[1].at - now)

\* Without its mutex for an operation, or asleep.
CompleteOrSleep(q, ops) ==
  IF ops # << >>
  THEN /\ reactor' = "complete"
       /\ current' = Head(ops) /\ ready' = Tail(ops) /\ sleep' = 0
  ELSE /\ reactor' = "sleep"
       /\ current' = Null /\ ready' = << >> /\ sleep' = WaitDuration(q)

Run ==
  /\ Defined /\ reactor = "run" /\ phase \in {"up", "shutdown"}
  /\ LET s == Expire([queue |-> queue, ready |-> ready]) IN
       /\ queue' = s.queue
       /\ undefined' = IsStuck(s.queue)
       /\ CompleteOrSleep(s.queue, s.ready)
  /\ UNCHANGED <<now, life, expiry, phase, outcome, harm>>

Complete ==
  /\ Defined /\ reactor = "complete"
  /\ outcome' = [outcome EXCEPT ![current.wait] = current.code]
  /\ current' = Null
  /\ reactor' = "lock"
  /\ UNCHANGED <<now, life, expiry, queue, ready, sleep, phase, harm, undefined>>

\* Neither the clock nor _M_stopped is looked at before the next sleep.
Relock ==
  /\ Defined /\ reactor = "lock"
  /\ CompleteOrSleep(queue, ready)
  /\ UNCHANGED <<now, life, expiry, queue, phase, outcome, harm, undefined>>

WakeUp ==
  /\ Defined /\ reactor = "sleep"
  /\ reactor' = "run" /\ sleep' = 0
  /\ UNCHANGED <<now, life, expiry, queue, ready, current, phase, outcome, harm, undefined>>

TimeOut  == sleep = 0 /\ WakeUp
Spurious == sleep > 0 /\ WakeUp

Ends ==
  /\ Defined /\ reactor = "run" /\ phase = "stopped"
  /\ reactor' = "ended"
  /\ UNCHANGED <<now, life, expiry, queue, ready, current, sleep, phase, outcome, harm, undefined>>

Tick ==
  /\ Defined /\ (now < MaxTime \/ sleep > 0)
  /\ now' = Least(now + 1, MaxTime)
  /\ sleep' = IF sleep > 0 THEN sleep - 1 ELSE 0
  /\ UNCHANGED <<life, expiry, queue, ready, reactor, current, phase, outcome, harm, undefined>>

----------------------------------------------------------------------------
(* The end of the execution context: shutdown_service, then ~__reactor.    *)

Shutdown ==
  /\ Defined /\ phase = "up"
  /\ phase' = "shutdown"
  /\ queue' = AllTaken(queue)
  /\ ready' = << >>
  /\ outcome' =
       [w \in Waits |->
          IF \/ \E t \in ActiveTimers(queue) : w \in Range(queue.ops[t])
             \/ \E i \in DOMAIN ready : ready[i].wait = w
          THEN "destroyed" ELSE outcome[w]]
  /\ UNCHANGED <<now, life, expiry, reactor, current, sleep, harm, undefined>>

StopUnset ==    \* mutant: the thread is woken but the flag is not set
  /\ Defined /\ phase = "shutdown"
  /\ Notify(TRUE)
  /\ UNCHANGED <<now, life, expiry, queue, ready, current, phase, outcome, harm, undefined>>
Stop ==
  /\ Defined /\ phase = "shutdown"
  /\ phase' = "stopped"
  /\ Notify(TRUE)
  /\ UNCHANGED <<now, life, expiry, queue, ready, current, outcome, harm, undefined>>

Join ==
  /\ Defined /\ phase = "stopped" /\ reactor = "ended"
  /\ phase' = "joined"
  /\ UNCHANGED <<now, life, expiry, queue, ready, reactor, current, sleep, outcome, harm, undefined>>

Step == Run \/ Complete \/ Relock \/ TimeOut \/ Ends

Next ==
  \/ \E t \in Timers :
       \/ Construct(t) \/ Destroy(t) \/ Cancel(t) \/ CancelOne(t)
       \/ \E e \in Times \cup {Never} : ExpiresAt(t, e)
       \/ \E w \in Waits : Wait(t, w)
       \/ \E s \in Timers : MoveConstruct(t, s) \/ MoveAssign(t, s)
  \/ Step \/ Spurious \/ Tick
  \/ Shutdown \/ Stop \/ Join

\* The thread and the clock go on; ~__reactor stops the thread it has shut
\* down and joins it.
Fairness == WF_vars(Step) /\ WF_vars(Tick) /\ WF_vars(Stop) /\ WF_vars(Join)

Spec == Init /\ [][Next]_vars
FairSpec == Spec /\ Fairness

----------------------------------------------------------------------------
(* Properties.                                                             *)

Queues == [heap : Seq([at : Times, timer : Timers]), index : [Timers -> Nat],
           next : [Timers -> Timers \cup {Null}], prev : [Timers -> Timers \cup {Null}],
           first : Timers \cup {Null}, ops : [Timers -> Seq(Waits)]]

\* Types, and that the reactor's thread has an operation exactly while it
\* completes it, sleeps no longer than a minute, and that timers without an
\* expiry are not in the heap (_Run, _Enqueue_timer).
TypeOK ==
  /\ now \in Times
  /\ life \in [Timers -> {"none", "live"}]
  /\ expiry \in [Timers -> Times \cup {Never}]
  /\ queue \in Queues
  /\ ready \in Seq(Completions)
  /\ reactor \in {"run", "complete", "lock", "sleep", "ended"}
  /\ current \in Completions \cup {Null}
  /\ (current # Null) <=> (reactor = "complete")
  /\ sleep \in 0..MaxWait
  /\ phase \in {"up", "shutdown", "stopped", "joined"}
  /\ outcome \in [Waits -> {"unused", "waiting", "destroyed"} \cup Codes]
  /\ harm \subseteq {"index", "links"}
  /\ undefined \in BOOLEAN

Awaited == {t \in Timers : queue.ops[t] # << >>}
Expiring == {t \in Awaited : expiry[t] # Never}

HeapIsExact ==
  /\ Ordered(queue) /\ Indexed(queue)
  /\ Entries(queue) = {[at |-> expiry[t], timer |-> t] : t \in Expiring}

ListIsExact ==
  /\ ActiveTimers(queue) = Awaited
  /\ \A t \in Timers : Active(queue, t) <=> t \in Awaited
  /\ \A t \in Awaited : queue.next[t] # Null => queue.prev[queue.next[t]] = t

\* The heap has an entry, with the right time, for every timer that somebody
\* waits for and that expires, and no other: neither cancels nor moves nor the
\* reactor leave an entry behind or lose one (_Enqueue_timer, _Remove_timer,
\* _Move_timer).  The list, followed from its head and backwards, has the timers
\* that somebody waits for: what _Get_all_timers destroys is all there is, and
\* the test for an active timer, by its own links, is right.
QueueIsExact ==
  /\ TypeOK
  /\ harm = {} => HeapIsExact /\ ListIsExact


\* A sleeping reactor has completed all that was ready and wakes up in time
\* for every timer, whatever was waited for, canceled or moved since it went
\* to sleep (_Run, _Enqueue_timer's result).
OnTime ==
  reactor = "sleep" =>
    /\ ready = << >>
    /\ \A t \in Expiring : sleep = 0 \/ now + sleep <= expiry[t]

\* The same where no move has left another timer's state wrong.
OnTimeUnlessMoved == harm = {} => OnTime

\* No object is destroyed while the queue still points to it (~basic_timer),
\* and no loop of the reactor is endless (_Get_ready_timers), unless a move
\* did harm.
DefinedUnlessMoved == undefined => harm # {}

Harmed == harm # {} \/ undefined

Pending(w) ==
  \/ \E t \in Expiring : w \in Range(queue.ops[t])
  \/ \E i \in DOMAIN ready : ready[i].wait = w
  \/ current # Null /\ current.wait = w

\* A wait on a timer that expires ends: the reactor gets to it in spite of
\* what it has been told or not told (_Run).  And ~__reactor returns: a stop the
\* reactor's thread was not asleep to hear is seen after the next sleep.
WaitsAndShutdownEnd ==
  /\ \A w \in Waits : Pending(w) ~> (outcome[w] # "waiting" \/ Harmed)
  /\ phase = "shutdown" ~> (phase = "joined" \/ Harmed)

\* The timers and the waits, seen by their users.
SeenTimers ==
  [t \in Timers |-> IF life[t] = "none" THEN Null
                    ELSE [expiry |-> expiry[t], waits |-> queue.ops[t]]]
DecidedWaits == (IF current = Null THEN << >> ELSE <<current>>) \o ready
Up == phase = "up"

Promise == INSTANCE PendingWaits WITH timer <- SeenTimers, decided <- DecidedWaits, up <- Up

\* Waits end as promised: not before the expiry, in the order of expiry,
\* canceled only by their timer's cancel, once (_Get_ready_timers,
\* _Cancel_timer, _Complete).
ImplementsPendingWaits ==
  Promise!Init /\ [][Promise!Next \/ Harmed']_(Promise!vars)
=============================================================================
