------------------------------ MODULE TimedCall ------------------------------
(***************************************************************************)
(* post_at, post_after and their kin (bits/timed_invoker.h) on a pool, up  *)
(* to the end of the pool.  A timed call makes a timer, and becomes the    *)
(* handler of a wait on it: the operation that is queued in the timer owns *)
(* the function and the timer.  The reactor's thread completes it, outside *)
(* its mutex, by posting the function, still with the timer, to the pool;  *)
(* the timer goes with the function, wherever that goes.  An executor_work *)
(* keeps the pool running meanwhile (bits/wait_op.h).                      *)
(*                                                                         *)
(* The pool's destructor takes things down one after the other, with the   *)
(* reactor's thread running on: the pool's threads; its scheduler, with    *)
(* the functions in its queue; then, as an execution context, the waits;   *)
(* the timer service; and the reactor.                                     *)
(***************************************************************************)
CONSTANT TimedCalls

ASSUME TimedAssumption == "nothing" \notin TimedCalls

VARIABLES place,    \* per call: where its function is
          clock,    \* per call: its timer
          tasks,    \* the calls whose executor_work is held
          reacting, \* what the reactor's thread completes: a call, or "nothing"
          pool      \* how far the pool's end has come

timedVars == <<place, clock, tasks, reacting, pool>>

Places == {"none", "timing", "ready", "completing", "queued", "running", "over", "lost"}

TimedStart ==
  /\ place = [c \in TimedCalls |-> "none"] /\ clock = [c \in TimedCalls |-> "none"]
  /\ tasks = {} /\ reacting = "nothing" /\ pool = "up"

CallsIn(where) == {c \in TimedCalls : place[c] \in where}

\* Functions are gone, and their timers with them, whose destructors call the
\* timer service.
GoneWith(calls) ==
  /\ place' = [c \in TimedCalls |-> IF c \in calls THEN "over" ELSE place[c]]
  /\ clock' = [c \in TimedCalls |->
       IF c \notin calls THEN clock[c] ELSE IF pool = "unserved" THEN "orphan" ELSE "gone"]

----------------------------------------------------------------------------
(* The call.                                                               *)

\* By anybody while the pool is up, by its functions until it has stopped.
\* When the wait has been enqueued the timer belongs to the operation and may
\* be gone already; nothing touches it.  It may also come to nothing.
Start(c) ==
  /\ place[c] = "none"
  /\ pool = "up" \/ (pool \in {"joining", "stopping"} /\ CallsIn({"running"}) # {})
  /\ \/ /\ place' = [place EXCEPT ![c] = "timing"] /\ clock' = [clock EXCEPT ![c] = "alive"]
        /\ tasks' = tasks \cup {c}
     \/ GoneWith({c}) /\ UNCHANGED tasks
  /\ UNCHANGED <<reacting, pool>>

\* The three kinds and the two forms of the time do the same.
PostAt(c)        == Start(c)
PostAfter(c)     == Start(c)
DispatchAt(c)    == Start(c)
DispatchAfter(c) == Start(c)
DeferAt(c)       == Start(c)
DeferAfter(c)    == Start(c)

----------------------------------------------------------------------------
(* The reactor's thread.                                                   *)

Due(c) ==
  /\ place[c] = "timing" /\ reacting = "nothing" /\ pool # "gone"
  /\ place' = [place EXCEPT ![c] = "ready"]
  /\ UNCHANGED <<clock, tasks, reacting, pool>>

\* mutant: the work is given up before the function is posted
HoldsNoWork(c) == tasks' = tasks \ {c}
HoldsWork(c) == UNCHANGED tasks

\* The function is moved out of the operation, the mutex unlocked.
CompleteWait(c) ==
  /\ place[c] = "ready" /\ reacting = "nothing" /\ pool # "gone"
  /\ place' = [place EXCEPT ![c] = "completing"] /\ reacting' = c
  /\ HoldsWork(c)
  /\ UNCHANGED <<clock, pool>>

\* What is posted to a scheduler that has been destroyed stays in its queue.
PostFunction(c) ==
  /\ reacting = c /\ place[c] = "completing"
  /\ place' = [place EXCEPT ![c] =
       IF pool \in {"dead", "shut", "unserved"} THEN "lost" ELSE "queued"]
  /\ UNCHANGED <<clock, tasks, reacting, pool>>

FinishWork(c) ==
  /\ reacting = c /\ place[c] # "completing"
  /\ tasks' = tasks \ {c} /\ reacting' = "nothing"
  /\ UNCHANGED <<place, clock, pool>>

----------------------------------------------------------------------------
(* The pool's threads.                                                     *)

RunFunction(c) ==
  /\ place[c] = "queued" /\ pool \in {"up", "joining"}
  /\ place' = [place EXCEPT ![c] = "running"]
  /\ UNCHANGED <<clock, tasks, reacting, pool>>

FunctionEnds(c) ==
  /\ place[c] = "running" /\ GoneWith({c})
  /\ UNCHANGED <<tasks, reacting, pool>>

----------------------------------------------------------------------------
(* The end of the pool, on its owner's thread.                             *)

Reaches(stage) == pool' = stage /\ UNCHANGED reacting

JoinPool == pool = "up" /\ Reaches("joining") /\ UNCHANGED <<place, clock, tasks>>

\* The pool's threads leave when there is no work, started, queued or running.
PoolJoined ==
  /\ pool = "joining" /\ tasks = {} /\ CallsIn({"queued", "running"}) = {}
  /\ Reaches("joined") /\ UNCHANGED <<place, clock, tasks>>

\* ~thread_pool stops the scheduler, and joins the threads.
StopPool == pool \in {"up", "joined"} /\ Reaches("stopping") /\ UNCHANGED <<place, clock, tasks>>

\* Then ~__scheduler, with the functions in its queue.
DestroyScheduler ==
  /\ pool = "stopping" /\ CallsIn({"running"}) = {}
  /\ GoneWith(CallsIn({"queued"})) /\ Reaches("dead") /\ UNCHANGED tasks

WaitsInTimers == CallsIn({"timing"})    \* mutant: forgets those that are ready
Waits == CallsIn({"timing", "ready"})

\* ~execution_context: the reactor's shutdown takes every wait there is.
ShutdownReactor ==
  /\ pool = "dead"
  /\ GoneWith(Waits) /\ tasks' = tasks \ Waits /\ Reaches("shut")

DestroyTimerService == pool = "shut" /\ Reaches("unserved") /\ UNCHANGED <<place, clock, tasks>>

\* ~__reactor joins its thread; its queue goes last.
DestroyReactor ==
  /\ pool = "unserved" /\ reacting = "nothing"
  /\ GoneWith(CallsIn({"ready"})) /\ Reaches("gone") /\ UNCHANGED tasks

\* Time passes, threads run, a function ends.
TimedGoes ==
  \/ \E c \in TimedCalls :
       Due(c) \/ CompleteWait(c) \/ PostFunction(c) \/ FinishWork(c) \/ RunFunction(c) \/ FunctionEnds(c)
  \/ PoolJoined

TimedNext ==
  \/ TimedGoes
  \/ \E c \in TimedCalls :
       PostAt(c) \/ PostAfter(c) \/ DispatchAt(c) \/ DispatchAfter(c) \/ DeferAt(c) \/ DeferAfter(c)
  \/ JoinPool \/ StopPool \/ DestroyScheduler
  \/ ShutdownReactor \/ DestroyTimerService \/ DestroyReactor

TimedSpec == TimedStart /\ [][TimedNext]_timedVars

----------------------------------------------------------------------------
(* Properties.                                                             *)

TimedTypeOK ==
  /\ place \in [TimedCalls -> Places]
  /\ clock \in [TimedCalls -> {"none", "alive", "gone", "orphan"}]
  /\ tasks \subseteq TimedCalls /\ reacting \in TimedCalls \cup {"nothing"}
  /\ pool \in {"up", "joining", "joined", "stopping", "dead", "shut", "unserved", "gone"}

\* A join waits for timed calls as for any other function, at whatever point
\* between the timer, the reactor's thread and the pool's queue they are
\* (wait_op.h:43-52).
JoinWaitsForTimers == pool = "joined" => \A c \in TimedCalls : place[c] \in {"none", "over"}

\* A timer goes before the services it calls, wherever in the reactor or the
\* pool its function is when the pool is destroyed; and every timer goes, except
\* those whose waits the reactor's thread completes when the scheduler has been
\* destroyed already (timed_invoker.h:51, reactor.h:46-53, 106-112).
TimersGoInTime ==
  \A c \in TimedCalls :
    /\ clock[c] # "orphan"
    /\ pool = "gone" /\ place[c] # "lost" => clock[c] # "alive"

\* Timed calls keep both promises, of the pool that is joined and of the timers
\* (wait_op.h:43-52, timed_invoker.h:32-43).
TimedCallsKept == JoinWaitsForTimers /\ TimersGoInTime
=============================================================================
