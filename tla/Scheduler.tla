----------------------------- MODULE Scheduler -----------------------------
(***************************************************************************)
(* The scheduler behind loop_scheduler, thread_pool and system_executor    *)
(* (bits/scheduler.h): a queue of operations, a count of outstanding work, *)
(* a stopped flag, one mutex and one condition variable.                   *)
(*                                                                         *)
(* A section of the code that holds the mutex is one step; the atomic      *)
(* counter is changed in steps of its own, so a thread may be interrupted  *)
(* between counting an operation and queueing it, and between bringing the *)
(* count to zero and setting the stopped flag.  A call that is half way is *)
(* recorded in call[t]: the operation still to be pushed, or StopCall for  *)
(* a _Stop still to be executed.                                           *)
(*                                                                         *)
(* pc[t] is where thread t is with respect to its __scheduler::_Context:   *)
(*   "out"   it has none (user code, or about to call an entry point)      *)
(*   "lock"  about to acquire the mutex and look at the queue              *)
(*   "wait"  asleep on the condition variable                              *)
(*   "run"   in the function object of operation cur[t]                    *)
(*   "exit"  in ~_Context, about to hand back its private queue            *)
(***************************************************************************)
EXTENDS Integers, Sequences, FiniteSets, Functions

CONSTANTS Threads,    \* threads that use the scheduler, in whatever role
          Ops,        \* operations; each stands for one submitted function
          Works,      \* executor_work objects
          Calls,      \* the entry points the program uses
          Hints,      \* possible values of _M_one_thread: concurrency hint 1
          NoOp, StopCall

LoopModes  == {"run", "run_until", "poll"}
PollModes  == {"poll", "poll_one"}
TimedModes == {"run_until", "run_one_until"}
Modes      == {"run", "run_one", "run_until", "run_one_until",
               "poll", "poll_one"}
Features   == Modes \cup {"post", "defer", "dispatch", "stop", "restart",
                          "work", "throw"}

ASSUME SchedulerAssumption ==
  /\ Calls \subseteq Features
  /\ Hints \subseteq BOOLEAN
  /\ Ops \cap Works = {}
  /\ NoOp \notin Ops
  /\ StopCall \notin Ops \cup {NoOp}

VARIABLES oneThread,  \* _M_one_thread, set by the constructor
          queue,      \* _M_queue
          work,       \* _M_outstanding_work
          stopped,    \* _M_stopped
          pc, mode,   \* per thread: its place and the entry point it is in
          delta,      \* per thread: _M_work_delta
          private,    \* per thread: _M_private_queue
          cur,        \* per thread: the operation it is running
          call,       \* per thread: the call it is half way through
          submitted,  \* operations that were given to the scheduler
          done,       \* operations whose function has returned or thrown
          tokens      \* executor_work objects that own a unit of work

shared  == <<queue, work, stopped>>
context == <<pc, mode, delta, private, cur>>
vars    == <<oneThread, queue, work, stopped, pc, mode, delta, private, cur, call,
             submitted, done, tokens>>

Init ==
  /\ oneThread \in Hints
  /\ queue = << >>
  /\ work = 0
  /\ stopped = FALSE
  /\ pc = [t \in Threads |-> "out"]
  /\ mode = [t \in Threads |-> "run"]
  /\ delta = [t \in Threads |-> 0]
  /\ private = [t \in Threads |-> << >>]
  /\ cur = [t \in Threads |-> NoOp]
  /\ call = [t \in Threads |-> NoOp]
  /\ submitted = {}
  /\ done = {}
  /\ tokens = {}

----------------------------------------------------------------------------
(* The condition variable.                                                 *)

Sleepers == {t \in Threads : pc[t] = "wait"}

\* notify_one wakes one of the sleepers if there is one, and is lost if not.
Notified(wanted) ==
  IF wanted /\ Sleepers # {} THEN {{t} : t \in Sleepers} ELSE {{}}

\* A woken thread has still to acquire the mutex again.
Wake(woken) == [t \in Threads |-> IF t \in woken THEN "lock" ELSE pc[t]]

----------------------------------------------------------------------------
(* Submission: post, defer and dispatch.                                   *)

\* __call_stack::_Contains: user code runs inside only in a function object.
Inside(t)  == pc[t] = "run"
CanCall(t) == pc[t] \in {"out", "run"} /\ call[t] = NoOp

Submits(t, o) ==
  /\ CanCall(t)
  /\ o \in Ops \ submitted
  /\ submitted' = submitted \cup {o}
  /\ UNCHANGED <<queue, stopped, pc, mode, cur, done, tokens, oneThread>>

KeepUncounted(t, o) ==    \* mutant: the work delta is not raised
  /\ Submits(t, o)
  /\ private' = [private EXCEPT ![t] = Append(@, o)]
  /\ UNCHANGED <<work, call, delta>>

\* The operation goes to the caller's private queue, without the mutex.
KeepPrivate(t, o) ==
  /\ Submits(t, o)
  /\ delta' = [delta EXCEPT ![t] = @ + 1]
  /\ private' = [private EXCEPT ![t] = Append(@, o)]
  /\ UNCHANGED <<work, call>>

\* The operation takes over the unit of work of the one that is running.
ReuseCredit(t, o) ==
  /\ Submits(t, o)
  /\ delta' = [delta EXCEPT ![t] = @ + 1]
  /\ call' = [call EXCEPT ![t] = o]
  /\ UNCHANGED <<work, private>>

CountWork(t, o) ==
  /\ Submits(t, o)
  /\ work' = work + 1
  /\ call' = [call EXCEPT ![t] = o]
  /\ UNCHANGED <<delta, private>>

HasCreditTwice(t) == delta[t] <= 0    \* mutant
HasCredit(t) == delta[t] < 0

PostOp(t, o) ==
  \/ ~Inside(t) /\ CountWork(t, o)
  \/ Inside(t) /\ oneThread /\ KeepPrivate(t, o)
  \/ Inside(t) /\ ~oneThread /\ HasCredit(t) /\ ReuseCredit(t, o)
  \/ Inside(t) /\ ~oneThread /\ ~HasCredit(t) /\ CountWork(t, o)

Post(t, o) == "post" \in Calls /\ PostOp(t, o)

Defer(t, o) ==
  /\ "defer" \in Calls
  /\ \/ ~Inside(t) /\ CountWork(t, o)
     \/ Inside(t) /\ KeepPrivate(t, o)

\* Inside, the function runs before dispatch returns, as a part of the
\* enclosing function; what it calls in turn is called by that function.
Dispatch(t, o) ==
  /\ "dispatch" \in Calls
  /\ \/ ~Inside(t) /\ PostOp(t, o)
     \/ /\ Inside(t)
        /\ CanCall(t)
        /\ o \in Ops \ submitted
        /\ submitted' = submitted \cup {o}
        /\ done' = done \cup {o}
        /\ UNCHANGED <<shared, context, call, tokens, oneThread>>

NeverNotify == FALSE    \* mutant
NotifyOnPush == queue = << >>    \* the operation becomes the front

\* The locked half of post and defer.
Push(t) ==
  /\ call[t] \in Ops
  /\ queue' = Append(queue, call[t])
  /\ \E woken \in Notified(NotifyOnPush) : pc' = Wake(woken)
  /\ call' = [call EXCEPT ![t] = NoOp]
  /\ UNCHANGED <<work, stopped, mode, delta, private, cur,
                 submitted, done, tokens, oneThread>>

----------------------------------------------------------------------------
(* Stop, restart and the count of work.                                    *)

\* _Stop is called once the count is seen to be zero.
StopIf(zero, t) ==
  call' = IF zero THEN [call EXCEPT ![t] = StopCall] ELSE call

WakeOnStopOne == IF Sleepers = {} THEN {} ELSE {CHOOSE t \in Sleepers : TRUE} \* mutant
WakeOnStop == Sleepers    \* notify_all

StopSection ==
  /\ stopped' = TRUE
  /\ pc' = Wake(WakeOnStop)
  /\ UNCHANGED <<queue, work, mode, delta, private, cur,
                 submitted, done, tokens, oneThread>>

RunStop(t) ==
  /\ call[t] = StopCall
  /\ StopSection
  /\ call' = [call EXCEPT ![t] = NoOp]

StopNow(t) ==
  /\ CanCall(t)
  /\ StopSection
  /\ UNCHANGED call

Stop(t) == "stop" \in Calls /\ StopNow(t)

Restart(t) ==
  /\ "restart" \in Calls
  /\ CanCall(t)
  /\ stopped' = FALSE
  /\ UNCHANGED <<queue, work, context, call, submitted, done, tokens, oneThread>>

WorkStarted(t, w) ==
  /\ CanCall(t)
  /\ w \in Works \ tokens
  /\ work' = work + 1
  /\ tokens' = tokens \cup {w}
  /\ UNCHANGED <<queue, stopped, context, call, submitted, done, oneThread>>

WorkFinished(t, w) ==
  /\ CanCall(t)
  /\ w \in tokens
  /\ work' = work - 1
  /\ tokens' = tokens \ {w}
  /\ StopIf(work - 1 = 0, t)
  /\ UNCHANGED <<queue, stopped, context, submitted, done, oneThread>>

----------------------------------------------------------------------------
(* The entry points: _Run, _Run_one, _Run_until, ..., _Poll_one.           *)

\* A scheduler built with hint 1 is used by one thread at a time.
Enter(t, m) ==
  /\ pc[t] = "out" /\ call[t] = NoOp
  /\ m \in Calls \cap Modes
  /\ oneThread => \A u \in Threads : pc[u] = "out"
  /\ StopIf(work = 0, t)
  /\ pc' = IF work = 0 THEN pc ELSE [pc EXCEPT ![t] = "lock"]
  /\ mode' = [mode EXCEPT ![t] = m]
  /\ UNCHANGED <<shared, delta, private, cur, submitted, done, tokens, oneThread>>

\* _Lock hands the private queue over before the section looks at the queue.
JoinedForgets(t) == queue    \* mutant
Joined(t) == queue \o private[t]

Section(t) ==
  /\ pc[t] = "lock" /\ call[t] = NoOp
  /\ private' = [private EXCEPT ![t] = << >>]
  /\ UNCHANGED <<work, stopped, mode, call, submitted, done, tokens, oneThread>>

\* The entry point returns: nothing to poll, or stopped.
Leave(t) ==
  /\ Section(t)
  /\ stopped \/ (mode[t] \in PollModes /\ Joined(t) = << >>)
  /\ queue' = Joined(t)
  /\ pc' = [pc EXCEPT ![t] = "out"]
  /\ UNCHANGED <<delta, cur>>

\* Time is up, on arrival or when the wait returns (even if it was notified).
TimeOut(t) ==
  /\ Section(t)
  /\ mode[t] \in TimedModes
  /\ queue' = Joined(t)
  /\ pc' = [pc EXCEPT ![t] = "out"]
  /\ UNCHANGED <<delta, cur>>

Sleep(t) ==
  /\ Section(t)
  /\ mode[t] \notin PollModes
  /\ ~stopped /\ Joined(t) = << >>
  /\ pc' = [pc EXCEPT ![t] = "wait"]
  /\ UNCHANGED <<queue, delta, cur>>

NoChain(t) == FALSE    \* mutant
Chain(t) == ~oneThread /\ Tail(Joined(t)) # << >>

MayPopAnyway(t) == Joined(t) # << >>    \* mutant
MayPop(t) == ~stopped /\ Joined(t) # << >>

\* Take the front operation; a thread that leaves some behind wakes another.
Pop(t) ==
  /\ Section(t)
  /\ MayPop(t)
  /\ queue' = Tail(Joined(t))
  /\ cur' = [cur EXCEPT ![t] = Head(Joined(t))]
  /\ delta' = [delta EXCEPT ![t] = -1]
  /\ \E woken \in Notified(Chain(t)) :
       pc' = [Wake(woken) EXCEPT ![t] = "run"]

SpuriousWake(t) ==
  /\ pc[t] = "wait"
  /\ pc' = [pc EXCEPT ![t] = "lock"]
  /\ UNCHANGED <<shared, mode, delta, private, cur, call,
                 submitted, done, tokens, oneThread>>

WaitTimeout(t) ==
  /\ pc[t] = "wait" /\ mode[t] \in TimedModes
  /\ pc' = [pc EXCEPT ![t] = "out"]
  /\ UNCHANGED <<shared, mode, delta, private, cur, call,
                 submitted, done, tokens, oneThread>>

DeltaKept(t) == delta    \* mutant
DeltaReset(t) == [delta EXCEPT ![t] = 0]

\* The function is over: apply the work delta, and stop at zero.
Finish(t, next) ==
  /\ Inside(t) /\ call[t] = NoOp
  /\ done' = done \cup {cur[t]}
  /\ cur' = [cur EXCEPT ![t] = NoOp]
  /\ work' = work + delta[t]
  /\ StopIf(delta[t] # 0 /\ work + delta[t] = 0, t)
  /\ delta' = DeltaReset(t)
  /\ pc' = [pc EXCEPT ![t] = next]
  /\ UNCHANGED <<queue, stopped, mode, private, submitted, tokens, oneThread>>

Return(t) == Finish(t, IF mode[t] \in LoopModes THEN "lock" ELSE "exit")
Throw(t)  == "throw" \in Calls /\ Finish(t, "exit")

\* The rest of ~_Context: the private queue goes back, and nobody is notified.
Exit(t) ==
  /\ pc[t] = "exit" /\ call[t] = NoOp
  /\ queue' = Joined(t)
  /\ private' = [private EXCEPT ![t] = << >>]
  /\ pc' = [pc EXCEPT ![t] = "out"]
  /\ UNCHANGED <<work, stopped, mode, delta, cur, call,
                 submitted, done, tokens, oneThread>>

----------------------------------------------------------------------------
\* What a thread does until the entry point it called returns.
Step(t) ==
  \/ Push(t) \/ RunStop(t)
  \/ Leave(t) \/ TimeOut(t) \/ Sleep(t) \/ Pop(t)
  \/ Return(t) \/ Exit(t)

Next ==
  \E t \in Threads :
    \/ \E o \in Ops : Post(t, o) \/ Defer(t, o) \/ Dispatch(t, o)
    \/ "work" \in Calls /\ \E w \in Works : WorkStarted(t, w) \/ WorkFinished(t, w)
    \/ Stop(t) \/ Restart(t)
    \/ \E m \in Modes : Enter(t, m)
    \/ SpuriousWake(t) \/ WaitTimeout(t) \/ Throw(t)
    \/ Step(t)

Spec == Init /\ [][Next]_vars

----------------------------------------------------------------------------
(* Properties.                                                             *)

FlagTypes == oneThread \in Hints /\ stopped \in BOOLEAN

DataTypes ==
  /\ queue \in Seq(Ops)
  /\ work \in Int
  /\ pc \in [Threads -> {"out", "lock", "wait", "run", "exit"}]
  /\ mode \in [Threads -> Modes]
  /\ delta \in [Threads -> Int]
  /\ private \in [Threads -> Seq(Ops)]
  /\ cur \in [Threads -> Ops \cup {NoOp}]
  /\ call \in [Threads -> Ops \cup {NoOp, StopCall}]
  /\ submitted \subseteq Ops /\ done \subseteq Ops /\ tokens \subseteq Works

Places ==
  \A t \in Threads :
    /\ cur[t] # NoOp <=> pc[t] = "run"
    /\ delta[t] # 0 => pc[t] = "run"
    /\ private[t] # << >> => pc[t] \in {"run", "lock", "exit"}
    /\ call[t] # NoOp => pc[t] # "wait"

\* The type of every variable, with the facts that go with a thread's place:
\* only a running thread has an operation and a work delta, only a thread
\* that ran one has a private queue, and no thread sleeps half way through
\* a call.
TypeOK == FlagTypes /\ DataTypes /\ Places

\* Where operation o is: the places in the queues, the half-made calls and
\* the threads running it.
Holders(o) ==
  {<<"queue", i>> : i \in {j \in DOMAIN queue : queue[j] = o}}
    \cup (UNION {{<<"private", t, i>> :
                    i \in {j \in DOMAIN private[t] : private[t][j] = o}} :
                      t \in Threads})
    \cup {<<"call", t>> : t \in {u \in Threads : call[u] = o}}
    \cup {<<"running", t>> : t \in {u \in Threads : cur[u] = o}}

\* A running operation whose unit of work was not taken over by a posted one.
KeepsCredit(t) == pc[t] = "run" /\ delta[t] = Len(private[t]) - 1

Counted ==
  tokens
    \cup Range(queue)
    \cup {call[t] : t \in {u \in Threads : call[u] \in Ops}}
    \cup (UNION {Range(private[t]) : t \in {u \in Threads : pc[u] # "run"}})
    \cup {cur[t] : t \in {u \in Threads : KeepsCredit(u)}}

\* An operation is never lost and never run twice: from its submission until
\* its function is over it is in exactly one place, and afterwards in none
\* (the splicing of private queues, scheduler.h:60 and :77, the push and the
\* pop).  And the atomic counter is exact in every state: it is the number of
\* work objects, of operations that are queued or on their way to a queue, and
\* of running operations that still own their unit, whatever deltas the threads
\* have not applied yet (scheduler.h:51, :66 and :371-386).
WorkAccounting ==
  /\ \A o \in Ops : Cardinality(Holders(o)) = IF o \in submitted \ done THEN 1 ELSE 0
  /\ work = Cardinality(Counted)

\* Nobody sleeps through a stop: every thread that would wait sees the flag
\* (scheduler.h:109-115 against the wait loops of :236 and :261).
NoSleeperWhileStopped == stopped => Sleepers = {}

\* No lost wakeup: while an operation is queued, the scheduler is not stopped
\* and somebody sleeps, some thread is on its way to the queue.  It rests on
\* notifying only when the queue was empty (:391) and on the chain of
\* notifications between the threads that pop (:244).
NoLostWakeup ==
  queue # << >> /\ ~stopped /\ Sleepers # {} =>
    \E t \in Threads : pc[t] = "lock"

\* The scheduler implements the Executor specification: an operation is
\* running from the pop to the end of its function, done from then on, and
\* waiting wherever else it is (half-made calls, queues, private queues).
StatusOf(o) ==
  IF o \notin submitted THEN "new"
  ELSE IF o \in done THEN "done"
  ELSE IF \E t \in Threads : cur[t] = o THEN "running"
  ELSE "waiting"

Promise == INSTANCE Executor WITH
  status <- [o \in Ops |-> StatusOf(o)], runner <- cur, halted <- stopped

ImplementsExecutor == Promise!Spec
=============================================================================
