---------------------------- MODULE ThreadPool ----------------------------
(***************************************************************************)
(* thread_pool (bits/thread_pool.h) and the pool behind system_executor    *)
(* (bits/system_executor.h): a Scheduler whose threads are in _Run and     *)
(* which is kept up by a unit of work of its own until it is joined or     *)
(* destroyed.  The owner and the other clients submit functions from       *)
(* outside until the owner begins to take the pool down; the functions     *)
(* themselves may submit at any time.                                      *)
(***************************************************************************)
EXTENDS Scheduler

CONSTANTS Pool,      \* the threads the pool may have; the others are clients
          Owner,     \* the client that constructs, joins and destroys it
          PoolWork   \* the unit of work held by the pool

ASSUME PoolAssumption ==
  /\ Pool \subseteq Threads
  /\ Owner \in Threads \ Pool
  /\ PoolWork \in Works
  /\ {"run", "stop", "work"} \subseteq Calls
  /\ Calls \subseteq {"run", "stop", "work", "post", "defer", "dispatch"}

VARIABLES life,     \* of each pool thread: "none", "new", "live", "ended"
          own,      \* the owner's progress, see Construct ... JoinReturns
          halted,   \* the program called stop, or destroyed the pool
          reused    \* some post took over the unit of work of its caller

poolVars == <<vars, life, own, halted, reused>>

PoolInit ==
  /\ Init
  /\ life = [t \in Pool |-> "none"]
  /\ own = "ctor"
  /\ halted = FALSE /\ reused = FALSE

\* The number of threads, at least one, is also the concurrency hint.
Construct ==
  /\ own = "ctor"
  /\ \E started \in (SUBSET Pool) \ {{}} :
       /\ oneThread = (Cardinality(started) = 1)
       /\ life' = [t \in Pool |-> IF t \in started THEN "new" ELSE "none"]
  /\ WorkStarted(Owner, PoolWork)
  /\ own' = "using"
  /\ UNCHANGED <<halted, reused>>

----------------------------------------------------------------------------
(* The threads of the pool: each runs _Run once.                           *)

StartThread(t) ==
  /\ life[t] = "new"
  /\ Enter(t, "run")
  /\ life' = [life EXCEPT ![t] = "live"]
  /\ UNCHANGED <<own, halted, reused>>

EndThread(t) ==
  /\ life[t] = "live"
  /\ pc[t] = "out" /\ call[t] = NoOp
  /\ life' = [life EXCEPT ![t] = "ended"]
  /\ UNCHANGED <<vars, own, halted, reused>>

PoolStep(t) ==
  /\ Step(t)
  /\ UNCHANGED <<life, own, halted, reused>>

Spurious(t) ==
  /\ SpuriousWake(t)
  /\ UNCHANGED <<life, own, halted, reused>>

----------------------------------------------------------------------------
(* What the program does with the pool.                                    *)

MayUse(t) == IF t \in Pool THEN Inside(t) ELSE own = "using"

Submit(t, o) ==
  /\ MayUse(t)
  /\ Post(t, o) \/ Defer(t, o) \/ Dispatch(t, o)
  /\ reused' = (reused \/ (call'[t] # NoOp /\ delta'[t] # delta[t]))
  /\ UNCHANGED <<life, own, halted>>

StopPool(t) ==
  /\ MayUse(t)
  /\ Stop(t)
  /\ halted' = TRUE
  /\ UNCHANGED <<life, own, reused>>

\* ~thread_pool stops the pool before it joins.
DestroyPool ==
  /\ own = "using"
  /\ StopNow(Owner)
  /\ own' = "dtor" /\ halted' = TRUE
  /\ UNCHANGED <<life, reused>>

JoinKeepsWork ==    \* mutant: the pool's own unit of work is never given up
  /\ own \in {"using", "dtor"}
  /\ CanCall(Owner)
  /\ own' = "joining"
  /\ UNCHANGED <<vars, life, halted, reused>>

Join ==
  /\ own \in {"using", "dtor"}
  /\ WorkFinished(Owner, PoolWork)
  /\ own' = "joining"
  /\ UNCHANGED <<life, halted, reused>>

\* ~__system_executor_impl gives up its work first, then stops and joins.
\* Its scheduler is built without a hint.
SystemGiveUp ==
  /\ own = "using" /\ ~oneThread
  /\ WorkFinished(Owner, PoolWork)
  /\ own' = "sysdtor" /\ halted' = TRUE
  /\ UNCHANGED <<life, reused>>

SystemStop ==
  /\ own = "sysdtor"
  /\ StopNow(Owner)
  /\ own' = "joining"
  /\ UNCHANGED <<life, halted, reused>>

JoinReturns ==
  /\ own = "joining" /\ call[Owner] = NoOp
  /\ \A t \in Pool : life[t] \in {"none", "ended"}
  /\ own' = "joined"
  /\ UNCHANGED <<vars, life, halted, reused>>

----------------------------------------------------------------------------
PoolNext ==
  \/ Construct
  \/ \E t \in Pool : StartThread(t) \/ EndThread(t) \/ Spurious(t)
  \/ \E t \in Threads : PoolStep(t) \/ StopPool(t) \/ \E o \in Ops : Submit(t, o)
  \/ DestroyPool \/ Join \/ SystemGiveUp \/ SystemStop \/ JoinReturns

\* Every thread that can go on does (functions return, a free mutex is
\* acquired, the system starts the threads); waking from the condition
\* variable without a notification is not relied on.
PoolFairness ==
  /\ \A t \in Pool : WF_poolVars(StartThread(t)) /\ WF_poolVars(EndThread(t))
  /\ \A t \in Threads : WF_poolVars(PoolStep(t))
  /\ WF_poolVars(SystemStop) /\ WF_poolVars(JoinReturns)

PoolSpec == PoolInit /\ [][PoolNext]_poolVars /\ PoolFairness

----------------------------------------------------------------------------
(* Properties.                                                             *)

\* The types of the pool's own variables, and who may be inside the
\* scheduler: only a live pool thread.
PoolTypeOK ==
  /\ TypeOK
  /\ life \in [Pool -> {"none", "new", "live", "ended"}]
  /\ own \in {"ctor", "using", "dtor", "sysdtor", "joining", "joined"}
  /\ halted \in BOOLEAN /\ reused \in BOOLEAN
  /\ \A t \in Threads : pc[t] # "out" => t \in Pool /\ life[t] = "live"

\* The pool does not stop by itself while its unit of work is held, however
\* the counter moves: no thread has seen it reach zero (thread_pool.h:30,
\* scheduler.h:51, :66, :105 and :131).
PoolStaysUp ==
  own = "using" /\ ~halted =>
    ~stopped /\ \A t \in Threads : call[t] # StopCall

\* join() without stop() leaves nothing undone, provided that no function
\* posts: every function submitted before the join has run when it returns.
JoinDrainsUnlessReused ==
  own = "joined" /\ ~halted /\ ~reused => submitted \subseteq done

\* What tests/thread_pool/post_void.cpp asserts after pool.join(): all that
\* was posted, the continuations posted by posted functions included, has
\* been run.
JoinDrains == own = "joined" /\ ~halted => submitted \subseteq done

\* join() returns once the functions have: no thread of the pool is left
\* asleep (scheduler.h:105 and :66 against the wait of :237).
JoinTerminates == own = "joining" ~> own = "joined"

\* While the pool is in use and not stopped, a submitted function runs.
SubmittedRuns ==
  \A o \in Ops : o \in submitted ~> (o \in done \/ own # "using" \/ halted)
=============================================================================
