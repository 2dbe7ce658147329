---------------------------- MODULE ForkJoinPool ----------------------------
(***************************************************************************)
(* The pool of examples/executor/fork_join.cpp, and its fork_executors.  A *)
(* function may fork: it makes a fork_executor, dispatches functions to it *)
(* and joins it (fork_join_sort, main).  A thread that joins is borrowed   *)
(* to execute whatever is queued, of any group, on top of the function     *)
(* that joins; so one cannot go on before those above it are through.      *)
(* Threads that have nothing to execute and threads that join all wait on  *)
(* one condition variable.                                                 *)
(*                                                                         *)
(* Functions do not throw here: out of the pool's thread or of join_guard  *)
(* an exception ends the program.                                          *)
(***************************************************************************)
EXTENDS Integers, Sequences, FiniteSets
Stacks == INSTANCE SequencesExt

CONSTANTS PoolThreads,
          Jobs,     \* functions; main's part is the one named Root
          Root,
          Forks,    \* per function: those it dispatches to a group of its own
          Delayed,  \* those that are dispatched with dispatch_after
          LoadLimit \* thread_count_ * 16

\* A function forks what nobody else forks, and what it comes from leads to main.
ASSUME ForkAssumption ==
  /\ IsFiniteSet(Jobs) /\ Root \in Jobs /\ Forks \in [Jobs -> SUBSET (Jobs \ {Root})]
  /\ \A p, q \in Jobs : p # q => Forks[p] \cap Forks[q] = {}
  /\ \A S \in SUBSET (Jobs \ {Root}) : S # {} => \E c \in S : \A p \in S : c \notin Forks[p]
  /\ "main" \notin PoolThreads

VARIABLES useCount, \* use_count_
          groupWork,\* per group: *work_count_
          jobs,     \* queue_
          nest,     \* per thread: the functions it is in, the innermost last
          idle,     \* threads that wait on condition_
          looping,  \* pool threads that have been asked to execute functions
          job,      \* what becomes of each function
          guarded   \* delayed functions whose executor_work is held

forkVars == <<useCount, groupWork, jobs, nest, idle, looping, job, guarded>>

ForkThreads == PoolThreads \cup {"main"}
Forker(c) == CHOOSE p \in Jobs : c \in Forks[p]
Innermost(t) == Stacks!Last(nest[t])

ForkStart ==
  /\ useCount = 1 /\ groupWork = [p \in Jobs |-> 0] /\ jobs = <<>>
  /\ nest = [t \in ForkThreads |-> IF t = "main" THEN <<Root>> ELSE <<>>]
  /\ idle = {} /\ looping = {} /\ job = [p \in Jobs |-> "new"] /\ guarded = {}

----------------------------------------------------------------------------
(* fork_join_pool, with mutex_ held.                                       *)

NotifyAll == idle' = {}
NotifyOne == IF idle = {} THEN UNCHANGED idle ELSE \E t \in idle : idle' = idle \ {t}

DoWorkStarted(p) ==
  /\ groupWork' = [groupWork EXCEPT ![p] = @ + 1]
  /\ useCount' = IF groupWork[p] = 0 THEN useCount + 1 ELSE useCount

DoWorkFinished(p) ==
  /\ groupWork' = [groupWork EXCEPT ![p] = @ - 1]
  /\ IF groupWork[p] = 1
     THEN useCount' = useCount - 1 /\ NotifyAll
     ELSE UNCHANGED <<useCount, idle>>

Executes(t, c) ==
  /\ nest' = [nest EXCEPT ![t] = Append(@, c)] /\ job' = [job EXCEPT ![c] = "running"]

DoPost(c) ==
  /\ jobs' = Append(jobs, c) /\ job' = [job EXCEPT ![c] = "queued"]
  /\ DoWorkStarted(Forker(c)) /\ NotifyOne
  /\ UNCHANGED nest

\* mutant: a function that is executed at once is not counted
UncountedInline(t, c) ==
  IF Len(jobs) > LoadLimit
  THEN Executes(t, c) /\ UNCHANGED <<jobs, idle, groupWork, useCount>>
  ELSE DoPost(c)
DoDispatch(t, c) ==
  IF Len(jobs) > LoadLimit
  THEN DoWorkStarted(Forker(c)) /\ Executes(t, c) /\ UNCHANGED <<jobs, idle>>
  ELSE DoPost(c)

\* One round of a loop: the next function, or a wait.
ExecuteNext(t) ==
  /\ jobs # <<>> /\ jobs' = Tail(jobs) /\ Executes(t, Head(jobs))
  /\ UNCHANGED <<useCount, groupWork, idle>>

AwaitChange(t) ==
  /\ jobs = <<>> /\ idle' = idle \cup {t}
  /\ UNCHANGED <<useCount, groupWork, jobs, nest, job>>

StopThreads == useCount' = useCount - 1 /\ NotifyAll

----------------------------------------------------------------------------
(* The pool's construction, its threads and its destruction.               *)

\* The constructor asks its threads one by one.  If one of the calls throws it
\* does as the destructor does, for those that it has asked.
Ask(w) ==
  /\ job[Root] = "new" /\ w \notin looping
  /\ looping' = looping \cup {w}
  /\ UNCHANGED <<useCount, groupWork, jobs, nest, idle, job, guarded>>

EndConstructor ==
  /\ job[Root] = "new"
  /\ job' = [job EXCEPT ![Root] = IF looping = PoolThreads THEN "running" ELSE "joined"]
  /\ UNCHANGED <<useCount, groupWork, jobs, nest, idle, looping, guarded>>

PoolThread(w) ==
  /\ w \in looping \ idle /\ nest[w] = <<>>
  /\ IF useCount > 0
     THEN (ExecuteNext(w) \/ AwaitChange(w)) /\ UNCHANGED <<looping, guarded>>
     ELSE /\ looping' = looping \ {w}
          /\ UNCHANGED <<useCount, groupWork, jobs, nest, idle, job, guarded>>

\* It joins threads_, the end of which is looping = {}.
DestroyPool ==
  /\ job[Root] = "joined" /\ nest["main"] = <<Root>>
  /\ StopThreads
  /\ job' = [job EXCEPT ![Root] = "done"] /\ nest' = [nest EXCEPT !["main"] = <<>>]
  /\ UNCHANGED <<groupWork, jobs, looping, guarded>>

----------------------------------------------------------------------------
(* A function: it forks, joins and ends.                                   *)

\* fork_executor.
OnWorkStarted(c)   == DoWorkStarted(Forker(c))
OnWorkFinished(c)  == DoWorkFinished(Forker(c))
ForkDispatch(t, c) == DoDispatch(t, c)
ForkPost(c)        == DoPost(c)
ForkDefer(c)       == ForkPost(c)
ForkJoin(t) ==
  IF groupWork[Innermost(t)] > 0
  THEN ExecuteNext(t) \/ AwaitChange(t)
  ELSE /\ job' = [job EXCEPT ![Innermost(t)] = "joined"]
       /\ UNCHANGED <<useCount, groupWork, jobs, nest, idle>>

InJob(t, stage) == t \notin idle /\ nest[t] # <<>> /\ job[Innermost(t)] = stage

\* dispatch(fork, ...), or post, or defer.
DispatchFork(t, c) ==
  /\ InJob(t, "running") /\ c \in Forks[Innermost(t)] \ Delayed /\ job[c] = "new"
  /\ ForkDispatch(t, c) \/ ForkPost(c) \/ ForkDefer(c)
  /\ UNCHANGED <<looping, guarded>>

\* dispatch_after: the wait holds work of the group, and posts the function.
DispatchAfterFork(t, c) ==
  /\ InJob(t, "running") /\ c \in Forks[Innermost(t)] \cap Delayed /\ job[c] = "new"
  /\ OnWorkStarted(c) /\ guarded' = guarded \cup {c}
  /\ job' = [job EXCEPT ![c] = "timed"]
  /\ UNCHANGED <<jobs, nest, idle, looping>>

ExpireFork(c) ==
  /\ job[c] = "timed" /\ ForkPost(c) /\ UNCHANGED <<looping, guarded>>

ReleaseFork(c) ==
  /\ c \in guarded /\ job[c] # "timed"
  /\ guarded' = guarded \ {c} /\ OnWorkFinished(c)
  /\ UNCHANGED <<jobs, nest, looping, job>>

\* The join_guard, when everything has been dispatched.
JoinFork(t) ==
  /\ InJob(t, "running") /\ \A c \in Forks[Innermost(t)] : job[c] # "new"
  /\ ForkJoin(t)
  /\ UNCHANGED <<looping, guarded>>

EndFunction(t) ==
  /\ InJob(t, "joined") /\ Innermost(t) # Root
  /\ job' = [job EXCEPT ![Innermost(t)] = "done"]
  /\ nest' = [nest EXCEPT ![t] = Stacks!Front(@)]
  /\ DoWorkFinished(Forker(Innermost(t)))
  /\ UNCHANGED <<jobs, looping, guarded>>

ForkNext ==
  \/ \E w \in PoolThreads : Ask(w) \/ PoolThread(w)
  \/ EndConstructor \/ DestroyPool
  \/ \E t \in ForkThreads :
       JoinFork(t) \/ EndFunction(t) \/ \E c \in Jobs : DispatchFork(t, c) \/ DispatchAfterFork(t, c)
  \/ \E c \in Jobs : ExpireFork(c) \/ ReleaseFork(c)

ForkSpec == ForkStart /\ [][ForkNext]_forkVars

----------------------------------------------------------------------------
(* Properties.                                                             *)

ForkTypeOK ==
  /\ useCount \in Nat /\ groupWork \in [Jobs -> Nat] /\ jobs \in Seq(Jobs)
  /\ nest \in [ForkThreads -> Seq(Jobs)] /\ idle \subseteq ForkThreads
  /\ looping \subseteq PoolThreads /\ guarded \subseteq Delayed
  /\ job \in [Jobs -> {"new", "timed", "queued", "running", "joined", "done"}]

\* join returns when every function of the group has returned, with the groups
\* it joined itself, wherever it was executed; and the threads leave when all of
\* them have (fork_join.cpp:36, 220-228).
JoinsAll ==
  /\ \A p \in Jobs : job[p] \in {"joined", "done"} /\ p # Root =>
       \A c \in Forks[p] : job[c] = "done"
  /\ job[Root] = "done" => \A p \in Jobs : job[p] \in {"new", "done"}
=============================================================================
