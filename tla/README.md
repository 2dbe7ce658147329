# Verification of the executors library

TLA+ models, model-checking runs and proofs for the executors library in this
repository (`src/include/experimental`): executors, thread pools, strands,
channels, timers, coroutines and continuations for C++11/14. Paths below are
relative to `src/include/experimental/bits` unless they start with `src/`.

| | Modules |
|---|---|
| the code, its core | `Scheduler`, `ThreadPool` (extends it), `Strand`, `Channel`, `TimerHeap`, `Reactor` (extends it) |
| the code, what is built on executors | `Coinvoker`, `InvokerChain`, `Continuation`, `YieldContext`, `AwaitContext`, `ServiceRegistry`, `StrandService`, `AnyExecutor`, `BlockRecycler`, `TimedCall` |
| example programs | `ForkJoinPool`, `Pipeline`, `Actors` |
| what a component promises | `Executor`, `SerialQueue`, `BoundedQueue`, `PendingWaits`, `ForkJoin`, `Coroutine` |
| instances for TLC | `MC*` and the `.cfg` files; `MCFacilities` holds the second and third line together |
| theorems, checked by TLAPS | `SchedulerProofs` (with the thread pool), `StrandProofs`, `ChannelProofs`, `ReactorProofs`, `LaunchProofs` (chains, coinvokers, coroutines), `OwnershipProofs` (continuations, polymorphic executors, recycled blocks, services and timed calls), `ExampleProofs`, and `FacilitiesProofs`, which puts the last three together |

`PROJECT.json` maps each definition to the source lines it stands for, and
lists the runs, the mutants that break each property, the hazards of the code
and the theorems.

## 1. Inventory

| Component | State | Operations | Talks to | Hard behaviours | Correct when |
|---|---|---|---|---|---|
| scheduler (`scheduler.h`, `call_stack.h`, `operation.h`) | queue, atomic count of work, stopped flag, hint; per thread: private queue, work delta | post, defer, dispatch, stop, restart, work started/finished, run, run_one, run_until, run_one_until, poll, poll_one | mutex, condition variable, thread-local call stack | wakeups, count reaching zero, credit handed from a running function to a posted one, exceptions | no operation lost or run twice, count exact, nobody sleeps while there is work or after a stop |
| loop_scheduler (`loop_scheduler.h`) | a scheduler | the same, public | scheduler, execution_context | the caller's threads come and go | as the scheduler |
| thread_pool (`thread_pool.h`) | a scheduler, threads | construct, stop, join, destroy, submit | scheduler, std::thread | join against running functions | functions run; join returns, after them |
| system_executor (`system_executor.h`) | a process-wide pool | dispatch (always direct), post, defer | scheduler | teardown at exit | join at exit returns |
| executor_work, make_work | one unit of a context's work | construct, copy, move, reset, destroy | any executor | counting moves and copies once | the count is balanced |
| strand (`strand.h`) | ready flag, waiting queue, ready queue, spinlock; the service's list | dispatch, post, defer, invoker; construct, copy, move, destroy, shutdown | any inner executor, call stack | ready queue used without the lock, exceptions, nesting; strands owned by functions of strands | functions exclude each other, FIFO, none is forgotten; nothing survives the shutdown that nobody has |
| channel (`channel_base.h`, `channel.h`, `channel_void.h`) | get state, put state, waiters, buffer or count | put, get (both forms), close, cancel, reset, move, destroy | handler's executor | two state variables standing for the contents | bounded FIFO queue |
| timer queue, reactor (`timer_queue.h`, `reactor.h`, `wait_op.h`) | heap, list of active timers, ready operations, stopped flag, a thread | enqueue, cancel, move, run | timers, services | an expiry racing a cancel, heap indices, lost notification | each wait completes once, not early, not much late |
| timers (`timer.h`) | expiry, per-timer data | expires_at, wait, cancel, move | reactor | expiry changed with waits under way | cancelled waits report it |
| timed operations (`timed_invoker.h`, `*_at.h`, `*_after.h`) | a timer that travels with its function | post_at, post_after and so on | reactor, pool, timer service | the end of the pool while calls are anywhere | a join waits for them, a timer goes before its service |
| execution_context (`execution_context.h`) | list of services | use_service, make_service, has_service, shutdown, destroy, notify_fork | every service | service created without the lock | one service per key, shutdown once and in order |
| coinvoker (`coinvoker.h`) | pending count, results | set result, complete, release | invokers, executors | abandoned heads, last one wins | tail runs once, with all results |
| yield_context, await_context | suspended coroutine, result, flag or count | suspend, resume | handlers, executors | handler before, during or after the suspension | resumed once, never while running |
| executor (`executor.h`) | counted pointer to an implementation | copy, move, submit, work | any executor | reference counts, specialisation for the system | work and references balanced |
| small_block_recycler | two cached blocks per thread | allocate, deallocate | operations | size byte, blocks freed on another thread | a block is never shorter than asked for |
| promise_handler, packaged_task, use_future | promise | set, abandon | standard library | abandoned or settled promise | future always made ready, once |
| invokers, chain, continuation (`invoker.h`, `chain.h`, `continuation.h`) | a function, the work of the next one's executor; an owned callable | dispatch, post, defer of several functions; move, cast, call | any executors | a loop that returns before its function comes, exceptions, continuations kept by others | no function is stranded; one owner |
| examples: fork_join, pipeline, actor | pool and groups; queues of lines; mailboxes and handlers | fork, join; push, pop, stop; send, register, deregister | the library | one condition variable for two purposes; the end of a queue; a vector changed while it is gone through | groups are joined; lines in order; no message lost |
| traits, wrappers, tuple utilities | none at run time | – | – | compile time | – |

### Interactions

User code submits a function object through an executor (`get_executor()` of a
context, or a strand). A strand wraps functions into its own queue and submits
an *invoker* to its inner executor. `thread_pool`, `loop_scheduler` and
`system_executor` forward to a `__scheduler`, where a thread that is inside one
of the entry points pops operations and calls them. `dispatch` looks at a
thread-local call stack to tell whether the caller is inside the executor
already. Timers hand their completed waits, and channels their completed
handlers, to the handler's executor; both keep a unit of the executor's work
(`executor_work`) while they wait, which keeps `run()` from returning. A chain
of functions keeps such a unit for the function whose turn is next. Contexts own
services (the reactor, the timer service, the strand service), which outlive
the threads of a pool and are shut down and destroyed after them.

How the models are composed follows this. `ThreadPool` is the scheduler with
threads and an owner; `Reactor` is the heap with timers and a thread; `TimedCall`
puts a reactor, a pool and the end of an execution context together. Where a
component only needs an executor that runs what it is given (strands, coinvoker,
chains, coroutines), it has the most general one, which is what `Executor`
promises and the scheduler is shown to implement.

## 2. The models

### Scheduler (`Scheduler.tla`)

One step is one critical section, one change of the atomic counter, or one
change of state that belongs to a thread. So `_Post` from outside is
`CountWork` (the counter) followed by `Push` (the section), with anything in
between; a function's end is `Finish` (the counter), possibly `RunStop` (the
section of `_Stop`), then `Leave`, `Sleep`, `TimeOut` or `Pop` (the section that
begins in `_Lock`, hands over the private queue and looks at the shared one), or
`Exit` (what is left of `~_Context`). `pc[t]` names the thread's place and
`call[t]` the second half of a call.

`notify_one` wakes some sleeper if there is one and is lost otherwise;
`notify_all` wakes all; a wait may return with no reason and a timed wait may
time out at any time, also when it was notified (it then leaves without
looking, as `:263` does). Time itself is not modelled: a timed entry point may
find that time is up whenever it looks.

The program is any program: any thread outside the scheduler may submit, stop,
restart, take or give back a work object, or call an entry point, and any
function may do the same from inside, and may throw. The constant `Calls` says
which of these a configuration uses.

`dispatch` from inside runs the function as one step of the enclosing function
(what it does in turn is done by that function). A scheduler built with the hint
1 is used by one thread at a time (`Enter`): that is what the hint means.

`Executor` is what it promises: a function that was submitted begins once, in a
thread that is inside an entry point and runs nothing else, at once only if it
was dispatched, and none begins while the executor is stopped.

### Thread pool (`ThreadPool.tla`)

Extends `Scheduler` with the life of the pool's threads and the progress of the
owner: `Construct` takes the pool's unit of work and starts the threads;
`DestroyPool` (stop, then join), `Join` (gives up the unit) and `JoinReturns`
(all threads ended) are `~thread_pool` and `join`. `SystemGiveUp` and
`SystemStop` are the other order that `~__system_executor_impl` uses. Clients
submit only while the owner has not begun to take the pool down, functions at
any time.

### Strand (`Strand.tla`, `StrandService.tla`)

`Strand` extends no other module: the inner executor is the most general one,
which runs every submitted invoker once, in any thread, at once only if it was
dispatched. That covers pools, loop schedulers, the system executor and other
strands. `Accept` is the section under the spinlock; `PushReady` and `Submit`
are the unlocked second half. `stack[t]` is the call stack that
`running_in_this_thread` searches. `OnExit` is the section in the exit guard,
reached by an empty ready queue or by an exception; `Redefer` submits the
invoker again. An invoker begins on a thread that is outside every strand; a
direct call within `dispatch` is the exception, and nests. `SerialQueue` is what
a strand promises: its functions begin one at a time, in the order accepted.

`StrandService` is about who owns a strand's implementation: the strands that
are copies of each other, functions that a strand keeps and that own strands
(perhaps that one), and the invoker. The service links all implementations
(`nextImpl`, `prevImpl`, `firstImpl` as in the code); its shutdown takes the
functions of each under the mutex and destroys them after it has released it,
which may destroy further implementations, whose destructors take the mutex.

### Channel (`Channel.tla`)

A call is one step: the class has no lock and its completions are posted, so
no user code runs within a call. `Put...` and `Get...` have one action per case
of the switch statements; the form that fails (`put(u, ec)`) and the form that
waits (`_Start_put`) differ only in the case `block`. A value is named by the
put that brought it. `undefined` records `front()` of an empty container, or a
counter that went below zero. `reset`, `cancel` and a move are modelled as they
are; `Harm` names the three calls after which the two states no longer tell the
contents (section 5), and the properties of a channel hold up to such a call.

`channel<void>` is the same machine over a counter, `buffered`, and its own
switch statements: the `Void...` actions. `void` says which of the two all
channels of a behaviour are. The buffer stays in the record of a
`channel<void>` only to say which put a get is answered by, so that both
classes are shown to implement the one `BoundedQueue`; no guard reads it there
except where a waiting put or a token must exist, and the theorem
`ChannelStatesMatch` rests on the count being its length.

### Timers (`TimerHeap.tla`, `Reactor.tla`, `TimedCall.tla`)

`TimerHeap` has the heap's operators: an array of entries and each timer's
index into it. `MCTimerHeap` drives it alone, because the cases that are easy
to get wrong need more entries than the whole system could have. `Reactor`
extends it with the list of active timers (`next`, `prev`, `first`, as in the
code), the timer objects, the thread's loop, a clock, and the end of the
execution context. What a timer does under the reactor's mutex is one step. So
is a round of the loop: `Run` looks at the flag and the clock, takes what is
due and goes on to complete an operation (`Complete`, without the mutex) or to
sleep; `Relock` is the inner loop, which looks at neither. A notification
reaches the thread only if it is asleep. `sleep` is the time left of
`wait_for`, at most `MaxWait` (a minute); a sleep may also end for no reason.

The clock stops at `MaxTime`, which stands for all later times. Data of a
removed timer are kept as the code keeps them: a heap index is not reset. A
move may let that index, or the links a move leaves in its source, reach
another timer's state; `MoveHarm` names these moves and `harm` records them.
The model goes on after those in `Followed` only. `operator=` is one step
although it takes the mutex twice: with a `Cancel` of its own before, in any
interleaving, it is the same. `PendingWaits` is what timers promise: a wait ends
once, as was decided first, not before its expiry, and in the order of expiry.

`TimedCall` follows one function of `post_after` and its kin: from the wait in
its timer, over the reactor's thread, which completes it outside the mutex, to
the pool's queue and a thread of the pool; the timer goes wherever the function
goes. The pool's end runs beside it in the code's order: threads, scheduler,
services' shutdown, timer service, reactor. A function that the reactor's thread
posts to a scheduler that has been destroyed already is "lost" (section 5).

### Calls of several functions (`Coinvoker.tla`, `InvokerChain.tla`, `Continuation.tla`)

`Coinvoker`: the launcher makes the heads, sets the counter, hands the heads
over one by one, and may fail at any of them; a head ends with a value (two
steps: the value, then the counter) or by being destroyed, on any thread, inside
the hand-over too. The tail is deleted by whoever brings the counter, of `Wrap`
values, to zero. `incomplete` records a tail called without all values
(section 5); `ForkJoin` is the promise, up to that.

`InvokerChain`: a chain of functions over loops, the system executor and a
promise. `own` gives each its executor, `kind` says whether it is plain or takes
a continuation, which it may call, keep (another thread then calls or drops it)
or drop. `stack[t]` is the stack of invokers of a thread, `up` the loops that
have not returned: a loop returns when nothing is queued and no work is held.

`Continuation`: variables and the objects they own; every constructor,
assignment, cast and call of the polymorphic continuation, to itself too.
`steps` bounds the operations of one behaviour.

### Coroutines (`YieldContext.tla`, `AwaitContext.tla`)

`YieldContext`: the coroutine calls an operation and is asked for its result;
the handler stores the result and takes part in the `test_and_set`; who comes
second goes on. `inside` is the thread on the coroutine's stack, `leaving` those
that have switched away from it and still hold its spin lock, so that a resumed
coroutine cannot be entered before it has been left. `AwaitContext`: the function
is called again for each step and jumps to `point`; the count `invocations`
tells a handler whether the function is being run, and the thread that runs it to
go round again. `todo` is what is left to do of an await expression, whose two
parts C++ may evaluate in either order. Both may lose an operation unanswered,
which destroys the coroutine if nothing else keeps it.

`Coroutine` is the promise of both: a coroutine goes on once for every answer,
and not without one.

### Sharing and keeping (`ServiceRegistry.tla`, `AnyExecutor.tla`, `BlockRecycler.tla`)

`ServiceRegistry`: calls of several threads, each a stack of frames, since a
constructor may use other services. `Call`, `Look` and `Register` are the
sections under the mutex, with the construction (`Construct`, or `CreationFails`)
between the last two. The list is a sequence and the pointer a call has read is
the length it had. `NotifyFork` and `Tell`, `ShutdownContext` and `ShutdownStep`,
`DestroyContext` and `DestroyStep` are the calls that go through the list, one
service a step. A context may go through the shutdown twice (its own and that of
a derived class), and a service's shutdown may make further services.

`AnyExecutor`: polymorphic executors and work objects made of them, which point
to counted objects or to one of the two shared ones; an assignment clones before
it destroys, in two steps (`old`). A function that is submitted gets a block,
which goes when it has been called or destroyed.

`BlockRecycler`: the two kept blocks of each thread, the byte that carries the
capacity (0 when it does not fit), and objects whose construction may throw.

### Examples (`ForkJoinPool.tla`, `Pipeline.tla`, `Actors.tla`)

`ForkJoinPool` is `fork_join.cpp`: a tree of functions (`Forks`) that fork groups
and join them, threads borrowed by a join (`nest`), one condition variable for
idle threads and joins, functions that a timer starts (`Delayed`), and functions
executed at once when enough are queued. `Pipeline` is `pipeline.cpp`: queues of
lines between functions on threads of their own or a pool (`Pooled`), with their
stops, the bag that joins threads at exit and the future `main` waits on.
`Actors` is `actor.cpp`: mailboxes on strands, the loop over `handlers_`, which
handlers change under it (`wild` records a read where the vector is no more),
and a ring of members that pass tokens on.

### MCFacilities

These modules share nothing but executors, whose part each models for itself,
and each is small. `MCFacilities` therefore checks them as a sum: `part`, chosen
in the first state, says which of the fourteen parts (the thirteen modules and the
heap of `TimerHeap`) the behaviour is of, and the others keep their first state. Each part has
all its interleavings; interleavings between parts would say nothing about either.

## 3. Runs

Times are of two workers.

| Run | Instance | States | Time | Question |
|---|---|---|---|---|
| `scheduler` | 3 threads, 3 operations, 1 work object, every call, both hints | 700 000 | 90 s | the scheduler in full, any use |
| `thread_pool` | 1 or 2 pool threads, owner, client, 3 functions | 28 000 | 10 s | the pool from construction to join, with fairness |
| `strand` | 2 threads, 2 strands, 4 functions, exceptions, nesting | 83 000 | 20 s | exclusion, FIFO order, nobody forgotten |
| `channel` | 2 channels of values, capacity 0, 1 or 2, or of void, capacity 0 or 2; 3 puts, 2 gets | 819 000 | 120 s | the two states against the contents |
| `reactor` | 3 timers, 3 waits, 2 instants, every operation | 339 000 | 75 s | heap, list, sleep and promise |
| `reactor_live` | 2 timers, 2 waits, 3 instants, sleeps of one | 90 000 | 60 s | do waits and the destructor end? |
| `facilities` | the fourteen parts of `MCFacilities`, bounds in `Facilities.cfg` | 291 000 | 75 s | is what each counts, shares, owns and hands on exact, and does it end? |
| `reactor_move` | 3 timers, 2 waits, what follows a harmful move | – | | is every expiry attended to? No |
| `thread_pool_join_drains` | 2 pool threads, owner, 3 functions that post | – | | does join drain? No |
| `scheduler_defer` | 2 threads, 2 operations | – | | is a deferred function picked up? Not always |
| `coinvoker_values` | 3 heads | – | | has every head a value when the tail is called? No |
| `actor_deregisters` | a ring of 2 | – | | is a deregistered handler gone? No |

The last five end with the behaviour that answers the question (section 5).

### Why the bounds are enough

A lost wakeup needs a sleeper, a thread that leaves work behind and an operation:
two threads and two operations; a third of each lets one be woken for the wrong
reason. The credit that a running function hands on needs a function that posts
twice and a thread that runs the first one. Two strands are the least that nest,
two functions of one and two of the other the least in which the invoker of each
finds the waiting queue non-empty. Three puts fill a buffer of capacity two and
leave one waiting, or one buffered and two waiting. A move that harms needs three
timers: its source, its target and the timer whose state is overwritten; three
timers are also the fewest with one in the middle of the list. In `reactor_live`
a sleep is shorter than the time to an expiry, so that a wait needs several.

In `facilities`: six entries are the fewest of a heap in which the entry that
fills a gap must move up. Three heads let one be dropped, one hold its value and
one be handed over late. Three functions of a chain hand over twice, and the
second time with the frame of the first hand-over still on the stack. A coroutine
with two operations is answered while it leaves the first. Three calls of a
registry with a timer service that uses the reactor make two threads construct
both. Three variables are enough to copy, move and assign while a third one keeps
the object. Of three sizes one fits no byte. Three timed calls are in the timer,
in the pool and with a thread at the same time. Six forks on two threads borrow
both threads for other functions, and `LoadLimit` makes some run at once. Four functions
of a pipeline use each overload, on threads and on a pool. A ring of three passes
a token back. Three implementations of strands are the fewest with one in the
middle of the list.

Threads, operations, channels, puts, gets, timers and waits are symmetric in the
runs `scheduler`, `channel`, `reactor` and `reactor_move`, which check no
liveness. Deadlock is not checked: every program modelled may come to its end,
and what must not stop for ever is said by the liveness properties.

### What the properties say

- `scheduler`. `WorkAccounting`: an operation is in exactly one place until it is
  done, and the counter is the number of those places that hold a unit of work,
  whoever has which delta pending. `NoSleeperWhileStopped`. `ImplementsExecutor`:
  a function runs once, in a thread that is inside and runs nothing else, never
  from post or defer, and none starts while stopped.
- `thread_pool`. `NoLostWakeup`, `PoolStaysUp`, `JoinTerminates`, `SubmittedRuns`:
  sleeping, waking and stopping. `JoinDrainsUnlessReused`: what join guarantees
  (compare the finding).
- `strand`. `MutualExclusion`, `ImplementsSerialQueue`, `AcceptedRuns`. `OneInvoker`
  is the reason for them: the ready flag is set exactly while one call, queued
  invoker or running invoker owns the ready queue.
- `channel`. `StatesMatchContents`, `NobodyWaitsInVain`, `DefinedUnlessReset`,
  `ImplementsBoundedQueue`, of both classes.
- `reactor`. `QueueIsExact`, `DefinedUnlessMoved`: heap and list hold exactly the
  timers that somebody waits for, in order, and nothing that was destroyed.
  `OnTimeUnlessMoved`: the reactor's thread is told only of a wait that is first,
  and never sleeps past an expiry (compare the finding).
  `ImplementsPendingWaits`: a wait ends once, as was decided first.
- `reactor_live`. `WaitsAndShutdownEnd`.
- `facilities`, calls of several functions. `PendingCountsHeads` and
  `ImplementsForkJoin`: the tail of a coinvoker. `ChainSound`: no function of a
  chain is stranded by a loop that returned before it came, and the promise is
  settled once. `OwnedOnce`: who owns what a continuation holds.
- Coroutines. `ResumedOnlySuspended`, `AwaitSound`, `CoroutinesKeepPromise`: one
  thread at a time, values where they belong, one resumption per answer.
- Sharing and keeping. `ServicesKept`: one service of a type, told, shut down and
  destroyed in order. `SharesExact`: counts of polymorphic executors and of their work.
  `BlockFits`. `TimedCallsKept`: a join waits for timed calls, and timers go before
  their service. `StrandsListed`: every implementation is in the service's list
  while it lives. `HeapKept`: order, indices and one entry per change.
- Examples. `JoinsAll`, `LinesInOrder`, `TokensKept`.
- `Settles`: whatever of these was begun comes to an end.

### Fairness

`ThreadPool`: weak fairness of what each thread does once it is inside
(`PoolStep`), of starting and ending threads, and of the owner's last steps. It
says that functions return, that the mutex is acquired sooner or later and that
the system runs every thread. Nothing is assumed of spurious wakeups, of
submission, or of the owner deciding to join. `Strand`: weak fairness of each
thread's own steps and of the inner executor taking up a queued invoker; the
scheduler's `SubmittedRuns` is what justifies the latter. `Reactor`: weak
fairness of the thread's steps, except for waking for no reason, of the clock,
and of `~__reactor` once the context has begun to end (the destructor of
`execution_context` goes on by itself). Nothing is assumed of users.

`FacilitiesSpec`: weak fairness of the steps of a coinvoker's heads and launcher
(`CoinvokerStep`), of the threads that run a chain (`ChainRuns`), of those that
run a coroutine, leave it or have come to resume it (`YieldRuns`, `AwaitRuns`),
of the reactor's and the pool's threads and of a join that has begun
(`TimedRuns`), and of the example programs, which have no users.
It is fairness of each part as a whole, so that it assumes only that some thread of the part goes on.
Not assumed: that anybody launches a chain, answers an operation, drops one, or calls
or drops a continuation that it keeps. The registry, the polymorphic executors,
the recycler, the continuations, the strands' service and the heap have no
fairness and no liveness property.

## 4. Proofs

TLAPS proves the following for every value of the constants.

**Scheduler** (`SchedulerProofs`). `TypeOK` is inductive because of its third
part, `Places`, which ties the thread-local variables to `pc` (`TypeCorrect`).
`NoSleeperWhileStopped` needs it: a thread goes to sleep only in the section in
which it saw the flag clear (`NobodySleepsThroughStop`). `NoLostWakeup` holds
only under the named assumption `LoopOnly` (no timed entry points, no `run_one`
or `poll_one`, nothing that throws), the others leaving operations behind without
telling anybody (section 5): its invariant adds that threads inside use loops
only, and that a scheduler of one thread has at most one inside, which is why that
one need not chain notifications (`WakeupsNotLost`). That an operation is in one
place (`OnePlace`) gives `SchedulerIsExecutor`, the refinement of `Executor`; with
what each thread's delta may be (`DeltaShape`) it gives the exact count
(`CountExact`) and `WorkIsExact`.

**Thread pool** (`SchedulerProofs`). `PoolIsScheduler`: each step of a pool is a
step of the scheduler or leaves it alone, so that its theorems hold;
`PoolLosesNoWakeup` follows, pools being `LoopOnly`. `PoolTypeCorrect` adds that
only live threads are inside; `PoolIsUp` (invariant `Up`) that the pool's own unit
keeps the count above zero; `JoinIsComplete` (`Drained`) that threads end only
when nothing is left.

**Strand** (`StrandProofs`). `MutualExclusion` is not inductive: nothing in it
stops a second invoker from starting. `RightsInv` has three parts: `OneRight`,
that of the queued invokers, calls under way and stack frames of an invoker at
most one exists per strand; `ClearMeansNone`, that there is none while the flag
is clear; and `StackOrder`, that below a directly called function there is a
frame of its strand, so that it runs in the thread that holds the right
(`FunctionsExcludeEachOther`). `MannedInv` adds that there is one while the flag
is set (`ReadyMeansOneInvoker`), and `Seen`, that what was accepted is what is
queued in order after what has begun, gives `StrandIsSerialQueue`.

**Channel** (`ChannelProofs`). `ChannelInv` says of each channel's record what its two
states tell (`GetTells`, `PutTells`, `Filled`, `RoomTold`, `ClosingTold`), of the calls
that each is in one place (`Told`, `Apart`, `Once`), and of what is undefined that
a reset came before (`TakenAfterReset`). The proof has a lemma for each change of
a record, for each call, and for each way the queues of waiters change.
`ChannelTypeCorrect`, `ChannelStatesMatch`, `ChannelNobodyWaits` and
`ChannelDefined` follow, for any number of channels, of either class, and any capacities.
`ChannelIsBoundedQueue` is the refinement of `BoundedQueue`: until a harmful call, which
is itself a step of the queue still, the record of a channel tells what its queue holds
(`View`), a change of the record is one of the queue (`Gains`, `Gives`, `Asks`,
`Answers`), and so every put, get, close, cancel, reset and move does what the contents
say. The case a test would hardly reach, a get from a full buffer whose place a waiting
put takes, rests on `MovingUp`, about two sequences behind each other.

**Timers** (`ReactorProofs`). The invariant is `Exact` of the timer queue with two
parts more, all three until a move does harm: who is waited for is there
(`AwaitedLive`), and the thread's sleep (`Punctual`). `Exact` adds to `QueueIsExact`
that the list is linked both ways (`Linear`) and that a timer without expiry that
is waited for has no index, without which a move of it could take another's entry.
The heap is proved about as an array of times: `_Up_heap` and `_Down_heap` run on one
that is right but for one place (`NotUp`, `NotDown`), and each turn leaves such a
one (`UpStep`, `DownStep`); an entry taken from the middle leaves one or the
other, which is the test in `_Remove_timer` (`GapUp`, `GapDown`). Each operation of
the queue keeps `Exact` (`PushedIs`, `OutOfHeapIs`, `LinkedIs`, `UnlinkedIs`,
`MovedIs`, `ExpireIs`). `QueuesAreExact` follows; `ReactorIsOnTime`, because a wait that
the reactor is not told of leaves a first entry that was there when it went
to sleep (`WaitKeeps`); and `TimersAreDefined`.
`TimersKeepPromise` is the refinement of `PendingWaits`: users see a live timer's
expiry and its waits (`SeenTimers`), and the wait that is being completed in front of
the ready ones (`DecidedWaits`). It needs one invariant more, that a wait is in one
place (`Once`), since the end of the context destroys exactly those that are
somewhere. `AWaitEndsOnce` rests on it too: a wait that was told, canceled or destroyed
is never begun, told or destroyed again. A run of the thread is one step of `PendingWaits`, which
asks for a sequence of all timers that have expired, the earlier ones first: what the
loop has taken so far is such a sequence (`Ran`, kept by each turn in `RanMore`), and at
its end none that is due is left (`AllRun`). `SequenceOfSet` and `Flat` say so in
the words of `SetToSeqs` and `FlattenSeq`.

**Timed calls** (`OwnershipProofs`). `TimersServed`: where the pool's end has come to
(`Stages`) bounds where a call may be (`CompletesOne`, `Timers`), so that a join
waits for all of them and no timer outlives its service.

**Services** (`OwnershipProofs`). `ServicesAreKept`. That a duplicate is found under the
lock is an invariant of the calls on their way (`CallsLook`): one that is about to make a service
has seen none of its type from where it looked on, and the list only
grows in front of that; what its constructor asked for is there, or is being
made in the call above it. With `UsedAreOlder` the order of the list follows,
and with `ShutInOrder`, `PhasesInOrder` and `NoticeGoes`, which say how far a pass
through the list has come, the order in which services are told of a fork, of
the shutdown, and of the end.
`StrandsAreListed`: there is an order in which the implementations of strands are
linked, both ways (`Chained`), which taking one out from wherever it is and putting
one in front keep; the shutdown has emptied those it has passed (`Passed`), and after it
all are empty (`ShutDown`), so that a strand is owned by a variable or by nothing.

**Chains** (`LaunchProofs`). `ChainsAreSound`. The chain goes on from one place only,
the last that it has come to, and all that comes after it is held
(`Frontier`, `Beyond`); a place is a function's frame on a stack, the item that is handed over,
or a continuation that a function keeps (`FrameShape`, `OneFrame`, `ItemShape`,
`ContShape`). The induction over the chain's stages is over its minimal
counterexample (see below).

**Coinvoker** (`LaunchProofs`). `TailFreedByLast`: the counter is the number of
heads that point to the tail, from the moment it is set. Before, the tail is the
launcher's (`Owner`, `Primed`); the launcher hands over in order (`HandsInOrder`); and the
values there are are those of the heads that have set one (`Values`). With the last two,
`CoinvokerIsForkJoin`, the refinement of `ForkJoin`: each head's end is a step
`End` unless it leads to the failing assertion, and all else is a stutter.

**Coroutines** (`LaunchProofs`). `EnteredBySuspension` and `AwaitIsSound`; the
invariants tie the thread on the coroutine's stack, the flag or count, and the
answers on their way (`YieldInv`: `YieldShape`, `HandlerShape`, `ReadyShape`, `InsideShape`, `ResultShape`;
`AwaitInv`: `CountShape`, `WaitShape`, `ValueShape`). From them
`YieldKeepsPromise` and `AwaitKeepsPromise`, which are the two halves of
`CoroutinesKeepPromise`.

**Ownership** (`OwnershipProofs`). `BlocksFit`: a block in use holds its object
(`InUse`), a kept one is idle and its byte exact (`KeptIdle`), and it is kept once
(`KeptOnce`). `OwnersAreUnique`: `OwnedOnce` with the types is inductive, because an
operation either takes over what another variable owned or resets one
(`TakeKeepsOwners`, `ResetKeepsOwners`). `CountsAreExact`: that counts are the
holders' pointers (`References`) is kept because every operation is made of creating, cloning and
destroying one object (`Created`, `Cloned`, `Destroyed`) and of moving one or two pointers
(`OneMoves`, `PointersMove`); with it, that units of work are the holders that
own some (`WorkCounts`, `OwnersLive`), since what a holder points to keeps its target, and that blocks are those of
functions under way (`Blocked`). The counts need the holders to be finitely many.

**Fork and join** (`ExampleProofs`). `ForksAreJoined`: a group's count is the
number of its functions that are queued or on a stack, wherever, and of waits
that hold work (`GroupsCount`), each being in one place (`QueuedOnce`, `NestedOnce`); and only
what has not joined has active functions in its group (`ForkersRun`), so that an
active function would lead back to main's, which has ended.

**The pipeline** (`ExampleProofs`). `LinesStayInOrder`: a line that is moved is put
behind all that is at the next function (`MovedIsThere`), one that is kept is taken
from the front (`TakenIsThere`), over sequences behind each other
(`MoveKeepsOrder`, `TakeKeepsOrder`); and before a function that has returned
there is nothing any more, since a queue is stopped only when the one that fills
it has ended (`Drying`), which is why nothing is on its way when the future is ready.

**The actors** (`ExampleProofs`). `TokensAreKept`, for rings of any size. A member is
at one of four stages (`MemberKept`): not addressed yet, its address waiting in front
of all tokens, learning it, or passing tokens on with both handlers there (section 5);
so a token finds one handler, in the part of the vector that the loop goes through. What a
strand is given and gives changes the sum by one token or none (`AppendCounts`,
`TailCounts`); and a vector is reallocated only by a handler that its loop ends
with, and main leaves only after all tokens came back.

**The facilities together** (`FacilitiesProofs`). A step of `FacilitiesSpec` is a step
of one part and a stutter of every other (`PartsStep`), and every part starts as it may on its
own (`PartsStart`); so `FacilitiesSpec` implies each part's specification, and what is proved
of the parts holds of the whole that the run checks (`FacilitiesAreSound`).
`FacilitiesKeepPromises` puts the two refinements of `Coroutine` together, and
`FacilitiesTypeCorrect` the types. Most of these come with the invariants above; the
others need what those do not say: `use_count_` of the fork/join pool is the number of groups
with work, and one more until main goes (`UseCounts`), so that it is never negative; no strand of an
actor has more to run than there are tokens and one address (`StrandsAreShort`); what a
strand keeps or destroys was offered to it (`KeptWasOffered`); and the stage of
every item and frame of a chain is one of its functions (`ItemTyped`).

The only assumptions are the modules' named `ASSUME`s: that the special values
are not operations, threads or queues, that there are more values of the counter than
heads, that holders of executors are finitely many, that services use services and
calls are numbered (`UsesAssumption`), that the memory for strands is finite
(`StrandImplsAssumption`), that functions are finitely many and forked once, by what
leads back to main's (`ForkAssumption`), that functions and lines of a pipeline
are numbers (`PipelineAssumption`), as are members and the value of tokens
(`ActorsAssumption`), that the latest time and the longest sleep are numbers and
the null pointer is no timer, wait or completed wait and no value of a timer that is
there (`ReactorAssumption`), that the bounds of `MCFacilities` are numbers and its pipelines have
two functions or more (`BoundsAssumption`), and that the constants of a pool say what it means (`Owner` outside `Pool`, the calls a pool makes). TLC evaluates them in every run.

Only model-checked: liveness (`JoinTerminates`, `SubmittedRuns`, `AcceptedRuns`,
`WaitsAndShutdownEnd`, `Settles`), which is out of the prover's reach, as
`ENABLED` is; and `HeapKept`, the heap on its own, although what it says of the
order and the indices is proved of the reactor's heap with `QueuesAreExact`.

A loop of the code is a function of the number of its turns (`UpHeap`, `Expire`). What
it ends with is proved from what one turn keeps and from a measure that a turn lessens
(`LoopEnds`). The provers cannot instantiate the library's induction theorems, which take an
operator. Where a proof needs induction over numbers it takes the least
counterexample instead (`LeastNatural`, from the library's well-founded order of
the naturals), which is a statement about a set.

## 5. What the code does differently

With a run that shows it:

- **join() may return early** (`thread_pool_join_drains`). A function that
  posts gives its own unit of work to the operation it posts (`scheduler.h:379`). After
  `join()` gave up the pool's unit, another thread may run that operation and bring
  the count to zero while the first function is still running; what it posts
  then is queued in a stopped scheduler, and `join()` returns without it.
  `JoinDrainsUnlessReused` shows that this is the only way.
- **A deferred function may be left lying** (`scheduler_defer`).
  `~_Context` puts the private queue back without a notification
  (`scheduler.h:55-61`): after `run_one` a deferred function stays queued while
  another thread sleeps in `run`. A timed wait that was notified and timed out
  has the same effect (`:263`).
- **A move loses another timer's wait** (`reactor_move`). A timer keeps its heap
  index when it is removed (`timer_queue.h:225-256`). If it is moved later,
  `_Move_timer` (`:73-76`) makes the entry that now has this index point to the
  target. When that entry is due the reactor takes the target's waits and
  drops the entry; the timer it belonged to is never looked at again.
- **A tail is called without all values** (`coinvoker_values`). A head that was
  dropped counts down like one that completed; if another one ends last, the tail
  is called, and the assertion of `_Get_value` fails (`coinvoker.h:58`).
- **A handler is never deregistered** (`actor_deregisters`). `deregister_handler`
  compares `message_id()` with the type of the handler, and `message_id()` is the
  type of the message (`src/src/examples/executor/actor.cpp:56-59`, `:120-127`).

Modelled and named, but contradicted by no document of the repository:

- **A moved timer keeps its links** (`MoveHarm`, "links"). `_Move_timer` leaves
  `_M_next` and `_M_prev` of the source: a source that was not first in the list
  looks active, so what is waited for on it is not in the heap, and its
  destruction takes the target out of the list. The model does not follow these moves.
- **Channel states that do not survive** (`Harm`): a cancel with gets waiting on a
  channel of positive capacity forgets the capacity until the next get; a
  cancel with puts waiting on a closed channel makes later gets wait for ever; a
  reset that drops values leaves the get state as if they were there, and the next get
  takes the front of an empty container, or a counter below zero.
- **An answer that comes before the await expression has said where its value
  goes** is stored through the pointer of an earlier await, or through none
  (`await_context.h:97`).
- **A function that a coroutine's operation calls throws**: the exception is left
  where the coroutine would find it, but nothing resumes the coroutine
  (`exception_ptr_executor.h:35`).
- **Functions for a scheduler that is gone**: the reactor outlives the pool's scheduler, and
  posts to it what it completes meanwhile (`reactor.h:111`; "lost" in `TimedCall`).
- **A strand that outlives its context** uses the mutex of a service that is gone
  (`strand.h:118`).
- **Services made during a shutdown pass** are shut down only by a second pass, if
  there is one, and the duplicate of a service is deleted under the mutex
  (`execution_context.h:181`).
- **The vector of an actor's handlers** is gone through while handlers register
  others (`actor.cpp:157`); in the example nothing is
  read that is gone (`wild`, part of `TokensKept`).

Seen while reading, with no effect that a model could show: the specialisation for
`system_executor` calls `on_work_started` where work is finished (`executor.h:235`),
both being empty; `__continuation_chain` dereferences a head without looking
(`continuation.h:233`).

## 6. Not modelled

- Compile-time machinery (traits, wrappers, tuple utilities, the types that `chain`
  computes) and the C++ standard library, of which the mutex, the condition
  variable, the atomic counter, the promise and the thread are modelled by what
  the code relies on. `boost::coroutines` likewise.
- Scheduler: an entry point called from a function of the same scheduler, the
  destruction of operations left in the queue, allocation, the numbers that `run`
  and `poll` return. Pool: no threads (`thread_pool(0)`, or a default constructed
  pool where `hardware_concurrency()` is zero, never runs anything), a `join` by
  several threads, functions that throw, which end the program.
- Strand: an invoker that runs in one context while the service of another shuts
  down; each is modelled on its own.
- Channel: the service's list; several threads, the class having no lock; the use
  of a channel that was moved from other than to assign or destroy it; assignment to itself.
- Timers: several clocks (one queue each), the blocking `wait`, which only sleeps,
  `__safe_subtract`, and the assignment of a timer to itself.
- Coroutines: copies of a `yield_context` used at the same time, coroutine objects
  nested deeper than one level. Coinvoker: the tuple of results beyond whether each is there.
- `packaged_task`'s constructors, which forward; the queries of the polymorphic
  executor (`target`, comparison).
- Examples: what throws there ends the program; spurious wakeups, since the loops
  that wait look again; and the examples other than `fork_join.cpp`,
  `pipeline.cpp` and `actor.cpp`, which are clients of the library with no state
  of their own that could go wrong under its interleavings (bank accounts guarded by a
  strand, a trading simulation, a priority scheduler, sorting).

Liveness holds under the fairness of section 3 and for the bounds there. The
invariants of the reactor are checked up to a harmful move and not after it.
