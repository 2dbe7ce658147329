---------------------------- MODULE MCFacilities ----------------------------
(***************************************************************************)
(* For TLC: the facilities that are built on executors, and the examples,  *)
(* in one state space.  They share nothing but the executors, whose part   *)
(* each of them models for itself; so a behaviour is of one of them, chosen*)
(* in the first state, and the others stay as they begin.  So does the heap*)
(* of the timer queue, on its own.                                         *)
(***************************************************************************)
EXTENDS Coinvoker, InvokerChain, YieldContext, AwaitContext,
        ServiceRegistry, AnyExecutor, BlockRecycler, TimedCall,
        Continuation, ForkJoinPool, Pipeline, Actors, StrandService, MCTimerHeap

CONSTANTS Budget,     \* operations on polymorphic executors
          Untyped, Second  \* continuations, of which the rest have the first signature

ASSUME BoundsAssumption ==
  Budget \in Nat /\ MaxStages \in Nat /\ MaxFunctions \in Nat \ {0, 1}

VARIABLE part

invocationVars == <<coinvokerVars, chainVars, yieldVars, awaitVars>>
resourceVars   == <<registryVars, executorVars, recyclerVars, timedVars, continuationVars, strandVars>>
exampleVars    == <<forkVars, pipeVars, actorVars, heapQueue>>
allVars        == <<part, invocationVars, resourceVars, exampleVars>>

\* The timer service uses the reactor.
TimerUsesReactor == [k \in Keys |-> IF k = "timer" THEN {"reactor"} ELSE {}]

TwoSignatures ==
  [c \in Continuations |-> IF c = Untyped THEN "any" ELSE IF c = Second THEN "s2" ELSE "s1"]

\* The first function forks three, one of them by a timer, and these fork too.
TreeOfForks ==
  [j \in Jobs |-> IF j = "r" THEN {"a", "b", "z"}
                  ELSE IF j = "a" THEN {"c", "d"} ELSE IF j = "b" THEN {"e"} ELSE {}]

FacilitiesInit ==
  /\ part \in {"coinvoker", "chain", "yield", "await", "registry", "executor", "recycler", "timed",
               "continuation", "forks", "pipeline", "actors", "strands", "heap"}
  /\ IF part = "coinvoker" THEN CoinvokerInit ELSE CoStart({0}, {"copost"})
  /\ IF part = "chain" THEN ChainStart(2 .. MaxStages) ELSE ChainStart({1}) /\ own = <<"system">>
  /\ YieldStart({"unborn"}) /\ AwaitStart({"unborn"})
  /\ RegistryInit /\ (part = "registry" \/ passes = 1)
  /\ ExecutorStart({Budget}) /\ RecyclerStart /\ TimedStart /\ ContinuationStart({Budget})
  /\ ForkStart /\ PipeStart(IF part = "pipeline" THEN 2 .. MaxFunctions ELSE {2})
  /\ ActorInit /\ StrandsStart /\ HeapInit

OnlyCoinvoker == part = "coinvoker" /\ UNCHANGED <<part, chainVars, yieldVars, awaitVars, resourceVars, exampleVars>>
OnlyChain     == part = "chain" /\ UNCHANGED <<part, coinvokerVars, yieldVars, awaitVars, resourceVars, exampleVars>>
OnlyYield     == part = "yield" /\ UNCHANGED <<part, coinvokerVars, chainVars, awaitVars, resourceVars, exampleVars>>
OnlyAwait     == part = "await" /\ UNCHANGED <<part, coinvokerVars, chainVars, yieldVars, resourceVars, exampleVars>>
OnlyRegistry  == part = "registry" /\ UNCHANGED <<part, invocationVars, executorVars, recyclerVars, timedVars, continuationVars, strandVars, exampleVars>>
OnlyExecutor  == part = "executor" /\ UNCHANGED <<part, invocationVars, registryVars, recyclerVars, timedVars, continuationVars, strandVars, exampleVars>>
OnlyRecycler  == part = "recycler" /\ UNCHANGED <<part, invocationVars, registryVars, executorVars, timedVars, continuationVars, strandVars, exampleVars>>
OnlyTimed     == part = "timed" /\ UNCHANGED <<part, invocationVars, registryVars, executorVars, recyclerVars, continuationVars, strandVars, exampleVars>>
OnlyContinuation == part = "continuation" /\ UNCHANGED <<part, invocationVars, registryVars, executorVars, recyclerVars, timedVars, strandVars, exampleVars>>
OnlyStrands   == part = "strands" /\ UNCHANGED <<part, invocationVars, registryVars, executorVars, recyclerVars, timedVars, continuationVars, exampleVars>>
OnlyForks     == part = "forks" /\ UNCHANGED <<part, invocationVars, resourceVars, pipeVars, actorVars, heapQueue>>
OnlyPipeline  == part = "pipeline" /\ UNCHANGED <<part, invocationVars, resourceVars, forkVars, actorVars, heapQueue>>
OnlyActors    == part = "actors" /\ UNCHANGED <<part, invocationVars, resourceVars, forkVars, pipeVars, heapQueue>>
OnlyHeap      == part = "heap" /\ UNCHANGED <<part, invocationVars, resourceVars, forkVars, pipeVars, actorVars>>

CoinvokerStep == OnlyCoinvoker /\ CoinvokerNext
ChainStep     == OnlyChain /\ ChainNext
YieldStep     == OnlyYield /\ YieldNext
AwaitStep     == OnlyAwait /\ AwaitNext
RegistryStep  == OnlyRegistry /\ RegistryNext
ExecutorStep  == OnlyExecutor /\ ExecutorNext
RecyclerStep  == OnlyRecycler /\ RecyclerNext
TimedStep     == OnlyTimed /\ TimedNext
ContinuationStep == OnlyContinuation /\ ContinuationNext
ForkStep      == OnlyForks /\ ForkNext
PipeStep      == OnlyPipeline /\ PipeNext
ActorStep     == OnlyActors /\ ActorNext
StrandsStep   == OnlyStrands /\ StrandsNext
HeapStep      == OnlyHeap /\ HeapNext

FacilitiesNext ==
  \/ CoinvokerStep \/ ChainStep \/ YieldStep \/ AwaitStep \/ RegistryStep \/ ExecutorStep \/ RecyclerStep
  \/ TimedStep \/ ContinuationStep \/ ForkStep \/ PipeStep \/ ActorStep \/ StrandsStep \/ HeapStep

\* Threads run on: the heads' executors run or discard what they are given, a
\* function that is called ends, and so on.  What is for a client to do, to
\* launch something, to call or drop a continuation it keeps, or to answer or
\* drop an operation, need never happen.  The examples' programs have no such
\* clients: their threads run on to the end.
ChainRuns == OnlyChain /\ ChainGoes
YieldRuns == OnlyYield /\ YieldGoes
AwaitRuns == OnlyAwait /\ AwaitGoes
TimedRuns == OnlyTimed /\ TimedGoes

FacilitiesSpec ==
  /\ FacilitiesInit /\ [][FacilitiesNext]_allVars
  /\ WF_allVars(CoinvokerStep) /\ WF_allVars(ChainRuns)
  /\ WF_allVars(YieldRuns) /\ WF_allVars(AwaitRuns) /\ WF_allVars(TimedRuns)
  /\ WF_allVars(ForkStep) /\ WF_allVars(PipeStep) /\ WF_allVars(ActorStep)

----------------------------------------------------------------------------
FacilitiesTypeOK ==
  /\ CoinvokerTypeOK /\ ChainTypeOK /\ YieldTypeOK /\ AwaitTypeOK
  /\ RegistryTypeOK /\ ExecutorTypeOK /\ RecyclerTypeOK /\ TimedTypeOK
  /\ ContinuationTypeOK /\ ForkTypeOK /\ PipeTypeOK /\ ActorTypeOK /\ StrandsTypeOK

\* A coroutine of either kind goes on once for every answer, whoever comes
\* first, and not without one (yield_context.h:132-140, 237-242,
\* await_context.h:198-228).
CoroutinesKeepPromise == YieldImplementsCoroutine /\ AwaitImplementsCoroutine

\* What has been launched comes to an end: the launch of a coinvoker returns and
\* its tail is called or dropped; a chain is through, and its loops return,
\* unless a client keeps a continuation; a coroutine whose operation has been
\* answered goes on, whatever thread answered it and when; the pool of timed
\* calls is joined; and the examples end: nobody waits for ever on the condition
\* that the fork/join pool's threads and those that join share, or on a queue of
\* the pipeline, or for a token (coinvoker.h:101-114, invoker.h:49,
\* yield_context.h:135-140, await_context.h:200-216, fork_join.cpp:107-114,
\* pipeline.cpp:131-173, actor.cpp:187-203).
Settles ==
  /\ []<>(part = "coinvoker" => tail = "freed" /\ launch \in {"returned", "thrown"})
  /\ []<>(part = "chain" /\ launched => (Over /\ up = {}) \/ \E k \in Stages : cont[k] = "client")
  /\ YieldPromise!GoesOn
  /\ AwaitPromise!GoesOn
  /\ []<>(pool # "joining")
  /\ []<>(part = "forks" => job[Root] = "done" /\ looping = {})
  /\ []<>(part = "pipeline" => maker = "left")
  /\ []<>(part = "actors" => destroyed)
=============================================================================
