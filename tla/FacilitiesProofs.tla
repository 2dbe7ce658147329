--------------------------- MODULE FacilitiesProofs ---------------------------
(***************************************************************************)
(* The facilities and the examples together: what is proved of each of them*)
(* on its own holds in the state space they share.  A step of the whole is *)
(* a step of one part, and every other part stutters; so the whole         *)
(* implements each part's specification, whose theorems are in             *)
(* LaunchProofs, OwnershipProofs and ExampleProofs.                        *)
(***************************************************************************)
EXTENDS MCFacilities, LaunchProofs, OwnershipProofs, ExampleProofs

----------------------------------------------------------------------------
(* Every part takes a step of its own, or stutters.                        *)

InvocationSteps ==
  /\ [CoinvokerNext]_coinvokerVars /\ [ChainNext]_chainVars
  /\ [YieldNext]_yieldVars /\ [AwaitNext]_awaitVars
ResourceSteps ==
  /\ [RegistryNext]_registryVars /\ [ExecutorNext]_executorVars /\ [RecyclerNext]_recyclerVars
  /\ [TimedNext]_timedVars /\ [ContinuationNext]_continuationVars /\ [StrandsNext]_strandVars
ExampleSteps == [ForkNext]_forkVars /\ [PipeNext]_pipeVars /\ [ActorNext]_actorVars

LEMMA InvocationsRest == UNCHANGED invocationVars => InvocationSteps
BY DEF invocationVars, InvocationSteps

LEMMA ResourcesRest == UNCHANGED resourceVars => ResourceSteps
BY DEF resourceVars, ResourceSteps

LEMMA ExamplesRest == UNCHANGED exampleVars => ExampleSteps
BY DEF exampleVars, ExampleSteps

LEMMA PartsStep ==
  ASSUME [FacilitiesNext]_allVars
  PROVE  InvocationSteps /\ ResourceSteps /\ ExampleSteps
<1>1. CASE UNCHANGED allVars
  <2>1. UNCHANGED invocationVars /\ UNCHANGED resourceVars /\ UNCHANGED exampleVars BY <1>1 DEF allVars
  <2> QED BY <2>1, InvocationsRest, ResourcesRest, ExamplesRest
<1>2. CASE CoinvokerStep \/ ChainStep \/ YieldStep \/ AwaitStep
  <2>1. UNCHANGED resourceVars /\ UNCHANGED exampleVars
    BY <1>2 DEF CoinvokerStep, ChainStep, YieldStep, AwaitStep, OnlyCoinvoker, OnlyChain, OnlyYield, OnlyAwait
  <2>2. InvocationSteps
    BY <1>2 DEF CoinvokerStep, ChainStep, YieldStep, AwaitStep, OnlyCoinvoker, OnlyChain, OnlyYield, OnlyAwait,
                InvocationSteps
  <2> QED BY <2>1, <2>2, ResourcesRest, ExamplesRest
<1>3. CASE RegistryStep \/ ExecutorStep \/ RecyclerStep
  <2>1. UNCHANGED invocationVars /\ UNCHANGED exampleVars
    BY <1>3 DEF RegistryStep, ExecutorStep, RecyclerStep, OnlyRegistry, OnlyExecutor, OnlyRecycler
  <2>2. ResourceSteps
    BY <1>3 DEF RegistryStep, ExecutorStep, RecyclerStep, OnlyRegistry, OnlyExecutor, OnlyRecycler, ResourceSteps
  <2> QED BY <2>1, <2>2, InvocationsRest, ExamplesRest
<1>4. CASE TimedStep \/ ContinuationStep \/ StrandsStep
  <2>1. UNCHANGED invocationVars /\ UNCHANGED exampleVars
    BY <1>4 DEF TimedStep, ContinuationStep, StrandsStep, OnlyTimed, OnlyContinuation, OnlyStrands
  <2>2. ResourceSteps
    BY <1>4 DEF TimedStep, ContinuationStep, StrandsStep, OnlyTimed, OnlyContinuation, OnlyStrands, ResourceSteps
  <2> QED BY <2>1, <2>2, InvocationsRest, ExamplesRest
<1>5. CASE ForkStep \/ PipeStep \/ ActorStep \/ HeapStep
  <2>1. UNCHANGED invocationVars /\ UNCHANGED resourceVars
    BY <1>5 DEF ForkStep, PipeStep, ActorStep, HeapStep, OnlyForks, OnlyPipeline, OnlyActors, OnlyHeap
  <2>2. ExampleSteps
    BY <1>5 DEF ForkStep, PipeStep, ActorStep, HeapStep, OnlyForks, OnlyPipeline, OnlyActors, OnlyHeap, ExampleSteps
  <2> QED BY <2>1, <2>2, InvocationsRest, ResourcesRest
<1> QED BY <1>1, <1>2, <1>3, <1>4, <1>5 DEF FacilitiesNext

----------------------------------------------------------------------------
(* Every part starts as it may.                                            *)

InvocationsStart ==
  CoinvokerInit /\ ChainStart(Nat \ {0}) /\ YieldStart({"unborn"}) /\ AwaitStart({"unborn"})
ResourcesStart ==
  /\ RegistryInit /\ ExecutorStart(Nat) /\ RecyclerStart /\ TimedStart /\ ContinuationStart(Nat)
  /\ StrandsStart
ExamplesStart == ForkStart /\ PipeStart(2 .. MaxFunctions) /\ ActorInit

LEMMA PartsStart ==
  ASSUME FacilitiesInit
  PROVE  InvocationsStart /\ ResourcesStart /\ ExamplesStart
<1>1. CoinvokerInit
  <2>1. 0 \in 0 .. MaxHeads /\ "copost" \in Calls BY CoinvokerAssumption DEF Calls
  <2>2. CoStart({0}, {"copost"}) => CoStart(0 .. MaxHeads, Calls) BY <2>1 DEF CoStart
  <2> QED BY <2>2 DEF FacilitiesInit, CoinvokerInit
<1>2. ChainStart(Nat \ {0})
  <2>1. 2 .. MaxStages \subseteq Nat \ {0} /\ {1} \subseteq Nat \ {0} BY BoundsAssumption
  <2>2. ASSUME NEW lengths \in SUBSET (Nat \ {0}), ChainStart(lengths) PROVE ChainStart(Nat \ {0})
    BY <2>2 DEF ChainStart
  <2>3. ChainStart(2 .. MaxStages) \/ ChainStart({1}) BY DEF FacilitiesInit
  <2> QED BY <2>1, <2>2, <2>3
<1>3. YieldStart({"unborn"}) /\ AwaitStart({"unborn"}) BY DEF FacilitiesInit
<1>4. ExecutorStart(Nat) /\ ContinuationStart(Nat)
  BY BoundsAssumption DEF FacilitiesInit, ExecutorStart, ContinuationStart
<1>5. RegistryInit /\ RecyclerStart /\ TimedStart /\ StrandsStart /\ ForkStart /\ ActorInit
  BY DEF FacilitiesInit
<1>6. PipeStart(2 .. MaxFunctions)
  <2>1. 2 \in 2 .. MaxFunctions BY BoundsAssumption
  <2>2. PipeStart({2}) => PipeStart(2 .. MaxFunctions) BY <2>1 DEF PipeStart
  <2> QED BY <2>2 DEF FacilitiesInit
<1> QED BY <1>1, <1>2, <1>3, <1>4, <1>5, <1>6 DEF InvocationsStart, ResourcesStart, ExamplesStart

----------------------------------------------------------------------------
(* The whole implements each part.                                         *)

LEMMA InvocationSpecs == FacilitiesSpec => CoinvokerSpec /\ ChainSpec /\ YieldSpec /\ AwaitSpec
<1>1. FacilitiesInit => InvocationsStart BY PartsStart
<1>2. [FacilitiesNext]_allVars => InvocationSteps BY PartsStep
<1>3. InvocationsStart =>
        CoinvokerInit /\ ChainStart(Nat \ {0}) /\ YieldStart({"unborn"}) /\ AwaitStart({"unborn"})
  BY DEF InvocationsStart
<1>4. InvocationSteps =>
        /\ [CoinvokerNext]_coinvokerVars /\ [ChainNext]_chainVars
        /\ [YieldNext]_yieldVars /\ [AwaitNext]_awaitVars
  BY DEF InvocationSteps
<1> QED BY <1>1, <1>2, <1>3, <1>4, PTL DEF FacilitiesSpec, CoinvokerSpec, ChainSpec, YieldSpec, AwaitSpec

LEMMA ResourceSpecs ==
  FacilitiesSpec => RegistrySpec /\ ExecutorSpec /\ RecyclerSpec /\ TimedSpec /\ ContinuationSpec /\ StrandsSpec
<1>1. FacilitiesInit => ResourcesStart BY PartsStart
<1>2. [FacilitiesNext]_allVars => ResourceSteps BY PartsStep
<1>3. ResourcesStart =>
        /\ RegistryInit /\ ExecutorStart(Nat) /\ RecyclerStart /\ TimedStart /\ ContinuationStart(Nat)
        /\ StrandsStart
  BY DEF ResourcesStart
<1>4. ResourceSteps =>
        /\ [RegistryNext]_registryVars /\ [ExecutorNext]_executorVars /\ [RecyclerNext]_recyclerVars
        /\ [TimedNext]_timedVars /\ [ContinuationNext]_continuationVars /\ [StrandsNext]_strandVars
  BY DEF ResourceSteps
<1> QED BY <1>1, <1>2, <1>3, <1>4, PTL
        DEF FacilitiesSpec, RegistrySpec, ExecutorSpec, RecyclerSpec, TimedSpec, ContinuationSpec, StrandsSpec

LEMMA ExampleSpecs == FacilitiesSpec => ForkSpec /\ PipeSpec /\ ActorSpec
<1>1. FacilitiesInit => ExamplesStart BY PartsStart
<1>2. [FacilitiesNext]_allVars => ExampleSteps BY PartsStep
<1>3. ExamplesStart => ForkStart /\ PipeStart(2 .. MaxFunctions) /\ ActorInit BY DEF ExamplesStart
<1>4. ExampleSteps => [ForkNext]_forkVars /\ [PipeNext]_pipeVars /\ [ActorNext]_actorVars
  BY DEF ExampleSteps
<1> QED BY <1>1, <1>2, <1>3, <1>4, PTL DEF FacilitiesSpec, ForkSpec, PipeSpec, ActorSpec

----------------------------------------------------------------------------
(* The theorems.                                                           *)

\* Every variable keeps its type, for any number of heads, functions, threads,
\* services, executors, blocks, calls, continuations, forks, members and strands:
\* with it the counters, use_count_, the references, the units of work and the
\* members' queues among them, stay in their ranges (fork_join.cpp:107-136,
\* executor.h:42-135, actor.cpp:187-203).
THEOREM FacilitiesTypeCorrect == FacilitiesSpec => []FacilitiesTypeOK
<1>1. FacilitiesSpec => [](CoinvokerTypeOK /\ ChainTypeOK /\ YieldTypeOK /\ AwaitTypeOK)
  BY InvocationSpecs, CoinvokerTypes, ChainTypes, YieldTypes, AwaitTypes, PTL
<1>2. FacilitiesSpec => [](RegistryTypeOK /\ ExecutorTypeOK /\ RecyclerTypeOK /\ TimedTypeOK)
  BY ResourceSpecs, RegistryTypes, ExecutorTypes, RecyclerTypes, TimedTypes, PTL
<1>3. FacilitiesSpec => [](ContinuationTypeOK /\ StrandsTypeOK)
  BY ResourceSpecs, ContinuationTypes, StrandsTypes, PTL
<1>4. FacilitiesSpec => [](ForkTypeOK /\ PipeTypeOK /\ ActorTypeOK)
  BY ExampleSpecs, ForkTypes, PipeTypes, ActorTypes, PTL
<1>5. /\ CoinvokerTypeOK /\ ChainTypeOK /\ YieldTypeOK /\ AwaitTypeOK
      /\ RegistryTypeOK /\ ExecutorTypeOK /\ RecyclerTypeOK /\ TimedTypeOK
      /\ ContinuationTypeOK /\ StrandsTypeOK /\ ForkTypeOK /\ PipeTypeOK /\ ActorTypeOK
      => FacilitiesTypeOK
  BY DEF FacilitiesTypeOK
<1> QED BY <1>1, <1>2, <1>3, <1>4, <1>5, PTL

\* Together the parts are as sound as each is alone: what is launched ends once
\* and in its turn, what is shared is counted and deleted exactly, and the
\* examples' threads lose nothing, in the state space that the run checks
\* (coinvoker.h:64-114, invoker.h:49, await_context.h:198-228,
\* execution_context.h:35-188, executor.h:42-135, strand.h:81-126).
Sound ==
  /\ PendingCountsHeads /\ ChainSound /\ AwaitSound
  /\ ServicesKept /\ SharesExact /\ BlockFits /\ TimedCallsKept /\ OwnedOnce /\ StrandsListed
  /\ JoinsAll /\ LinesInOrder /\ TokensKept
THEOREM FacilitiesAreSound ==
  FacilitiesSpec => []Sound /\ ImplementsForkJoin /\ ResumedOnlySuspended
<1>1. FacilitiesSpec => [](PendingCountsHeads /\ ChainSound /\ AwaitSound)
  BY InvocationSpecs, TailFreedByLast, ChainsAreSound, AwaitIsSound, PTL
<1>2. FacilitiesSpec => [](ServicesKept /\ SharesExact /\ BlockFits)
  BY ResourceSpecs, ServicesAreKept, CountsAreExact, BlocksFit, PTL
<1>3. FacilitiesSpec => [](TimedCallsKept /\ OwnedOnce /\ StrandsListed)
  BY ResourceSpecs, TimersServed, OwnersAreUnique, StrandsAreListed, PTL
<1>4. FacilitiesSpec => [](JoinsAll /\ LinesInOrder /\ TokensKept)
  BY ExampleSpecs, ForksAreJoined, LinesStayInOrder, TokensAreKept, PTL
<1>5. /\ PendingCountsHeads /\ ChainSound /\ AwaitSound
      /\ ServicesKept /\ SharesExact /\ BlockFits /\ TimedCallsKept /\ OwnedOnce /\ StrandsListed
      /\ JoinsAll /\ LinesInOrder /\ TokensKept
      => Sound
  BY DEF Sound
<1>6. FacilitiesSpec => []Sound BY <1>1, <1>2, <1>3, <1>4, <1>5, PTL
<1>7. FacilitiesSpec => ImplementsForkJoin BY InvocationSpecs, CoinvokerIsForkJoin
<1>8. FacilitiesSpec => ResumedOnlySuspended BY InvocationSpecs, EnteredBySuspension
<1> QED BY <1>6, <1>7, <1>8

\* A coroutine of either kind goes on once for every answer, and not without one,
\* in whatever number of operations and threads (yield_context.h:132-140,
\* 237-242, await_context.h:198-228).
THEOREM FacilitiesKeepPromises == FacilitiesSpec => CoroutinesKeepPromise
<1>1. FacilitiesSpec => YieldImplementsCoroutine BY InvocationSpecs, YieldKeepsPromise
<1>2. FacilitiesSpec => AwaitImplementsCoroutine BY InvocationSpecs, AwaitKeepsPromise
<1> QED BY <1>1, <1>2 DEF CoroutinesKeepPromise
=============================================================================
