-------------------------- MODULE SchedulerProofs --------------------------
(***************************************************************************)
(* Theorems about the scheduler, for any number of threads and operations, *)
(* and about the thread pool: what it inherits from the scheduler, for any *)
(* number of pool threads, clients and functions.                          *)
(***************************************************************************)
EXTENDS ThreadPool, FiniteSetTheorems, TLAPS

\* Joining two queues of operations gives a queue of operations.
LEMMA JoinedType ==
  ASSUME NEW t \in Threads, DataTypes
  PROVE  Joined(t) \in Seq(Ops)
  BY DEF DataTypes, Joined

\* Waking threads moves them from "wait" to "lock" and nobody else.
LEMMA WakeType ==
  ASSUME DataTypes, NEW wanted, NEW woken \in Notified(wanted)
  PROVE  /\ woken \subseteq Sleepers
         /\ Wake(woken) \in [Threads -> {"out", "lock", "wait", "run", "exit"}]
         /\ \A t \in Threads : t \notin Sleepers => Wake(woken)[t] = pc[t]
         /\ \A t \in Sleepers : Wake(woken)[t] \in {"lock", "wait"}
  BY DEF DataTypes, Notified, Wake, Sleepers

\* Only _Stop and _Restart touch the stopped flag, and nothing the hint.
LEMMA FlagStep == FlagTypes /\ [Next]_vars => FlagTypes'
<1> SUFFICES ASSUME FlagTypes, [Next]_vars PROVE FlagTypes'
  OBVIOUS
<1>1. ASSUME NEW t \in Threads, RunStop(t) \/ Stop(t) \/ Restart(t)
      PROVE  FlagTypes'
  BY <1>1 DEF RunStop, Stop, StopNow, StopSection, Restart, FlagTypes
<1>2. CASE UNCHANGED <<oneThread, stopped>>
  BY <1>2 DEF FlagTypes
<1>3. ASSUME NEW t \in Threads, NEW o \in Ops, Post(t, o) \/ Defer(t, o) \/ Dispatch(t, o)
      PROVE  UNCHANGED <<oneThread, stopped>>
  BY <1>3 DEF Post, Defer, Dispatch, PostOp, CountWork, KeepPrivate, ReuseCredit,
       Submits, shared
<1>4. ASSUME NEW t \in Threads, NEW w \in Works, WorkStarted(t, w) \/ WorkFinished(t, w)
      PROVE  UNCHANGED <<oneThread, stopped>>
  BY <1>4 DEF WorkStarted, WorkFinished
<1>5. ASSUME NEW t \in Threads, NEW m \in Modes, Enter(t, m)
      PROVE  UNCHANGED <<oneThread, stopped>>
  BY <1>5 DEF Enter, shared
<1>6. ASSUME NEW t \in Threads,
             SpuriousWake(t) \/ WaitTimeout(t) \/ Throw(t) \/ Return(t) \/ Exit(t) \/ Push(t)
      PROVE  UNCHANGED <<oneThread, stopped>>
  BY <1>6 DEF SpuriousWake, WaitTimeout, Throw, Return, Finish, Exit, Push, shared
<1>7. ASSUME NEW t \in Threads, Leave(t) \/ TimeOut(t) \/ Sleep(t) \/ Pop(t)
      PROVE  UNCHANGED <<oneThread, stopped>>
  BY <1>7 DEF Leave, TimeOut, Sleep, Pop, Section
<1> QED
  BY <1>1, <1>2, <1>3, <1>4, <1>5, <1>6, <1>7 DEF Next, Step, vars

LEMMA TypeStep == TypeOK /\ [Next]_vars => TypeOK'
<1> SUFFICES ASSUME FlagTypes, DataTypes, Places, [Next]_vars
             PROVE  DataTypes' /\ Places'
  BY FlagStep DEF TypeOK
<1> USE SchedulerAssumption DEF SchedulerAssumption
<1>1. ASSUME NEW t \in Threads, NEW o \in Ops, CountWork(t, o)
      PROVE  DataTypes' /\ Places'
  <2>1. DataTypes'
    BY <1>1 DEF DataTypes, CountWork, Submits
  <2>2. Places'
    BY <1>1 DEF DataTypes, Places, CountWork, Submits, CanCall
  <2> QED BY <2>1, <2>2
<1>2. ASSUME NEW t \in Threads, NEW o \in Ops, Inside(t), KeepPrivate(t, o)
      PROVE  DataTypes' /\ Places'
  <2>1. DataTypes'
    BY <1>2 DEF DataTypes, KeepPrivate, Submits
  <2>2. Places'
    BY <1>2 DEF DataTypes, Places, KeepPrivate, Submits, Inside
  <2> QED BY <2>1, <2>2
<1>3. ASSUME NEW t \in Threads, NEW o \in Ops, Inside(t), ReuseCredit(t, o)
      PROVE  DataTypes' /\ Places'
  <2>1. DataTypes'
    BY <1>3 DEF DataTypes, ReuseCredit, Submits
  <2>2. Places'
    BY <1>3 DEF DataTypes, Places, ReuseCredit, Submits, Inside
  <2> QED BY <2>1, <2>2
<1>4. ASSUME NEW t \in Threads, NEW o \in Ops, Dispatch(t, o), Inside(t)
      PROVE  DataTypes' /\ Places'
  BY <1>4 DEF DataTypes, Places, Dispatch, shared, context
<1>5. ASSUME NEW t \in Threads, Push(t)
      PROVE  DataTypes' /\ Places'
  <2>1. DataTypes'
    BY <1>5, WakeType DEF DataTypes, Push
  <2>2. Places'
    BY <1>5, WakeType DEF DataTypes, Places, Push, Sleepers
  <2> QED BY <2>1, <2>2
<1>6. ASSUME NEW t \in Threads, RunStop(t) \/ StopNow(t)
      PROVE  DataTypes' /\ Places'
  <2>1. DataTypes'
    BY <1>6 DEF DataTypes, RunStop, StopNow, StopSection, Wake, WakeOnStop
  <2>2. Places'
    BY <1>6 DEF DataTypes, Places, RunStop, StopNow, StopSection, Wake,
         WakeOnStop, Sleepers
  <2> QED BY <2>1, <2>2
<1>7. ASSUME NEW t \in Threads, Restart(t)
      PROVE  DataTypes' /\ Places'
  BY <1>7 DEF DataTypes, Places, Restart, context
<1>8. ASSUME NEW t \in Threads, NEW w \in Works, WorkStarted(t, w) \/ WorkFinished(t, w)
      PROVE  DataTypes' /\ Places'
  <2>1. DataTypes'
    <3>1. work' \in Int /\ tokens' \subseteq Works
      BY <1>8 DEF DataTypes, WorkStarted, WorkFinished
    <3>2. call' \in [Threads -> Ops \cup {NoOp, StopCall}]
      BY <1>8 DEF DataTypes, WorkStarted, WorkFinished, StopIf
    <3>3. UNCHANGED <<queue, pc, mode, delta, private, cur, submitted, done>>
      BY <1>8 DEF WorkStarted, WorkFinished, context
    <3> QED BY <3>1, <3>2, <3>3 DEF DataTypes
  <2>2. Places'
    BY <1>8 DEF DataTypes, Places, WorkStarted, WorkFinished, StopIf, CanCall, context
  <2> QED BY <2>1, <2>2
<1>9. ASSUME NEW t \in Threads, NEW m \in Modes, Enter(t, m)
      PROVE  DataTypes' /\ Places'
  <2>1. DataTypes'
    BY <1>9 DEF DataTypes, Enter, StopIf, shared
  <2>2. Places'
    BY <1>9 DEF DataTypes, Places, Enter, StopIf
  <2> QED BY <2>1, <2>2
<1>10. ASSUME NEW t \in Threads, Leave(t) \/ TimeOut(t) \/ Sleep(t)
       PROVE  DataTypes' /\ Places'
  <2>1. queue' \in Seq(Ops)
    BY <1>10, JoinedType DEF DataTypes, Leave, TimeOut, Sleep
  <2>3. DataTypes'
    <3>0. pc' = [pc EXCEPT ![t] = "out"] \/ pc' = [pc EXCEPT ![t] = "wait"]
      BY <1>10 DEF Leave, TimeOut, Sleep
    <3>1. pc' \in [Threads -> {"out", "lock", "wait", "run", "exit"}]
      BY <3>0 DEF DataTypes
    <3>a. private' = [private EXCEPT ![t] = << >>]
      BY <1>10 DEF Leave, TimeOut, Sleep, Section
    <3>2. private' \in [Threads -> Seq(Ops)]
      BY <3>a DEF DataTypes
    <3>3. UNCHANGED <<work, mode, delta, cur, call, submitted, done, tokens>>
      BY <1>10 DEF Leave, TimeOut, Sleep, Section
    <3> QED BY <2>1, <3>1, <3>2, <3>3 DEF DataTypes
  <2>2. Places'
    BY <1>10 DEF DataTypes, Places, Leave, TimeOut, Sleep, Section
  <2> QED BY <2>2, <2>3
<1>11. ASSUME NEW t \in Threads, Pop(t)
       PROVE  DataTypes' /\ Places'
  <2>1. Head(Joined(t)) \in Ops /\ Tail(Joined(t)) \in Seq(Ops)
    BY <1>11, JoinedType DEF Pop, MayPop
  <2>2. PICK woken \in Notified(Chain(t)) : pc' = [Wake(woken) EXCEPT ![t] = "run"]
    BY <1>11 DEF Pop
  <2>3. DataTypes'
    BY <1>11, <2>1, <2>2, WakeType DEF DataTypes, Pop, Section
  <2>4. Places'
    BY <1>11, <2>1, <2>2, WakeType DEF DataTypes, Places, Pop, Section, Sleepers
  <2> QED BY <2>3, <2>4
<1>12. ASSUME NEW t \in Threads, SpuriousWake(t) \/ WaitTimeout(t)
       PROVE  DataTypes' /\ Places'
  BY <1>12 DEF DataTypes, Places, SpuriousWake, WaitTimeout, shared
<1>13. ASSUME NEW t \in Threads, NEW next \in {"lock", "exit"}, Finish(t, next)
       PROVE  DataTypes' /\ Places'
  <2>1. DataTypes'
    <3>1. cur[t] \in Ops
      BY <1>13 DEF DataTypes, Places, Finish, Inside
    <3>2. work' \in Int /\ done' \subseteq Ops /\ delta' \in [Threads -> Int]
      BY <1>13, <3>1 DEF DataTypes, Finish, DeltaReset
    <3>3. call' \in [Threads -> Ops \cup {NoOp, StopCall}]
      BY <1>13 DEF DataTypes, Finish, StopIf
    <3>4. /\ cur' \in [Threads -> Ops \cup {NoOp}]
          /\ pc' \in [Threads -> {"out", "lock", "wait", "run", "exit"}]
          /\ UNCHANGED <<queue, mode, private, submitted, tokens>>
      BY <1>13 DEF DataTypes, Finish
    <3> QED BY <3>2, <3>3, <3>4 DEF DataTypes
  <2>2. Places'
    <3>1. /\ cur'[t] = NoOp /\ delta'[t] = 0 /\ pc'[t] = next
          /\ private' = private
      BY <1>13 DEF DataTypes, Finish, DeltaReset
    <3>2. \A u \in Threads \ {t} :
            /\ cur'[u] = cur[u] /\ delta'[u] = delta[u] /\ pc'[u] = pc[u]
            /\ call'[u] = call[u]
      BY <1>13 DEF DataTypes, Finish, DeltaReset, StopIf
    <3> QED BY <1>13, <3>1, <3>2 DEF Places
  <2> QED BY <2>1, <2>2
<1>14. ASSUME NEW t \in Threads, Exit(t)
       PROVE  DataTypes' /\ Places'
  <2>1. DataTypes'
    <3>1. /\ private' = [private EXCEPT ![t] = << >>]
          /\ pc' = [pc EXCEPT ![t] = "out"]
          /\ queue' = Joined(t)
          /\ UNCHANGED <<work, mode, delta, cur, call, submitted, done, tokens>>
      BY <1>14 DEF Exit
    <3>2. queue' \in Seq(Ops)
      BY <3>1, JoinedType
    <3> QED BY <3>1, <3>2 DEF DataTypes
  <2>2. Places'
    BY <1>14 DEF DataTypes, Places, Exit
  <2> QED BY <2>1, <2>2
<1>15. CASE UNCHANGED vars
  BY <1>15 DEF DataTypes, Places, vars
<1>16. ASSUME NEW t \in Threads, NEW o \in Ops, PostOp(t, o)
       PROVE  DataTypes' /\ Places'
  BY <1>1, <1>2, <1>3, <1>16 DEF PostOp
<1>17. ASSUME NEW t \in Threads, Return(t) \/ Throw(t)
       PROVE  DataTypes' /\ Places'
  BY <1>13, <1>17 DEF Return, Throw
<1> QED
  BY <1>1, <1>2, <1>4, <1>5, <1>6, <1>7, <1>8, <1>9, <1>10, <1>11, <1>12,
     <1>14, <1>15, <1>16, <1>17
     DEF Next, Post, Defer, Dispatch, Stop, Step

\* The types, and what each place of a thread implies, hold in every state.
THEOREM TypeCorrect == Spec => []TypeOK
<1>1. Init => FlagTypes
  BY DEF Init, FlagTypes
<1>2. Init => DataTypes
  BY SchedulerAssumption DEF SchedulerAssumption, Init, DataTypes, Modes
<1>3. Init => Places
  BY SchedulerAssumption DEF SchedulerAssumption, Init, Places
<1>4. Init => TypeOK
  BY <1>1, <1>2, <1>3 DEF TypeOK
<1> QED
  BY <1>4, TypeStep, PTL DEF Spec

----------------------------------------------------------------------------
(* Nobody sleeps while the scheduler is stopped.                           *)

\* The steps that put a thread to sleep or set the flag are Sleep and _Stop;
\* every other step leaves the set of sleepers no larger.
LEMMA SleeperStep ==
  ASSUME TypeOK, NoSleeperWhileStopped, [Next]_vars
  PROVE  NoSleeperWhileStopped'
<1> USE DEF TypeOK
<1>1. ASSUME stopped' = stopped, \A u \in Threads : pc'[u] = "wait" => pc[u] = "wait"
      PROVE  NoSleeperWhileStopped'
  BY <1>1 DEF NoSleeperWhileStopped, Sleepers
<1>2. ASSUME NEW t \in Threads, NEW o \in Ops, Post(t, o) \/ Defer(t, o) \/ Dispatch(t, o)
      PROVE  stopped' = stopped /\ pc' = pc
  BY <1>2 DEF Post, Defer, Dispatch, PostOp, CountWork, KeepPrivate, ReuseCredit,
       Submits, shared, context
<1>3. ASSUME NEW t \in Threads, NEW w \in Works, WorkStarted(t, w) \/ WorkFinished(t, w)
      PROVE  stopped' = stopped /\ pc' = pc
  BY <1>3 DEF WorkStarted, WorkFinished, context
<1>4. ASSUME NEW t \in Threads, StopSection
      PROVE  NoSleeperWhileStopped'
  BY <1>4 DEF StopSection, NoSleeperWhileStopped, Sleepers, Wake, WakeOnStop
<1>5. ASSUME NEW t \in Threads, Restart(t)
      PROVE  NoSleeperWhileStopped'
  BY <1>5 DEF Restart, NoSleeperWhileStopped
<1>6. ASSUME NEW t \in Threads, NEW m \in Modes, Enter(t, m)
      PROVE  stopped' = stopped /\ \A u \in Threads : pc'[u] = "wait" => pc[u] = "wait"
  BY <1>6 DEF DataTypes, Enter, shared
<1>7. ASSUME NEW t \in Threads, Push(t)
      PROVE  stopped' = stopped /\ \A u \in Threads : pc'[u] = "wait" => pc[u] = "wait"
  BY <1>7, WakeType DEF Push, Sleepers
<1>8. ASSUME NEW t \in Threads, Sleep(t)
      PROVE  NoSleeperWhileStopped'
  BY <1>8 DEF Sleep, Section, NoSleeperWhileStopped
<1>9. ASSUME NEW t \in Threads, Pop(t)
      PROVE  stopped' = stopped /\ \A u \in Threads : pc'[u] = "wait" => pc[u] = "wait"
  <2>1. PICK woken \in Notified(Chain(t)) : pc' = [Wake(woken) EXCEPT ![t] = "run"]
    BY <1>9 DEF Pop
  <2>2. \A u \in Threads : pc'[u] = "wait" => pc[u] = "wait"
    BY <2>1, WakeType DEF Sleepers
  <2> QED BY <1>9, <2>2 DEF Pop, Section
<1>10. ASSUME NEW t \in Threads, Leave(t) \/ TimeOut(t) \/ SpuriousWake(t) \/ WaitTimeout(t)
                                 \/ Exit(t) \/ Return(t) \/ Throw(t)
       PROVE  stopped' = stopped /\ \A u \in Threads : pc'[u] = "wait" => pc[u] = "wait"
  <2>1. stopped' = stopped
    BY <1>10 DEF Leave, TimeOut, Section, SpuriousWake, WaitTimeout, Exit, Return,
         Throw, Finish, shared
  <2>2. PICK p \in {"out", "lock", "exit"} : pc' = [pc EXCEPT ![t] = p]
    BY <1>10 DEF Leave, TimeOut, SpuriousWake, WaitTimeout, Exit, Return, Throw, Finish
  <2>3. \A u \in Threads : pc'[u] = "wait" => pc[u] = "wait"
    BY <2>2 DEF DataTypes
  <2> QED BY <2>1, <2>3
<1>11. CASE UNCHANGED vars
  BY <1>11, <1>1 DEF vars
<1> QED
  BY <1>1, <1>2, <1>3, <1>4, <1>5, <1>6, <1>7, <1>8, <1>9, <1>10, <1>11
     DEF Next, Step, RunStop, Stop, StopNow

\* Whoever would wait sees the stop: the flag is set and the sleepers are
\* woken in one critical section, and the flag is read in the section that
\* goes to sleep.
THEOREM NobodySleepsThroughStop == Spec => []NoSleeperWhileStopped
<1>1. Init => NoSleeperWhileStopped
  BY DEF Init, NoSleeperWhileStopped
<1> QED
  BY <1>1, SleeperStep, TypeCorrect, PTL DEF Spec

----------------------------------------------------------------------------
(* No lost wakeup, in a program that only uses run and poll.               *)

LoopOnly ==
  Calls \cap {"run_one", "run_until", "run_one_until", "poll_one", "throw"} = {}

\* With hint 1 at most one thread has a context.
OneInside ==
  oneThread => \A t, u \in Threads : pc[t] # "out" /\ pc[u] # "out" => t = u

\* So every thread goes back to the queue after a function.
OnlyLoops == \A t \in Threads : mode[t] \in {"run", "poll"} /\ pc[t] # "exit"

\* What a step does to pc, whatever else it does.
PcChange(t) ==
  \/ pc' = pc
  \/ \E p \in {"out", "lock", "wait", "exit"} : pc[t] # "out" /\ pc' = [pc EXCEPT ![t] = p]
  \/ \E wanted : \E woken \in Notified(wanted) :
       pc' = Wake(woken) \/ (pc[t] # "out" /\ pc' = [Wake(woken) EXCEPT ![t] = "run"])
  \/ pc' = Wake(Sleepers)

LEMMA PcStep ==
  ASSUME NEW t \in Threads, Step(t) \/ SpuriousWake(t) \/ WaitTimeout(t) \/ Throw(t)
  PROVE  PcChange(t) /\ oneThread' = oneThread
<1>1. oneThread' = oneThread
  BY DEF Step, Push, RunStop, StopSection, Leave, TimeOut, Sleep, Pop, Section,
     Return, Exit, SpuriousWake, WaitTimeout, Throw, Finish
<1>2. CASE Push(t)
  BY <1>2 DEF Push, PcChange
<1>3. CASE RunStop(t)
  BY <1>3 DEF RunStop, StopSection, WakeOnStop, PcChange
<1>4. CASE Pop(t)
  BY <1>4 DEF Pop, Section, PcChange
<1>5. CASE Leave(t) \/ TimeOut(t) \/ Sleep(t) \/ Return(t) \/ Exit(t) \/ SpuriousWake(t)
             \/ WaitTimeout(t) \/ Throw(t)
  BY <1>5 DEF Leave, TimeOut, Sleep, Section, Return, Exit, SpuriousWake, WaitTimeout,
     Throw, Finish, Inside, PcChange
<1> QED
  BY <1>1, <1>2, <1>3, <1>4, <1>5 DEF Step

LEMMA OneInsideStep ==
  ASSUME TypeOK, OneInside, [Next]_vars
  PROVE  OneInside'
<1> USE DEF TypeOK
<1>1. ASSUME pc' = pc /\ oneThread' = oneThread
      PROVE  OneInside'
  BY <1>1 DEF OneInside
<1>2. ASSUME NEW t \in Threads, PcChange(t), oneThread' = oneThread
      PROVE  OneInside'
  <2>1. \A u \in Threads : pc'[u] # "out" => pc[u] # "out"
    <3>1. ASSUME NEW wanted, NEW woken \in Notified(wanted)
          PROVE  \A u \in Threads : Wake(woken)[u] # "out" => pc[u] # "out"
      BY WakeType, <3>1 DEF Sleepers
    <3>2. \A u \in Threads : Wake(Sleepers)[u] # "out" => pc[u] # "out"
      BY DEF Wake, Sleepers
    <3>3. ASSUME NEW wanted, NEW woken \in Notified(wanted), pc[t] # "out",
                 pc' = [Wake(woken) EXCEPT ![t] = "run"]
          PROVE  \A u \in Threads : pc'[u] # "out" => pc[u] # "out"
      BY <3>1, <3>3, WakeType
    <3>4. ASSUME NEW p, pc[t] # "out", pc' = [pc EXCEPT ![t] = p]
          PROVE  \A u \in Threads : pc'[u] # "out" => pc[u] # "out"
      BY <3>4 DEF DataTypes
    <3> QED BY <1>2, <3>1, <3>2, <3>3, <3>4 DEF PcChange
  <2> QED BY <1>2, <2>1 DEF OneInside
<1>3. ASSUME NEW t \in Threads, NEW m \in Modes, Enter(t, m)
      PROVE  OneInside'
  <2>1. oneThread' = oneThread
    BY <1>3 DEF Enter, shared
  <2>2. oneThread => \A u \in Threads : u # t => pc'[u] = "out"
    BY <1>3 DEF Enter, DataTypes
  <2> QED BY <2>1, <2>2 DEF OneInside
<1>4. ASSUME NEW t \in Threads, NEW o \in Ops, Post(t, o) \/ Defer(t, o) \/ Dispatch(t, o)
      PROVE  pc' = pc /\ oneThread' = oneThread
  BY <1>4 DEF Post, Defer, Dispatch, PostOp, CountWork, KeepPrivate, ReuseCredit,
       Submits, shared, context
<1>5. ASSUME NEW t \in Threads, NEW w \in Works, WorkStarted(t, w) \/ WorkFinished(t, w)
      PROVE  pc' = pc /\ oneThread' = oneThread
  BY <1>5 DEF WorkStarted, WorkFinished, context
<1>6. ASSUME NEW t \in Threads, Restart(t)
      PROVE  pc' = pc /\ oneThread' = oneThread
  BY <1>6 DEF Restart, context
<1>7. ASSUME NEW t \in Threads, Stop(t)
      PROVE  PcChange(t) /\ oneThread' = oneThread
  BY <1>7 DEF Stop, StopNow, StopSection, WakeOnStop, PcChange
<1>8. CASE UNCHANGED vars
  BY <1>1, <1>8 DEF vars
<1> QED
  BY <1>1, <1>2, <1>3, <1>4, <1>5, <1>6, <1>7, <1>8, PcStep DEF Next

\* One step keeps NoLostWakeup.  Only four kinds of step matter: a push, a
\* pop, going to sleep, and a restart.
LEMMA WakeupStep ==
  ASSUME TypeOK, OneInside, OnlyLoops, NoSleeperWhileStopped, NoLostWakeup,
         LoopOnly, [Next]_vars
  PROVE  NoLostWakeup' /\ OnlyLoops'
<1> USE DEF TypeOK
<1>1. ASSUME NEW t \in Threads, NEW o \in Ops, Post(t, o) \/ Defer(t, o) \/ Dispatch(t, o)
      PROVE  UNCHANGED <<queue, stopped, pc, mode>>
  BY <1>1 DEF Post, Defer, Dispatch, PostOp, CountWork, KeepPrivate, ReuseCredit,
       Submits, shared, context
<1>2. ASSUME NEW t \in Threads, NEW w \in Works, WorkStarted(t, w) \/ WorkFinished(t, w)
      PROVE  UNCHANGED <<queue, stopped, pc, mode>>
  BY <1>2 DEF WorkStarted, WorkFinished, context
<1>3. CASE UNCHANGED <<queue, stopped, pc, mode>>
  BY <1>3 DEF NoLostWakeup, OnlyLoops, Sleepers
<1>4. ASSUME NEW t \in Threads, RunStop(t) \/ Stop(t)
      PROVE  NoLostWakeup' /\ OnlyLoops'
  <2>1. StopSection
    BY <1>4 DEF RunStop, Stop, StopNow
  <2>2. NoLostWakeup'
    BY <2>1 DEF StopSection, NoLostWakeup
  <2>3. OnlyLoops'
    BY <2>1 DEF StopSection, OnlyLoops, Wake, WakeOnStop
  <2> QED BY <2>2, <2>3
<1>5. ASSUME NEW t \in Threads, Restart(t)
      PROVE  NoLostWakeup' /\ OnlyLoops'
  <2>1. UNCHANGED <<queue, pc, mode>>
    BY <1>5 DEF Restart, context
  <2>2. NoLostWakeup'
    BY <2>1 DEF NoLostWakeup, NoSleeperWhileStopped, Sleepers
  <2>3. OnlyLoops'
    BY <2>1 DEF OnlyLoops
  <2> QED BY <2>2, <2>3
<1>6. ASSUME NEW t \in Threads, NEW m \in Modes, Enter(t, m)
      PROVE  NoLostWakeup' /\ OnlyLoops'
  <2>1. m \in {"run", "poll"}
    BY <1>6 DEF Enter, LoopOnly, Modes
  <2>2. UNCHANGED <<queue, stopped>>
    BY <1>6 DEF Enter, shared
  <2>3. pc' = pc \/ pc' = [pc EXCEPT ![t] = "lock"]
    BY <1>6 DEF Enter
  <2>4. mode' = [mode EXCEPT ![t] = m]
    BY <1>6 DEF Enter
  <2>5. NoLostWakeup'
    BY <2>2, <2>3 DEF NoLostWakeup, Sleepers, DataTypes
  <2> QED BY <2>1, <2>3, <2>4, <2>5 DEF OnlyLoops, DataTypes
<1>7. ASSUME NEW t \in Threads, Push(t)
      PROVE  NoLostWakeup' /\ OnlyLoops'
  <2>1. PICK woken \in Notified(NotifyOnPush) : pc' = Wake(woken)
    BY <1>7 DEF Push
  <2>2. UNCHANGED <<stopped, mode>>
    BY <1>7 DEF Push
  <2>3. OnlyLoops'
    BY <2>1, <2>2, WakeType DEF OnlyLoops, Sleepers
  <2>4. CASE queue = << >> /\ Sleepers # {}
    <3>1. \E u \in Threads : pc'[u] = "lock"
      BY <2>1, <2>4 DEF Notified, NotifyOnPush, Wake, Sleepers
    <3> QED BY <2>3, <3>1 DEF NoLostWakeup
  <2>5. CASE ~(queue = << >> /\ Sleepers # {})
    <3>1. woken = {}
      BY <2>1, <2>5 DEF Notified, NotifyOnPush
    <3>2. pc' = pc
      BY <2>1, <3>1 DEF Wake, DataTypes
    <3> QED BY <2>2, <2>3, <2>5, <3>2 DEF NoLostWakeup, Sleepers
  <2> QED BY <2>4, <2>5
<1>8. ASSUME NEW t \in Threads, Leave(t)
      PROVE  NoLostWakeup' /\ OnlyLoops'
  <2>1. OnlyLoops'
    BY <1>8 DEF Leave, Section, OnlyLoops, DataTypes
  <2>2. stopped' \/ queue' = << >>
    BY <1>8 DEF Leave, Section
  <2> QED BY <2>1, <2>2 DEF NoLostWakeup
<1>9. ASSUME NEW t \in Threads, Sleep(t)
      PROVE  NoLostWakeup' /\ OnlyLoops'
  <2>1. OnlyLoops'
    BY <1>9 DEF Sleep, Section, OnlyLoops, DataTypes
  <2>2. queue' = queue /\ Joined(t) = << >>
    BY <1>9 DEF Sleep
  <2>3. queue = << >>
    BY <2>2 DEF Joined, DataTypes
  <2> QED BY <2>1, <2>2, <2>3 DEF NoLostWakeup
<1>10. ASSUME NEW t \in Threads, Pop(t)
       PROVE  NoLostWakeup' /\ OnlyLoops'
  <2>1. PICK woken \in Notified(Chain(t)) : pc' = [Wake(woken) EXCEPT ![t] = "run"]
    BY <1>10 DEF Pop
  <2>2. pc[t] = "lock" /\ mode' = mode /\ queue' = Tail(Joined(t))
    BY <1>10 DEF Pop, Section
  <2>3. OnlyLoops'
    BY <2>1, <2>2, WakeType DEF OnlyLoops, Sleepers
  <2>4. \A u \in Threads : pc'[u] = "wait" => u \in Sleepers /\ u # t
    BY <2>1, WakeType DEF Sleepers
  <2>5. CASE oneThread
    <3>1. \A u \in Threads : u # t => pc[u] = "out"
      BY <2>2, <2>5 DEF OneInside
    <3>2. Sleepers' = {}
      BY <2>4, <3>1 DEF Sleepers
    <3> QED BY <2>3, <3>2 DEF NoLostWakeup
  <2>6. CASE ~oneThread /\ queue' # << >> /\ Sleepers # {}
    <3>1. PICK u \in Sleepers : woken = {u}
      BY <2>1, <2>2, <2>6 DEF Notified, Chain
    <3>2. pc'[u] = "lock"
      BY <2>1, <2>2, <3>1 DEF Wake, Sleepers
    <3> QED BY <2>3, <3>1, <3>2 DEF NoLostWakeup, Sleepers
  <2>7. CASE queue' = << >> \/ Sleepers = {}
    BY <2>3, <2>4, <2>7 DEF NoLostWakeup, Sleepers
  <2> QED BY <2>5, <2>6, <2>7
<1>11. ASSUME NEW t \in Threads, SpuriousWake(t) \/ Return(t)
       PROVE  NoLostWakeup' /\ OnlyLoops'
  <2>1. pc' = [pc EXCEPT ![t] = "lock"]
    BY <1>11 DEF SpuriousWake, Return, Finish, OnlyLoops, LoopModes
  <2>2. mode' = mode
    BY <1>11 DEF SpuriousWake, Return, Finish
  <2>3. pc'[t] = "lock"
    BY <2>1 DEF DataTypes
  <2> QED BY <2>1, <2>2, <2>3 DEF NoLostWakeup, OnlyLoops, DataTypes
<1>12. ASSUME NEW t \in Threads, TimeOut(t) \/ WaitTimeout(t) \/ Exit(t) \/ Throw(t)
       PROVE  FALSE
  BY <1>12 DEF TimeOut, WaitTimeout, Exit, Throw, OnlyLoops, LoopOnly, TimedModes
<1> QED
  BY <1>1, <1>2, <1>3, <1>4, <1>5, <1>6, <1>7, <1>8, <1>9, <1>10, <1>11, <1>12
     DEF Next, Step, vars

\* If the program uses the scheduler only through run and poll and its
\* functions do not throw, no notification is lost: this is what
\* thread_pool and system_executor rely on.
THEOREM WakeupsNotLost == LoopOnly => (Spec => []NoLostWakeup)
<1> SUFFICES ASSUME LoopOnly PROVE Spec => []NoLostWakeup
  OBVIOUS
<1>1. Init => NoLostWakeup /\ OneInside /\ OnlyLoops
  BY DEF Init, NoLostWakeup, OneInside, OnlyLoops
<1>2. TypeOK /\ NoSleeperWhileStopped /\ NoLostWakeup /\ OneInside /\ OnlyLoops /\ [Next]_vars
        => NoLostWakeup' /\ OneInside' /\ OnlyLoops'
  BY OneInsideStep, WakeupStep
<1> QED
  BY <1>1, <1>2, TypeCorrect, NobodySleepsThroughStop, PTL DEF Spec

----------------------------------------------------------------------------
(* Every operation is in one place.                                        *)

Distinct(s) == \A i, j \in DOMAIN s : s[i] = s[j] => i = j

\* The operations that thread t has: in its private queue, half submitted, or
\* running.
Held(t) == Range(private[t]) \cup ({call[t], cur[t]} \cap Ops)

\* What a thread holds it holds once, as does the queue.
HeldOnce(t) ==
  /\ Distinct(private[t])
  /\ call[t] \in Ops => call[t] # cur[t] /\ call[t] \notin Range(private[t])
  /\ cur[t] \in Ops => cur[t] \notin Range(private[t])

\* The submitted operations that are not done are the queued ones and those of
\* the threads, and these are apart.
Spread ==
  /\ \A t \in Threads : Held(t) \cap Range(queue) = {}
  /\ \A t, u \in Threads : t # u => Held(t) \cap Held(u) = {}
  /\ \A o \in Ops : (o \in submitted /\ o \notin done) <=> (o \in Range(queue) \/ \E t \in Threads : o \in Held(t))
  /\ done \subseteq submitted

OnePlace == Distinct(queue) /\ (\A t \in Threads : HeldOnce(t)) /\ Spread

\* Sequences without repetition.
LEMMA AppendedOnce ==
  ASSUME NEW S, NEW s \in Seq(S), NEW x \in S
  PROVE  /\ Range(Append(s, x)) = Range(s) \cup {x}
         /\ Distinct(s) /\ x \notin Range(s) => Distinct(Append(s, x))
<1>1. /\ DOMAIN Append(s, x) = 1 .. Len(s) + 1 /\ DOMAIN s = 1 .. Len(s) /\ Len(s) \in Nat
      /\ \A i \in 1 .. Len(s) : Append(s, x)[i] = s[i]
      /\ Append(s, x)[Len(s) + 1] = x
  OBVIOUS
<1>2. Range(Append(s, x)) = Range(s) \cup {x}
  BY <1>1 DEF Range
<1>3. ASSUME Distinct(s), x \notin Range(s) PROVE Distinct(Append(s, x))
  BY <1>1, <1>3 DEF Distinct, Range
<1> QED BY <1>2, <1>3

LEMMA JoinedOnce ==
  ASSUME NEW S, NEW s \in Seq(S), NEW r \in Seq(S)
  PROVE  /\ Range(s \o r) = Range(s) \cup Range(r)
         /\ Distinct(s) /\ Distinct(r) /\ Range(s) \cap Range(r) = {} => Distinct(s \o r)
<1>1. /\ DOMAIN (s \o r) = 1 .. Len(s) + Len(r) /\ DOMAIN s = 1 .. Len(s) /\ DOMAIN r = 1 .. Len(r)
      /\ Len(s) \in Nat /\ Len(r) \in Nat
      /\ \A i \in 1 .. Len(s) : (s \o r)[i] = s[i]
      /\ \A i \in Len(s) + 1 .. Len(s) + Len(r) : (s \o r)[i] = r[i - Len(s)]
  OBVIOUS
<1>3. \A i \in DOMAIN (s \o r) : i \in DOMAIN s \/ i - Len(s) \in DOMAIN r
  BY <1>1
<1>4. Range(s \o r) = Range(s) \cup Range(r)
  <2>1. \A i \in DOMAIN (s \o r) : \/ i \in DOMAIN s /\ (s \o r)[i] = s[i]
                                   \/ i - Len(s) \in DOMAIN r /\ (s \o r)[i] = r[i - Len(s)]
    BY <1>1
  <2>2. Range(s \o r) \subseteq Range(s) \cup Range(r) BY <2>1 DEF Range
  <2>3. \A i \in DOMAIN s : i \in DOMAIN (s \o r) /\ (s \o r)[i] = s[i] BY <1>1
  <2>4. Range(s) \subseteq Range(s \o r) BY <2>3 DEF Range
  <2>5. \A i \in DOMAIN r : (s \o r)[i + Len(s)] = r[i] /\ i + Len(s) \in DOMAIN (s \o r) BY <1>1
  <2>6. Range(r) \subseteq Range(s \o r) BY <2>5 DEF Range
  <2> QED BY <2>2, <2>4, <2>6
<1>5. ASSUME Distinct(s), Distinct(r), Range(s) \cap Range(r) = {},
             NEW i \in DOMAIN (s \o r), NEW j \in DOMAIN (s \o r), (s \o r)[i] = (s \o r)[j]
      PROVE  i = j
  <2>1. CASE i \in DOMAIN s /\ j \in DOMAIN s BY <1>1, <1>5, <2>1 DEF Distinct
  <2>2. CASE i \notin DOMAIN s /\ j \notin DOMAIN s
    <3>1. i - Len(s) \in DOMAIN r /\ j - Len(s) \in DOMAIN r /\ r[i - Len(s)] = r[j - Len(s)]
      BY <1>1, <1>3, <1>5, <2>2
    <3>2. i - Len(s) = j - Len(s) BY <1>5, <3>1 DEF Distinct
    <3> QED BY <1>1, <3>2
  <2>3. CASE i \in DOMAIN s <=> j \notin DOMAIN s
    <3>1. ASSUME NEW k \in DOMAIN (s \o r), NEW l \in DOMAIN (s \o r), k \in DOMAIN s, l \notin DOMAIN s
          PROVE  (s \o r)[k] # (s \o r)[l]
      <4>1. (s \o r)[k] = s[k] /\ s[k] \in Range(s) BY <1>1, <3>1 DEF Range
      <4>2. l - Len(s) \in DOMAIN r /\ (s \o r)[l] = r[l - Len(s)] BY <1>1, <3>1
      <4>3. (s \o r)[l] \in Range(r) BY <4>2 DEF Range
      <4> QED BY <1>5, <4>1, <4>3
    <3> QED BY <1>5, <2>3, <3>1
  <2> QED BY <2>1, <2>2, <2>3
<1> QED BY <1>4, <1>5 DEF Distinct

LEMMA TakenOnce ==
  ASSUME NEW S, NEW s \in Seq(S), s # << >>
  PROVE  /\ Head(s) \in S /\ Tail(s) \in Seq(S)
         /\ Range(s) = Range(Tail(s)) \cup {Head(s)}
         /\ Distinct(s) => Distinct(Tail(s)) /\ Head(s) \notin Range(Tail(s))
<1>1. /\ Len(s) \in Nat /\ Len(s) > 0 /\ DOMAIN s = 1 .. Len(s) /\ DOMAIN Tail(s) = 1 .. Len(s) - 1
      /\ Head(s) = s[1] /\ Head(s) \in S /\ Tail(s) \in Seq(S)
      /\ \A i \in 1 .. Len(s) - 1 : Tail(s)[i] = s[i + 1]
  OBVIOUS
<1>2. \A i \in DOMAIN s : i = 1 \/ (i - 1 \in DOMAIN Tail(s) /\ Tail(s)[i - 1] = s[i])
  BY <1>1
<1>3. \A i \in DOMAIN Tail(s) : i + 1 \in DOMAIN s /\ i + 1 # 1 /\ Tail(s)[i] = s[i + 1] /\ 1 \in DOMAIN s
  BY <1>1
<1>4. 1 \in DOMAIN s BY <1>1
<1>5. Range(s) = Range(Tail(s)) \cup {Head(s)}
  <2>1. Range(s) \subseteq Range(Tail(s)) \cup {s[1]} BY <1>2 DEF Range
  <2>2. Range(Tail(s)) \subseteq Range(s) BY <1>3 DEF Range
  <2>3. s[1] \in Range(s) BY <1>4 DEF Range
  <2> QED BY <1>1, <2>1, <2>2, <2>3
<1>6. ASSUME Distinct(s) PROVE Distinct(Tail(s))
  <2> SUFFICES ASSUME NEW i \in DOMAIN Tail(s), NEW j \in DOMAIN Tail(s), Tail(s)[i] = Tail(s)[j]
               PROVE  i = j
    BY DEF Distinct
  <2>1. i + 1 = j + 1 BY <1>3, <1>6 DEF Distinct
  <2> QED BY <1>1, <2>1
<1>7. ASSUME Distinct(s) PROVE Head(s) \notin Range(Tail(s))
  BY <1>1, <1>3, <1>4, <1>7 DEF Distinct, Range
<1> QED BY <1>1, <1>5, <1>6, <1>7

----------------------------------------------------------------------------
\* A thread and the queue hand operations to each other.
LEMMA HandOver ==
  ASSUME Spread, NEW t \in Threads,
         \A u \in Threads : u # t => Held(u)' = Held(u),
         Held(t)' \cap Range(queue') = {},
         Held(t)' \cup Range(queue') = Held(t) \cup Range(queue),
         submitted' = submitted, done' = done
  PROVE  Spread'
<1>1. \A u \in Threads : u # t => Held(u) \cap (Held(t) \cup Range(queue)) = {}
  BY DEF Spread
<1>2. \A u \in Threads : u # t => Held(u)' \cap (Held(t)' \cup Range(queue')) = {}
  BY <1>1
<1>3. \A o \in Ops : (o \in Range(queue') \/ \E u \in Threads : o \in Held(u)')
                       <=> (o \in Range(queue) \/ \E u \in Threads : o \in Held(u))
  OBVIOUS
<1>4. \A u, v \in Threads : u # v => Held(u)' \cap Held(v)' = {}
  BY <1>2 DEF Spread
<1> QED BY <1>2, <1>3, <1>4 DEF Spread

\* What a thread does not touch it goes on holding.
LEMMA OthersHold ==
  ASSUME NEW u \in Threads, private'[u] = private[u], call'[u] = call[u], cur'[u] = cur[u]
  PROVE  Held(u)' = Held(u) /\ (HeldOnce(u) => HeldOnce(u)')
  BY DEF Held, HeldOnce

LEMMA SubmitPlace ==
  ASSUME TypeOK, OnePlace, NEW t \in Threads, NEW o \in Ops,
         KeepPrivate(t, o) \/ ReuseCredit(t, o) \/ CountWork(t, o)
  PROVE  OnePlace'
<1> USE SchedulerAssumption DEF SchedulerAssumption
<1>0. DataTypes /\ call[t] = NoOp /\ o \notin submitted /\ cur[t] # o
  <2>1. DataTypes /\ call[t] = NoOp /\ o \notin submitted
    BY DEF TypeOK, KeepPrivate, ReuseCredit, CountWork, Submits, CanCall
  <2> QED BY <2>1 DEF OnePlace, Spread, Held
<1>1. \A u \in Threads : u # t => private'[u] = private[u] /\ call'[u] = call[u] /\ cur'[u] = cur[u]
  BY <1>0 DEF DataTypes, KeepPrivate, ReuseCredit, CountWork, Submits
<1>2. o \notin Range(queue) /\ \A u \in Threads : o \notin Held(u)
  BY <1>0 DEF OnePlace, Spread
<1>3. queue' = queue /\ done' = done /\ submitted' = submitted \cup {o} /\ cur' = cur
  BY DEF KeepPrivate, ReuseCredit, CountWork, Submits
<1>4. Held(t)' = Held(t) \cup {o} /\ HeldOnce(t)'
  <2>1. CASE KeepPrivate(t, o)
    <3>1. private'[t] = Append(private[t], o) /\ call'[t] = NoOp /\ private[t] \in Seq(Ops)
      BY <1>0, <2>1 DEF KeepPrivate, DataTypes
    <3>2. Distinct(private[t]) /\ o \notin Range(private[t])
      BY <1>2 DEF OnePlace, HeldOnce, Held
    <3>3. Range(private'[t]) = Range(private[t]) \cup {o} /\ Distinct(private'[t])
      BY <3>1, <3>2, AppendedOnce
    <3>4. cur'[t] = cur[t] /\ cur[t] # o BY <1>0, <1>3
    <3> QED BY <1>0, <3>1, <3>3, <3>4 DEF Held, HeldOnce, OnePlace
  <2>2. CASE ReuseCredit(t, o) \/ CountWork(t, o)
    <3>1. call'[t] = o /\ private' = private
      BY <1>0, <2>2 DEF ReuseCredit, CountWork, DataTypes
    <3> QED BY <1>0, <1>2, <1>3, <3>1 DEF Held, HeldOnce, OnePlace
  <2> QED BY <2>1, <2>2
<1>5. \A u \in Threads : u # t => Held(u)' = Held(u) /\ (HeldOnce(u) => HeldOnce(u)')
  BY <1>1, OthersHold
<1>6. Spread'
  BY <1>2, <1>3, <1>4, <1>5, <1>0 DEF OnePlace, Spread
<1> QED BY <1>3, <1>4, <1>5, <1>6 DEF OnePlace

LEMMA PushPlace ==
  ASSUME TypeOK, OnePlace, NEW t \in Threads, Push(t)
  PROVE  OnePlace'
<1> USE SchedulerAssumption DEF SchedulerAssumption
<1>0. DataTypes /\ queue \in Seq(Ops) /\ call[t] \in Ops /\ call'[t] = NoOp
      /\ queue' = Append(queue, call[t])
  BY DEF TypeOK, DataTypes, Push
<1>1. \A u \in Threads : u # t => private'[u] = private[u] /\ call'[u] = call[u] /\ cur'[u] = cur[u]
  BY <1>0 DEF DataTypes, Push
<1>2. private' = private /\ cur' = cur /\ submitted' = submitted /\ done' = done
  BY DEF Push
<1>3. call[t] \notin Range(queue) /\ call[t] \notin Range(private[t]) /\ call[t] # cur[t]
  BY <1>0 DEF OnePlace, Spread, HeldOnce, Held
<1>4. Range(queue') = Range(queue) \cup {call[t]} /\ Distinct(queue')
  BY <1>0, <1>3, AppendedOnce DEF OnePlace
<1>5. Held(t) = Held(t)' \cup {call[t]} /\ call[t] \notin Held(t)'
  BY <1>0, <1>2, <1>3 DEF Held
<1>6. HeldOnce(t)'
  BY <1>0, <1>2 DEF HeldOnce, OnePlace
<1>7. \A u \in Threads : u # t => Held(u)' = Held(u) /\ (HeldOnce(u) => HeldOnce(u)')
  BY <1>1, OthersHold
<1>8. Held(t)' \cap Range(queue') = {} /\ Held(t)' \cup Range(queue') = Held(t) \cup Range(queue)
  BY <1>4, <1>5 DEF OnePlace, Spread
<1>9. Spread'
  BY <1>2, <1>7, <1>8, HandOver DEF OnePlace
<1> QED BY <1>4, <1>6, <1>7, <1>9 DEF OnePlace

\* The private queue and the queue, joined.
LEMMA JoinedPlace ==
  ASSUME DataTypes, OnePlace, NEW t \in Threads
  PROVE  /\ Joined(t) \in Seq(Ops)
         /\ Range(Joined(t)) = Range(queue) \cup Range(private[t])
         /\ Distinct(Joined(t))
<1>1. queue \in Seq(Ops) /\ private[t] \in Seq(Ops) /\ Distinct(queue) /\ Distinct(private[t])
  BY DEF DataTypes, OnePlace, HeldOnce
<1>2. Range(queue) \cap Range(private[t]) = {}
  BY DEF OnePlace, Spread, Held
<1> QED BY <1>1, <1>2, JoinedOnce DEF Joined

LEMMA NothingInEmpty == Range(<< >>) = {} /\ Distinct(<< >>)
  BY DEF Range, Distinct

LEMMA SplicePlace ==
  ASSUME TypeOK, OnePlace, NEW t \in Threads, call[t] = NoOp, cur[t] = NoOp,
         queue' = Joined(t), private' = [private EXCEPT ![t] = << >>],
         UNCHANGED <<call, cur, submitted, done>>
  PROVE  OnePlace'
<1> USE SchedulerAssumption DEF SchedulerAssumption
<1>1. DataTypes BY DEF TypeOK
<1>2. private'[t] = << >> /\ \A u \in Threads : u # t => private'[u] = private[u]
  BY <1>1 DEF DataTypes
<1>3. Range(queue') = Range(queue) \cup Range(private[t]) /\ Distinct(queue')
  BY <1>1, JoinedPlace
<1>4. Held(t)' = {} /\ HeldOnce(t)' /\ Held(t) = Range(private[t])
  BY <1>2, NothingInEmpty DEF Held, HeldOnce
<1>5. \A u \in Threads : u # t => Held(u)' = Held(u) /\ (HeldOnce(u) => HeldOnce(u)')
  BY <1>2, OthersHold
<1>6. Spread'
  BY <1>3, <1>4, <1>5, HandOver DEF OnePlace
<1> QED BY <1>3, <1>4, <1>5, <1>6 DEF OnePlace

LEMMA PopPlace ==
  ASSUME TypeOK, OnePlace, NEW t \in Threads, Pop(t)
  PROVE  OnePlace'
<1> USE SchedulerAssumption DEF SchedulerAssumption
<1> DEFINE s == Joined(t)
<1>1. DataTypes BY DEF TypeOK
<1>2. /\ private'[t] = << >> /\ \A u \in Threads : u # t => private'[u] = private[u]
      /\ cur'[t] = Head(s) /\ \A u \in Threads : u # t => cur'[u] = cur[u]
      /\ call' = call /\ call[t] = NoOp /\ submitted' = submitted /\ done' = done
      /\ queue' = Tail(s) /\ s # << >>
  BY <1>1 DEF DataTypes, Pop, Section, MayPop
<1>3. cur[t] = NoOp
  BY DEF TypeOK, Places, Pop, Section
<1>4. Range(s) = Range(queue) \cup Range(private[t]) /\ Distinct(s) /\ s \in Seq(Ops)
  BY <1>1, JoinedPlace
<1> HIDE DEF s
<1>5. /\ Head(s) \in Ops /\ Range(s) = Range(queue') \cup {Head(s)}
      /\ Distinct(queue') /\ Head(s) \notin Range(queue')
  BY <1>2, <1>4, TakenOnce
<1>6. Held(t)' = {Head(s)} /\ HeldOnce(t)' /\ Held(t) = Range(private[t])
  BY <1>2, <1>3, <1>5, NothingInEmpty DEF Held, HeldOnce
<1>7. \A u \in Threads : u # t => Held(u)' = Held(u) /\ (HeldOnce(u) => HeldOnce(u)')
  BY <1>2, OthersHold
<1>8. Held(t)' \cap Range(queue') = {} /\ Held(t)' \cup Range(queue') = Held(t) \cup Range(queue)
  BY <1>4, <1>5, <1>6
<1>9. Spread'
  BY <1>2, <1>7, <1>8, HandOver DEF OnePlace
<1> QED BY <1>5, <1>6, <1>7, <1>9 DEF OnePlace

LEMMA FinishPlace ==
  ASSUME TypeOK, OnePlace, NEW t \in Threads, NEW next, Finish(t, next)
  PROVE  OnePlace'
<1> USE SchedulerAssumption DEF SchedulerAssumption
<1>1. DataTypes BY DEF TypeOK
<1>2. cur[t] \in Ops /\ call[t] = NoOp
  BY <1>1 DEF TypeOK, DataTypes, Places, Finish, Inside
<1>3. /\ cur'[t] = NoOp /\ \A u \in Threads : u # t => cur'[u] = cur[u]
      /\ private' = private /\ queue' = queue /\ submitted' = submitted /\ done' = done \cup {cur[t]}
      /\ \A u \in Threads : u # t => call'[u] = call[u]
      /\ call'[t] \in {NoOp, StopCall}
  BY <1>1, <1>2 DEF DataTypes, Finish, StopIf
<1>4. Held(t) = Held(t)' \cup {cur[t]} /\ cur[t] \notin Held(t)' /\ HeldOnce(t)'
  BY <1>2, <1>3 DEF Held, HeldOnce, OnePlace
<1>5. \A u \in Threads : u # t => Held(u)' = Held(u) /\ (HeldOnce(u) => HeldOnce(u)')
  BY <1>3, OthersHold
<1>6. cur[t] \in submitted /\ \A u \in Threads : cur[t] \notin Held(u)'
  BY <1>2, <1>4, <1>5 DEF OnePlace, Spread
<1>7. \A o \in Ops : (\E u \in Threads : o \in Held(u)) <=> (o = cur[t] \/ \E u \in Threads : o \in Held(u)')
  BY <1>4, <1>5
<1>8. Spread'
  <2>1. cur[t] \notin Range(queue) BY <1>4 DEF OnePlace, Spread
  <2>2. \A u \in Threads : Held(u)' \subseteq Held(u) BY <1>4, <1>5
  <2>3. \A o \in Ops : (o \in submitted' /\ o \notin done') <=> (o \in Range(queue') \/ \E u \in Threads : o \in Held(u)')
    BY <1>3, <1>6, <1>7, <2>1 DEF OnePlace, Spread
  <2> QED BY <1>3, <1>6, <2>2, <2>3 DEF OnePlace, Spread
<1> QED BY <1>3, <1>4, <1>5, <1>8 DEF OnePlace

\* Nothing moves.
LEMMA StillPlace ==
  ASSUME OnePlace, UNCHANGED <<queue, private, cur, submitted, done>>,
         \A u \in Threads : call'[u] = call[u] \/ (call'[u] \notin Ops /\ call[u] \notin Ops)
  PROVE  OnePlace'
<1>1. \A u \in Threads : Held(u)' = Held(u) /\ (HeldOnce(u) => HeldOnce(u)')
  BY DEF Held, HeldOnce
<1> QED BY <1>1 DEF OnePlace, Spread

LEMMA PlaceStep == TypeOK /\ OnePlace /\ [Next]_vars => OnePlace'
<1> SUFFICES ASSUME TypeOK, OnePlace, [Next]_vars PROVE OnePlace'
  OBVIOUS
<1> USE SchedulerAssumption DEF SchedulerAssumption
<1>0. DataTypes /\ Places BY DEF TypeOK
<1>1. ASSUME NEW t \in Threads, NEW o \in Ops, PostOp(t, o) PROVE OnePlace'
  BY <1>1, SubmitPlace DEF PostOp
<1>2. ASSUME NEW t \in Threads, NEW o \in Ops, Post(t, o) \/ Defer(t, o) PROVE OnePlace'
  BY <1>1, <1>2, SubmitPlace DEF Post, Defer
<1>3. ASSUME NEW t \in Threads, NEW o \in Ops, Dispatch(t, o) PROVE OnePlace'
  <2>1. CASE ~Inside(t) /\ PostOp(t, o) BY <1>1, <2>1
  <2>2. CASE /\ o \in Ops \ submitted /\ submitted' = submitted \cup {o} /\ done' = done \cup {o}
             /\ UNCHANGED <<queue, private, cur, call>>
    <3>1. \A u \in Threads : Held(u)' = Held(u) /\ (HeldOnce(u) => HeldOnce(u)')
      BY <2>2 DEF Held, HeldOnce
    <3>2. Spread' BY <2>2, <3>1 DEF OnePlace, Spread
    <3> QED BY <2>2, <3>1, <3>2 DEF OnePlace
  <2> QED BY <1>3, <2>1, <2>2 DEF Dispatch, shared, context
<1>4. ASSUME NEW t \in Threads, Leave(t) \/ TimeOut(t) \/ Sleep(t) \/ Exit(t) PROVE OnePlace'
  <2>1. cur[t] = NoOp /\ call[t] = NoOp /\ private' = [private EXCEPT ![t] = << >>]
    BY <1>0, <1>4 DEF Leave, TimeOut, Sleep, Exit, Section, Places
  <2>2. UNCHANGED <<call, cur, submitted, done>>
    BY <1>4 DEF Leave, TimeOut, Sleep, Exit, Section
  <2>3. CASE Leave(t) \/ TimeOut(t) \/ Exit(t)
    BY <2>1, <2>2, <2>3, SplicePlace DEF Leave, TimeOut, Exit
  <2>4. CASE Sleep(t)
    <3>1. queue' = queue /\ Joined(t) = << >> BY <2>4 DEF Sleep
    <3>2. queue = << >> BY <1>0, <3>1 DEF Joined, DataTypes
    <3> QED BY <2>1, <2>2, <3>1, <3>2, SplicePlace
  <2> QED BY <1>4, <2>3, <2>4
<1>5. ASSUME NEW t \in Threads, Pop(t) \/ Push(t) \/ Return(t) \/ Throw(t) PROVE OnePlace'
  BY <1>5, PopPlace, PushPlace, FinishPlace DEF Return, Throw
<1>6. ASSUME NEW t \in Threads, NEW w \in Works, WorkStarted(t, w) \/ WorkFinished(t, w) PROVE OnePlace'
  <2>1. UNCHANGED <<queue, private, cur, submitted, done>> /\ call[t] = NoOp
    BY <1>6 DEF WorkStarted, WorkFinished, context, CanCall
  <2>2. call' = call \/ call' = [call EXCEPT ![t] = StopCall]
    BY <1>6 DEF WorkStarted, WorkFinished, StopIf, context
  <2>3. \A u \in Threads : call'[u] = call[u] \/ (call'[u] \notin Ops /\ call[u] \notin Ops)
    BY <1>0, <2>1, <2>2 DEF DataTypes
  <2> QED BY <2>1, <2>3, StillPlace
<1>7. ASSUME NEW t \in Threads, RunStop(t) \/ Stop(t) \/ Restart(t) \/ SpuriousWake(t) \/ WaitTimeout(t)
      PROVE  OnePlace'
  <2>1. UNCHANGED <<queue, private, cur, submitted, done>>
    BY <1>7 DEF RunStop, Stop, StopNow, StopSection, Restart, SpuriousWake, WaitTimeout, shared, context
  <2>2. call' = call \/ (call[t] = StopCall /\ call' = [call EXCEPT ![t] = NoOp])
    BY <1>7 DEF RunStop, Stop, StopNow, Restart, SpuriousWake, WaitTimeout
  <2>3. \A u \in Threads : call'[u] = call[u] \/ (call'[u] \notin Ops /\ call[u] \notin Ops)
    BY <1>0, <2>2 DEF DataTypes
  <2> QED BY <2>1, <2>3, StillPlace
<1>8. ASSUME NEW t \in Threads, NEW m \in Modes, Enter(t, m) PROVE OnePlace'
  <2>1. UNCHANGED <<queue, private, cur, submitted, done>> /\ call[t] = NoOp
    BY <1>8 DEF Enter, shared
  <2>2. call' = call \/ call' = [call EXCEPT ![t] = StopCall]
    BY <1>8 DEF Enter, StopIf
  <2>3. \A u \in Threads : call'[u] = call[u] \/ (call'[u] \notin Ops /\ call[u] \notin Ops)
    BY <1>0, <2>1, <2>2 DEF DataTypes
  <2> QED BY <2>1, <2>3, StillPlace
<1>9. CASE UNCHANGED vars
  BY <1>9, StillPlace DEF vars
<1> QED
  BY <1>2, <1>3, <1>4, <1>5, <1>6, <1>7, <1>8, <1>9 DEF Next, Step

LEMMA PlaceInvariant == Spec => []OnePlace
<1>1. ASSUME Init PROVE OnePlace
  <2>1. queue = << >> /\ submitted = {} /\ done = {}
        /\ \A t \in Threads : private[t] = << >> /\ call[t] = NoOp /\ cur[t] = NoOp
    BY <1>1 DEF Init
  <2>2. \A t \in Threads : Held(t) = {} /\ HeldOnce(t)
    BY <2>1, SchedulerAssumption, NothingInEmpty DEF Held, HeldOnce
  <2> QED BY <2>1, <2>2, NothingInEmpty DEF OnePlace, Spread
<1> QED BY <1>1, PlaceStep, TypeCorrect, PTL DEF Spec

----------------------------------------------------------------------------
(* The scheduler implements the Executor specification.                    *)

LEMMA HeldAre ==
  ASSUME TypeOK, OnePlace, NEW t \in Threads, cur[t] \in Ops
  PROVE  cur[t] \in submitted /\ cur[t] \notin done /\ \A u \in Threads : cur[u] = cur[t] => u = t
<1>1. \A u \in Threads : cur[u] \in Ops => cur[u] \in Held(u) BY DEF Held
<1> QED BY <1>1 DEF OnePlace, Spread

\* A submission; of the function that is executed at once, see below.
LEMMA SubmitPromised ==
  ASSUME TypeOK, OnePlace, NEW t \in Threads, NEW o \in Ops,
         KeepPrivate(t, o) \/ ReuseCredit(t, o) \/ CountWork(t, o)
  PROVE  Promise!Submit(o)
<1>1. o \notin submitted /\ submitted' = submitted \cup {o} /\ UNCHANGED <<cur, done, stopped>>
  BY DEF KeepPrivate, ReuseCredit, CountWork, Submits
<1>2. o \notin done /\ \A u \in Threads : cur[u] # o
  BY <1>1, HeldAre DEF OnePlace, Spread
<1>3. StatusOf(o) = "new" /\ StatusOf(o)' = "waiting"
  BY <1>1, <1>2 DEF StatusOf
<1>4. \A p \in Ops : p # o => StatusOf(p)' = StatusOf(p)
  BY <1>1 DEF StatusOf
<1> QED BY <1>1, <1>3, <1>4 DEF Promise!Submit

LEMMA InlinePromised ==
  ASSUME TypeOK, OnePlace, NEW t \in Threads, NEW o \in Ops, Dispatch(t, o), Inside(t)
  PROVE  Promise!RunInline(t, o)
<1>1. /\ o \notin submitted /\ submitted' = submitted \cup {o} /\ done' = done \cup {o}
      /\ UNCHANGED <<cur, stopped>> /\ cur[t] # NoOp
  BY DEF Dispatch, shared, context, TypeOK, Places, Inside
<1>2. StatusOf(o) = "new" /\ StatusOf(o)' = "done"
  BY <1>1 DEF StatusOf
<1>3. \A p \in Ops : p # o => StatusOf(p)' = StatusOf(p)
  BY <1>1 DEF StatusOf
<1> QED BY <1>1, <1>2, <1>3 DEF Promise!RunInline

LEMMA StartPromised ==
  ASSUME TypeOK, OnePlace, NEW t \in Threads, Pop(t)
  PROVE  \E o \in Ops : Promise!Start(t, o)
<1> USE SchedulerAssumption DEF SchedulerAssumption
<1>1. DataTypes BY DEF TypeOK
<1>2. /\ Range(Joined(t)) = Range(queue) \cup Range(private[t])
      /\ Joined(t) \in Seq(Ops) /\ Joined(t) # << >>
  BY <1>1, JoinedPlace DEF Pop, MayPop
<1>3. PICK o \in Ops : o = Head(Joined(t)) /\ o \in Range(Joined(t))
  BY <1>2, TakenOnce
<1>4. /\ cur' = [cur EXCEPT ![t] = o] /\ cur'[t] = o /\ \A u \in Threads : u # t => cur'[u] = cur[u]
      /\ submitted' = submitted /\ done' = done /\ ~stopped /\ stopped' = stopped
  BY <1>1, <1>3 DEF DataTypes, Pop, Section, MayPop
<1>5. cur[t] = NoOp
  BY DEF TypeOK, Places, Pop, Section
<1>6. o \in submitted /\ o \notin done
  BY <1>2, <1>3 DEF OnePlace, Spread, Held
<1>7. \A u \in Threads : cur[u] # o
  <2>1. \A u \in Threads : o \in Held(u) => u = t /\ o \notin Range(queue)
    BY <1>2, <1>3 DEF OnePlace, Spread, Held
  <2> QED BY <1>3, <1>5, <2>1 DEF Held
<1>8. StatusOf(o) = "waiting" /\ StatusOf(o)' = "running"
  BY <1>4, <1>6, <1>7 DEF StatusOf
<1>9. ASSUME NEW p \in Ops, p # o PROVE StatusOf(p)' = StatusOf(p)
  <2>1. (\E u \in Threads : cur'[u] = p) <=> (\E u \in Threads : cur[u] = p)
    BY <1>4, <1>5, <1>9
  <2> QED BY <1>4, <2>1 DEF StatusOf
<1>10. Promise!Start(t, o)
  BY <1>4, <1>5, <1>8, <1>9 DEF Promise!Start
<1> QED BY <1>10

LEMMA FinishPromised ==
  ASSUME TypeOK, OnePlace, NEW t \in Threads, NEW next, Finish(t, next)
  PROVE  Promise!Finish(t)
<1> USE SchedulerAssumption DEF SchedulerAssumption
<1>1. DataTypes BY DEF TypeOK
<1>2. PICK o \in Ops : o = cur[t]
  BY <1>1 DEF TypeOK, DataTypes, Places, Finish, Inside
<1>3. /\ cur' = [cur EXCEPT ![t] = NoOp] /\ cur'[t] = NoOp /\ \A u \in Threads : u # t => cur'[u] = cur[u]
      /\ submitted' = submitted /\ done' = done \cup {o} /\ stopped' = stopped
  BY <1>1, <1>2 DEF DataTypes, Finish
<1>4. o \in submitted /\ \A u \in Threads : cur[u] = o => u = t
  BY <1>2, HeldAre
<1>5. StatusOf(o)' = "done"
  BY <1>3, <1>4 DEF StatusOf
<1>6. ASSUME NEW p \in Ops, p # o PROVE StatusOf(p)' = StatusOf(p)
  <2>1. (\E u \in Threads : cur'[u] = p) <=> (\E u \in Threads : cur[u] = p)
    BY <1>2, <1>3, <1>6
  <2> QED BY <1>3, <1>6, <2>1 DEF StatusOf
<1>7. cur[t] # NoOp BY <1>2
<1> QED BY <1>2, <1>3, <1>5, <1>6, <1>7 DEF Promise!Finish

\* What the specification does not tell.
LEMMA StillPromised ==
  ASSUME UNCHANGED <<cur, submitted, done>>
  PROVE  /\ stopped' = TRUE => Promise!Halt
         /\ stopped' = FALSE => Promise!Restart
         /\ stopped' = stopped => UNCHANGED Promise!vars
<1>1. \A p \in Ops : StatusOf(p)' = StatusOf(p) BY DEF StatusOf
<1> QED BY <1>1 DEF Promise!Halt, Promise!Restart, Promise!vars

LEMMA PromisedStep ==
  ASSUME TypeOK, OnePlace, [Next]_vars
  PROVE  [Promise!Next]_(Promise!vars)
<1>1. ASSUME NEW t \in Threads, NEW o \in Ops, PostOp(t, o) PROVE Promise!Submit(o)
  BY <1>1, SubmitPromised DEF PostOp
<1>2. ASSUME NEW t \in Threads, NEW o \in Ops, Post(t, o) \/ Defer(t, o) \/ Dispatch(t, o)
      PROVE  Promise!Next
  <2>1. CASE Post(t, o) \/ Defer(t, o)
    <3>1. Promise!Submit(o) BY <1>1, <2>1, SubmitPromised DEF Post, Defer
    <3> QED BY <3>1 DEF Promise!Next
  <2>2. CASE Dispatch(t, o) /\ Inside(t)
    <3>1. Promise!RunInline(t, o) BY <2>2, InlinePromised
    <3> QED BY <3>1 DEF Promise!Next
  <2>3. CASE Dispatch(t, o) /\ ~Inside(t)
    <3>1. Promise!Submit(o) BY <1>1, <2>3 DEF Dispatch
    <3> QED BY <3>1 DEF Promise!Next
  <2> QED BY <1>2, <2>1, <2>2, <2>3
<1>3. ASSUME NEW t \in Threads, Pop(t) PROVE Promise!Next
  BY <1>3, StartPromised DEF Promise!Next
<1>4. ASSUME NEW t \in Threads, Return(t) \/ Throw(t) PROVE Promise!Next
  <2>1. Promise!Finish(t) BY <1>4, FinishPromised DEF Return, Throw
  <2> QED BY <2>1 DEF Promise!Next
<1>5. ASSUME NEW t \in Threads, RunStop(t) \/ Stop(t) PROVE Promise!Next
  <2>1. UNCHANGED <<cur, submitted, done>> /\ stopped' = TRUE
    BY <1>5 DEF RunStop, Stop, StopNow, StopSection
  <2> QED BY <2>1, StillPromised DEF Promise!Next
<1>6. ASSUME NEW t \in Threads, Restart(t) PROVE Promise!Next
  <2>1. UNCHANGED <<cur, submitted, done>> /\ stopped' = FALSE
    BY <1>6 DEF Restart, context
  <2> QED BY <2>1, StillPromised DEF Promise!Next
<1>7. ASSUME NEW t \in Threads,
             \/ Leave(t) \/ TimeOut(t) \/ Sleep(t) \/ Exit(t) \/ Push(t)
             \/ SpuriousWake(t) \/ WaitTimeout(t)
      PROVE  UNCHANGED Promise!vars
  <2>1. UNCHANGED <<cur, submitted, done>> /\ stopped' = stopped
    BY <1>7 DEF Leave, TimeOut, Sleep, Exit, Section, Push, SpuriousWake, WaitTimeout, shared
  <2> QED BY <2>1, StillPromised
<1>8. ASSUME NEW t \in Threads,
             \/ \E w \in Works : WorkStarted(t, w) \/ WorkFinished(t, w)
             \/ \E m \in Modes : Enter(t, m)
      PROVE  UNCHANGED Promise!vars
  <2>1. UNCHANGED <<cur, submitted, done>> /\ stopped' = stopped
    BY <1>8 DEF WorkStarted, WorkFinished, Enter, shared, context
  <2> QED BY <2>1, StillPromised
<1>9. CASE UNCHANGED vars
  <2>1. UNCHANGED <<cur, submitted, done>> /\ stopped' = stopped BY <1>9 DEF vars
  <2> QED BY <2>1, StillPromised
<1> QED
  BY <1>2, <1>3, <1>4, <1>5, <1>6, <1>7, <1>8, <1>9 DEF Next, Step

\* Every function is run once, by a thread in an entry point that is running
\* nothing else, and not while the scheduler is stopped, for any threads,
\* functions and entry points (scheduler.h:203-386).
THEOREM SchedulerIsExecutor == Spec => ImplementsExecutor
<1>1. ASSUME Init PROVE Promise!Init
  <2>1. \A o \in Ops : StatusOf(o) = "new" BY <1>1 DEF Init, StatusOf
  <2> QED BY <1>1, <2>1 DEF Init, Promise!Init
<1>2. TypeOK /\ OnePlace /\ [Next]_vars => [Promise!Next]_(Promise!vars)
  BY PromisedStep
<1> QED BY <1>1, <1>2, TypeCorrect, PlaceInvariant, PTL DEF Spec, ImplementsExecutor, Promise!Spec

----------------------------------------------------------------------------
(* The count of outstanding work is exact.                                 *)

\* What thread t answers for of the count, and all the rest of it.
Owes(t) ==
  ({call[t]} \cap Ops)
    \cup {x \in Range(private[t]) : pc[t] # "run"}
    \cup {x \in {cur[t]} : KeepsCredit(t)}
Rest(t) == tokens \cup Range(queue) \cup UNION {Owes(u) : u \in Threads \ {t}}

\* While a function runs, the delta counts the private queue, less the unit of
\* the function itself if it still has it.
DeltaShape ==
  \A t \in Threads : pc[t] = "run" => delta[t] \in {Len(private[t]) - 1, Len(private[t])}

CountExact == IsFiniteSet(Counted) /\ work = Cardinality(Counted)

LEMMA OwesOnlyHeld ==
  ASSUME TypeOK, NEW t \in Threads
  PROVE  Owes(t) \subseteq Held(t) /\ Owes(t) \subseteq Ops
<1>1. DataTypes /\ private[t] \in Seq(Ops) BY DEF TypeOK, DataTypes
<1>2. Range(private[t]) \subseteq Ops BY <1>1 DEF Range
<1>3. KeepsCredit(t) => cur[t] \in Ops
  BY <1>1 DEF TypeOK, DataTypes, Places, KeepsCredit
<1> QED BY <1>2, <1>3 DEF Owes, Held

LEMMA CountSplits ==
  ASSUME TypeOK, OnePlace, NEW t \in Threads
  PROVE  Counted = Rest(t) \cup Owes(t) /\ Rest(t) \cap Held(t) = {}
<1> USE SchedulerAssumption DEF SchedulerAssumption
<1>1. DataTypes BY DEF TypeOK
<1>2. ASSUME NEW x PROVE x \in Counted <=> x \in tokens \/ x \in Range(queue) \/ \E u \in Threads : x \in Owes(u)
  <2>1. x \in {call[u] : u \in {v \in Threads : call[v] \in Ops}} <=> \E u \in Threads : x \in {call[u]} \cap Ops
    OBVIOUS
  <2>2. x \in UNION {Range(private[u]) : u \in {v \in Threads : pc[v] # "run"}}
          <=> \E u \in Threads : x \in {y \in Range(private[u]) : pc[u] # "run"}
    OBVIOUS
  <2>3. x \in {cur[u] : u \in {v \in Threads : KeepsCredit(v)}}
          <=> \E u \in Threads : x \in {y \in {cur[u]} : KeepsCredit(u)}
    OBVIOUS
  <2>4. x \in Counted <=> \/ x \in tokens \/ x \in Range(queue)
                          \/ x \in {call[u] : u \in {v \in Threads : call[v] \in Ops}}
                          \/ x \in UNION {Range(private[u]) : u \in {v \in Threads : pc[v] # "run"}}
                          \/ x \in {cur[u] : u \in {v \in Threads : KeepsCredit(v)}}
    BY DEF Counted
  <2>5. \A u \in Threads : x \in Owes(u) <=> \/ x \in {call[u]} \cap Ops
                                            \/ x \in {y \in Range(private[u]) : pc[u] # "run"}
                                            \/ x \in {y \in {cur[u]} : KeepsCredit(u)}
    BY DEF Owes
  <2> QED BY <2>1, <2>2, <2>3, <2>4, <2>5
<1>3. \A x : x \in Counted <=> x \in Rest(t) \/ x \in Owes(t)
  BY <1>2 DEF Rest
<1>4. tokens \cap Held(t) = {}
  <2>0. private[t] \in Seq(Ops) BY <1>1 DEF DataTypes
  <2>1. Range(private[t]) \subseteq Ops
    BY <2>0 DEF Range
  <2>2. Held(t) \subseteq Ops BY <2>1 DEF Held
  <2>3. tokens \subseteq Works BY <1>1 DEF DataTypes
  <2> QED BY <2>2, <2>3
<1>5. \A u \in Threads \ {t} : Owes(u) \cap Held(t) = {}
  BY OwesOnlyHeld DEF OnePlace, Spread
<1>6. Rest(t) \cap Held(t) = {}
  BY <1>4, <1>5 DEF Rest, OnePlace, Spread
<1> QED BY <1>3, <1>6

LEMMA OthersOwe ==
  ASSUME NEW u \in Threads, private'[u] = private[u], call'[u] = call[u], cur'[u] = cur[u],
         delta'[u] = delta[u], pc'[u] = pc[u] \/ {pc[u], pc'[u]} = {"wait", "lock"}
  PROVE  Owes(u)' = Owes(u)
<1>1. pc[u] = "run" <=> pc'[u] = "run" OBVIOUS
<1>2. KeepsCredit(u)' <=> KeepsCredit(u) BY <1>1 DEF KeepsCredit
<1> QED BY <1>1, <1>2 DEF Owes

Splits(t) ==
  TypeOK /\ OnePlace => /\ Counted = Rest(t) \cup Owes(t) /\ Rest(t) \cap Held(t) = {}
                       /\ Owes(t) \subseteq Held(t)

\* So it is after every step.
LEMMA CountSplitsThen ==
  ASSUME NEW t \in Threads
  PROVE  Splits(t)'
<1>1. Splits(t)
  BY CountSplits, OwesOnlyHeld DEF Splits
<1> QED BY <1>1, PTL

LEMMA TwoParts ==
  ASSUME NEW S, NEW A, NEW B, S = A \cup B, A \cap B = {}, IsFiniteSet(A), IsFiniteSet(B)
  PROVE  IsFiniteSet(S) /\ Cardinality(S) = Cardinality(A) + Cardinality(B)
<1>1. Cardinality(A \cap B) = 0 BY FS_EmptySet
<1>2. Cardinality(A) \in Nat /\ Cardinality(B) \in Nat BY FS_CardinalityType
<1>3. /\ IsFiniteSet(A \cup B)
      /\ Cardinality(A \cup B) = Cardinality(A) + Cardinality(B) - Cardinality(A \cap B)
  BY FS_Union
<1> QED BY <1>1, <1>2, <1>3

\* The count follows what a thread owes, if the rest stays.
LEMMA CountFollows ==
  ASSUME TypeOK, OnePlace, TypeOK', OnePlace', CountExact, NEW t \in Threads,
         Rest(t)' = Rest(t), IsFiniteSet(Owes(t)'),
         work' = work + Cardinality(Owes(t)') - Cardinality(Owes(t))
  PROVE  CountExact'
<1>1. Counted = Rest(t) \cup Owes(t) /\ Rest(t) \cap Owes(t) = {}
  BY CountSplits, OwesOnlyHeld
<1>2. Counted' = Rest(t) \cup Owes(t)' /\ Rest(t) \cap Owes(t)' = {}
  <2>1. Counted' = Rest(t)' \cup Owes(t)' /\ Rest(t)' \cap Held(t)' = {} /\ Owes(t)' \subseteq Held(t)'
    BY CountSplitsThen DEF Splits
  <2> QED BY <2>1
<1>3. IsFiniteSet(Rest(t)) /\ IsFiniteSet(Owes(t))
  BY <1>1, FS_Subset DEF CountExact
<1>4. Cardinality(Counted) = Cardinality(Rest(t)) + Cardinality(Owes(t))
  BY <1>1, <1>3, TwoParts
<1>5. IsFiniteSet(Counted') /\ Cardinality(Counted') = Cardinality(Rest(t)) + Cardinality(Owes(t)')
  BY <1>2, <1>3, TwoParts
<1>6. Cardinality(Rest(t)) \in Nat /\ Cardinality(Owes(t)) \in Nat /\ Cardinality(Owes(t)') \in Nat
  BY <1>3, FS_CardinalityType
<1> QED BY <1>4, <1>5, <1>6 DEF CountExact

\* The threads other than t are left alone, but for being woken.
Alone(t) ==
  \A u \in Threads : u # t =>
    /\ private'[u] = private[u] /\ call'[u] = call[u] /\ cur'[u] = cur[u] /\ delta'[u] = delta[u]
    /\ pc'[u] = pc[u] \/ {pc[u], pc'[u]} = {"wait", "lock"}

LEMMA RestStays ==
  ASSUME NEW t \in Threads, Alone(t), tokens' = tokens
  PROVE  /\ UNION {Owes(u)' : u \in Threads \ {t}} = UNION {Owes(u) : u \in Threads \ {t}}
         /\ queue' = queue => Rest(t)' = Rest(t)
<1>1. \A u \in Threads : u # t => Owes(u)' = Owes(u)
  BY OthersOwe DEF Alone
<1>2. UNION {Owes(u)' : u \in Threads \ {t}} = UNION {Owes(u) : u \in Threads \ {t}}
  BY <1>1
<1> QED BY <1>2 DEF Rest

\* Handed over between a thread and the queue, it is counted as before.
LEMMA CountStays ==
  ASSUME TypeOK, OnePlace, TypeOK', OnePlace', CountExact, NEW t \in Threads,
         Alone(t), tokens' = tokens, work' = work,
         Range(queue') \cup Owes(t)' = Range(queue) \cup Owes(t)
  PROVE  CountExact'
<1>1. Counted = Rest(t) \cup Owes(t) BY CountSplits
<1>2. Counted' = Rest(t)' \cup Owes(t)' BY CountSplitsThen DEF Splits
<1>3. UNION {Owes(u)' : u \in Threads \ {t}} = UNION {Owes(u) : u \in Threads \ {t}}
  BY RestStays
<1>4. Rest(t)' = tokens' \cup Range(queue') \cup UNION {Owes(u)' : u \in Threads \ {t}}
  BY DEF Rest
<1>5. Counted' = Counted BY <1>1, <1>2, <1>3, <1>4 DEF Rest
<1> QED BY <1>5 DEF CountExact

\* A queue without repetition has as many operations as it is long.
LEMMA AsManyAsLong ==
  ASSUME NEW S, NEW s \in Seq(S), Distinct(s)
  PROVE  IsFiniteSet(Range(s)) /\ Cardinality(Range(s)) = Len(s)
<1>1. s \in [1 .. Len(s) -> Range(s)] /\ Len(s) \in Nat /\ DOMAIN s = 1 .. Len(s)
  BY DEF Range
<1>2. s \in Bijection(1 .. Len(s), Range(s))
  <2>1. s \in Injection(1 .. Len(s), Range(s))
    BY <1>1 DEF Injection, IsInjective, Distinct
  <2>2. \A x \in Range(s) : \E i \in 1 .. Len(s) : s[i] = x
    BY <1>1 DEF Range
  <2>3. s \in Surjection(1 .. Len(s), Range(s))
    BY <1>1, <2>2 DEF Surjection
  <2> QED BY <2>1, <2>3 DEF Bijection
<1>3. ExistsBijection(1 .. Len(s), Range(s))
  BY <1>2 DEF ExistsBijection
<1>4. IsFiniteSet(1 .. Len(s)) /\ Cardinality(1 .. Len(s)) = Len(s)
  <2> DEFINE n == Len(s)
  <2>1. n \in Nat BY <1>1
  <2> HIDE DEF n
  <2>2. IsFiniteSet(1 .. n) /\ Cardinality(1 .. n) = IF 1 > n THEN 0 ELSE n - 1 + 1
    BY <2>1, FS_Interval
  <2>3. IsFiniteSet(1 .. n) /\ Cardinality(1 .. n) = n
    BY <2>1, <2>2
  <2> QED BY <2>3 DEF n
<1> QED BY <1>3, <1>4, FS_Bijection

LEMMA NoneOrOne == /\ \A x : IsFiniteSet({x}) /\ Cardinality({x}) = 1
                   /\ IsFiniteSet({}) /\ Cardinality({}) = 0
  BY FS_Singleton, FS_EmptySet

----------------------------------------------------------------------------
(* The steps.                                                              *)

LEMMA ShapeFollows ==
  ASSUME DeltaShape, NEW t \in Threads,
         \A u \in Threads : u # t => pc'[u] = pc[u] /\ private'[u] = private[u] /\ delta'[u] = delta[u],
         delta'[t] \in {Len(private'[t]) - 1, Len(private'[t])}
  PROVE  DeltaShape'
<1> SUFFICES ASSUME NEW u \in Threads, pc'[u] = "run"
             PROVE  delta'[u] \in {Len(private'[u]) - 1, Len(private'[u])}
  BY DEF DeltaShape
<1>1. CASE u = t BY <1>1
<1>2. CASE u # t BY <1>2 DEF DeltaShape
<1> QED BY <1>1, <1>2

LEMMA SubmitCounted ==
  ASSUME TypeOK, OnePlace, TypeOK', OnePlace', DeltaShape, CountExact, NEW t \in Threads, NEW o \in Ops,
         \/ Inside(t) /\ KeepPrivate(t, o)
         \/ Inside(t) /\ HasCredit(t) /\ ReuseCredit(t, o)
         \/ CountWork(t, o)
  PROVE  DeltaShape' /\ CountExact'
<1> USE SchedulerAssumption DEF SchedulerAssumption
<1>0. DataTypes /\ DataTypes' /\ call[t] = NoOp /\ o \notin submitted /\ work \in Int
  BY DEF TypeOK, DataTypes, KeepPrivate, ReuseCredit, CountWork, Submits, CanCall
<1>1. /\ pc' = pc /\ cur' = cur /\ tokens' = tokens /\ queue' = queue
      /\ Alone(t)
  BY <1>0 DEF DataTypes, KeepPrivate, ReuseCredit, CountWork, Submits, Alone
<1>2. Rest(t)' = Rest(t) BY <1>1, RestStays
<1>3. CASE pc[t] = "run" /\ KeepPrivate(t, o)
  <2>1. /\ private'[t] = Append(private[t], o) /\ delta'[t] = delta[t] + 1 /\ call' = call /\ work' = work
        /\ private[t] \in Seq(Ops) /\ delta[t] \in Int
    BY <1>0, <1>3 DEF KeepPrivate, DataTypes
  <2>2. Len(private'[t]) = Len(private[t]) + 1 /\ Len(private[t]) \in Nat BY <2>1
  <2>3. \A u \in Threads : u # t => private'[u] = private[u] /\ delta'[u] = delta[u]
    BY <1>1 DEF Alone
  <2>4. DeltaShape'
    <3>1. delta[t] \in {Len(private[t]) - 1, Len(private[t])} BY <1>3 DEF DeltaShape
    <3>2. delta'[t] \in {Len(private'[t]) - 1, Len(private'[t])} BY <2>1, <2>2, <3>1
    <3> QED BY <1>1, <2>3, <3>2, ShapeFollows
  <2>5. KeepsCredit(t)' <=> KeepsCredit(t)
    <3>1. delta[t] = Len(private[t]) - 1 <=> delta'[t] = Len(private'[t]) - 1 BY <2>1, <2>2
    <3> QED BY <1>1, <3>1 DEF KeepsCredit
  <2>6. Owes(t)' = Owes(t) BY <1>1, <1>3, <2>1, <2>5 DEF Owes
  <2>7. Range(queue') \cup Owes(t)' = Range(queue) \cup Owes(t) BY <1>1, <2>6
  <2>8. CountExact' BY <1>1, <2>1, <2>7, CountStays
  <2> QED BY <2>4, <2>8
<1>4. CASE CountWork(t, o)
  <2>1. call'[t] = o /\ delta' = delta /\ private' = private /\ work' = work + 1
    BY <1>0, <1>4 DEF CountWork, DataTypes
  <2>2. DeltaShape' BY <1>1, <2>1 DEF DeltaShape
  <2>3. KeepsCredit(t)' <=> KeepsCredit(t) BY <1>1, <2>1 DEF KeepsCredit
  <2>4. o \notin Held(t) BY <1>0 DEF OnePlace, Spread
  <2>5. Owes(t)' = Owes(t) \cup {o} BY <1>0, <1>1, <2>1, <2>3 DEF Owes
  <2>6. IsFiniteSet(Owes(t)) BY CountSplits, FS_Subset DEF CountExact
  <2>7. o \notin Owes(t) BY <2>4, OwesOnlyHeld
  <2>8. IsFiniteSet(Owes(t)') /\ Cardinality(Owes(t)') = Cardinality(Owes(t)) + 1 /\ Cardinality(Owes(t)) \in Nat
    BY <2>5, <2>6, <2>7, FS_AddElement, FS_CardinalityType
  <2>9. CountExact' BY <1>0, <1>2, <2>1, <2>8, CountFollows
  <2> QED BY <2>2, <2>9
<1>5. CASE pc[t] = "run" /\ HasCredit(t) /\ ReuseCredit(t, o)
  <2>1. /\ call'[t] = o /\ delta'[t] = delta[t] + 1 /\ private' = private /\ work' = work
        /\ delta[t] \in Int /\ delta[t] < 0 /\ Len(private[t]) \in Nat
    BY <1>0, <1>5 DEF ReuseCredit, HasCredit, DataTypes
  <2>2. delta[t] = -1 /\ delta'[t] = 0 /\ Len(private[t]) = 0
    BY <1>5, <2>1 DEF DeltaShape
  <2>3. private[t] = << >> BY <1>0, <2>2 DEF DataTypes
  <2>4. KeepsCredit(t) /\ ~KeepsCredit(t)'
    BY <1>1, <1>5, <2>1, <2>2 DEF KeepsCredit
  <2>5. \A u \in Threads : u # t => private'[u] = private[u] /\ delta'[u] = delta[u]
    BY <1>1 DEF Alone
  <2>6. DeltaShape'
    <3>1. delta'[t] \in {Len(private'[t]) - 1, Len(private'[t])} BY <2>1, <2>2
    <3> QED BY <1>1, <2>5, <3>1, ShapeFollows
  <2>7. Owes(t) = {cur[t]} BY <1>0, <2>3, <2>4, NothingInEmpty DEF Owes
  <2>8. Owes(t)' = {o} BY <2>1, <2>3, <2>4, NothingInEmpty DEF Owes
  <2>9. Cardinality(Owes(t)) = 1 /\ Cardinality(Owes(t)') = 1 /\ IsFiniteSet(Owes(t)')
    BY <2>7, <2>8, NoneOrOne
  <2>10. work' = work + Cardinality(Owes(t)') - Cardinality(Owes(t)) BY <1>0, <2>1, <2>9
  <2>11. CountExact' BY <1>2, <2>9, <2>10, CountFollows
  <2> QED BY <2>6, <2>11
<1> QED BY <1>3, <1>4, <1>5 DEF Inside

\* A notification moves sleepers, and nobody else.
LEMMA WakeMoves ==
  ASSUME NEW woken, woken \subseteq Sleepers, NEW u \in Threads
  PROVE  Wake(woken)[u] = pc[u] \/ {pc[u], Wake(woken)[u]} = {"wait", "lock"}
  BY DEF Wake, Sleepers

LEMMA NotifiedSleep == \A wanted : \A woken \in Notified(wanted) : woken \subseteq Sleepers
  BY DEF Notified

LEMMA PushWakes ==
  ASSUME NEW t \in Threads, Push(t)
  PROVE  \A u \in Threads : pc'[u] = pc[u] \/ {pc[u], pc'[u]} = {"wait", "lock"}
<1>1. PICK woken \in Notified(NotifyOnPush) : pc' = Wake(woken) BY DEF Push
<1> QED BY <1>1, WakeMoves, NotifiedSleep

LEMMA PopWakes ==
  ASSUME TypeOK, NEW t \in Threads, Pop(t)
  PROVE  /\ pc'[t] = "run"
         /\ \A u \in Threads : u # t => (pc'[u] = pc[u] \/ {pc[u], pc'[u]} = {"wait", "lock"})
<1>1. PICK woken \in Notified(Chain(t)) : pc' = [Wake(woken) EXCEPT ![t] = "run"] BY DEF Pop
<1>2. DOMAIN Wake(woken) = Threads BY DEF Wake
<1>3. pc'[t] = "run" /\ \A u \in Threads : u # t => pc'[u] = Wake(woken)[u] BY <1>1, <1>2
<1> QED BY <1>3, WakeMoves, NotifiedSleep

\* A thread pushes what it was half way through submitting.
LEMMA PushCounted ==
  ASSUME TypeOK, OnePlace, TypeOK', OnePlace', DeltaShape, CountExact, NEW t \in Threads, Push(t)
  PROVE  DeltaShape' /\ CountExact'
<1> USE SchedulerAssumption DEF SchedulerAssumption
<1>1. /\ call[t] \in Ops /\ call'[t] = NoOp /\ \A u \in Threads : u # t => call'[u] = call[u]
      /\ queue' = Append(queue, call[t]) /\ queue \in Seq(Ops)
      /\ UNCHANGED <<work, delta, private, cur, tokens>>
  BY DEF Push, TypeOK, DataTypes
<1>2. \A u \in Threads : pc'[u] = pc[u] \/ {pc[u], pc'[u]} = {"wait", "lock"}
  BY PushWakes
<1>3. Alone(t) BY <1>1, <1>2 DEF Alone
<1>4. \A u \in Threads : pc'[u] = "run" <=> pc[u] = "run" BY <1>2
<1>5. DeltaShape' BY <1>1, <1>4 DEF DeltaShape
<1>6. KeepsCredit(t)' <=> KeepsCredit(t) BY <1>1, <1>4 DEF KeepsCredit
<1>7. Range(queue') = Range(queue) \cup {call[t]}
  BY <1>1, AppendedOnce
<1>8. Owes(t) = Owes(t)' \cup {call[t]}
  BY <1>1, <1>4, <1>6 DEF Owes
<1>9. Range(queue') \cup Owes(t)' = Range(queue) \cup Owes(t)
  BY <1>7, <1>8
<1>10. CountExact' BY <1>1, <1>3, <1>9, CountStays
<1> QED BY <1>5, <1>10

\* A thread hands over its private queue.
LEMMA SpliceCounted ==
  ASSUME TypeOK, OnePlace, TypeOK', OnePlace', DeltaShape, CountExact, NEW t \in Threads,
         call[t] = NoOp, pc[t] # "run", pc'[t] # "run",
         queue' = Joined(t), private' = [private EXCEPT ![t] = << >>],
         UNCHANGED <<call, cur, work, delta, tokens>>, \A u \in Threads : u # t => pc'[u] = pc[u]
  PROVE  DeltaShape' /\ CountExact'
<1> USE SchedulerAssumption DEF SchedulerAssumption
<1>1. DataTypes BY DEF TypeOK
<1>2. private'[t] = << >> /\ \A u \in Threads : u # t => private'[u] = private[u]
  BY <1>1 DEF DataTypes
<1>3. Alone(t) BY <1>2 DEF Alone
<1>4. DeltaShape' BY <1>2 DEF DeltaShape
<1>5. ~KeepsCredit(t) /\ ~KeepsCredit(t)' BY DEF KeepsCredit
<1>6. Owes(t) = Range(private[t]) /\ Owes(t)' = {}
  BY <1>2, <1>5, NothingInEmpty DEF Owes
<1>7. Range(queue') \cup Owes(t)' = Range(queue) \cup Owes(t)
  BY <1>1, <1>6, JoinedPlace
<1>8. CountExact' BY <1>3, <1>7, CountStays
<1> QED BY <1>4, <1>8

\* The function that is popped keeps its unit of work.
LEMMA PopCounted ==
  ASSUME TypeOK, OnePlace, TypeOK', OnePlace', DeltaShape, CountExact, NEW t \in Threads, Pop(t)
  PROVE  DeltaShape' /\ CountExact'
<1> USE SchedulerAssumption DEF SchedulerAssumption
<1> DEFINE s == Joined(t)
<1>1. DataTypes BY DEF TypeOK
<1>2. /\ private'[t] = << >> /\ \A u \in Threads : u # t => private'[u] = private[u]
      /\ cur'[t] = Head(s) /\ \A u \in Threads : u # t => cur'[u] = cur[u]
      /\ delta'[t] = -1 /\ \A u \in Threads : u # t => delta'[u] = delta[u]
      /\ UNCHANGED <<call, work, tokens>> /\ call[t] = NoOp /\ pc[t] = "lock"
      /\ queue' = Tail(s) /\ s # << >>
  BY <1>1 DEF DataTypes, Pop, Section, MayPop
<1>3. pc'[t] = "run" /\ \A u \in Threads : u # t => (pc'[u] = pc[u] \/ {pc[u], pc'[u]} = {"wait", "lock"})
  BY PopWakes
<1>4. Range(s) = Range(queue) \cup Range(private[t]) /\ s \in Seq(Ops)
  BY <1>1, JoinedPlace
<1> HIDE DEF s
<1>5. Range(s) = Range(queue') \cup {Head(s)}
  BY <1>2, <1>4, TakenOnce
<1>6. Alone(t) BY <1>2, <1>3 DEF Alone
<1>7. \A u \in Threads : u # t => (pc'[u] = "run" <=> pc[u] = "run") BY <1>3
<1>8. Len(private'[t]) = 0 BY <1>2
<1>9. DeltaShape' BY <1>2, <1>3, <1>7, <1>8 DEF DeltaShape
<1>10. KeepsCredit(t)' BY <1>2, <1>3, <1>8 DEF KeepsCredit
<1>11. ~KeepsCredit(t) BY <1>2 DEF KeepsCredit
<1>12. Owes(t) = Range(private[t]) BY <1>2, <1>11 DEF Owes
<1>13. Head(s) \in Ops BY <1>2, <1>4, TakenOnce
<1>14. Owes(t)' = {Head(s)} BY <1>2, <1>3, <1>10, NothingInEmpty DEF Owes
<1>15. Range(queue') \cup Owes(t)' = Range(queue) \cup Owes(t)
  BY <1>4, <1>5, <1>12, <1>14
<1>16. CountExact' BY <1>2, <1>6, <1>15, CountStays
<1> QED BY <1>9, <1>16

\* A function that is over leaves its unit to nobody or to one it posted, and
\* the delta brings the private queue into the count.
LEMMA FinishCounted ==
  ASSUME TypeOK, OnePlace, TypeOK', OnePlace', DeltaShape, CountExact, NEW t \in Threads,
         NEW next \in {"lock", "exit"}, Finish(t, next)
  PROVE  DeltaShape' /\ CountExact'
<1> USE SchedulerAssumption DEF SchedulerAssumption
<1>1. DataTypes BY DEF TypeOK
<1>2. /\ pc[t] = "run" /\ call[t] = NoOp /\ pc'[t] = next /\ \A u \in Threads : u # t => pc'[u] = pc[u]
      /\ cur[t] \in Ops /\ \A u \in Threads : u # t => cur'[u] = cur[u]
      /\ \A u \in Threads : u # t => delta'[u] = delta[u]
      /\ call'[t] \notin Ops /\ \A u \in Threads : u # t => call'[u] = call[u]
      /\ private' = private /\ queue' = queue /\ tokens' = tokens
      /\ work' = work + delta[t] /\ work \in Int /\ delta[t] \in Int
  BY <1>1 DEF TypeOK, DataTypes, Places, Finish, Inside, StopIf, DeltaReset
<1>3. Alone(t) BY <1>2 DEF Alone
<1>4. Rest(t)' = Rest(t) BY <1>2, <1>3, RestStays
<1>5. DeltaShape' BY <1>2 DEF DeltaShape
<1>6. private[t] \in Seq(Ops) /\ Distinct(private[t]) BY <1>1 DEF DataTypes, OnePlace, HeldOnce
<1>7. IsFiniteSet(Range(private[t])) /\ Cardinality(Range(private[t])) = Len(private[t])
  BY <1>6, AsManyAsLong
<1>8. ~KeepsCredit(t)' BY <1>2 DEF KeepsCredit
<1>9. Owes(t)' = Range(private[t]) BY <1>2, <1>8 DEF Owes
<1>10. Len(private[t]) \in Nat BY <1>6
<1>11. Cardinality(Owes(t)) = Len(private[t]) - delta[t]
  <2>1. CASE KeepsCredit(t)
    <3>1. Owes(t) = {cur[t]} BY <1>2, <2>1 DEF Owes
    <3>2. Cardinality(Owes(t)) = 1 BY <3>1, NoneOrOne
    <3> QED BY <1>2, <1>10, <2>1, <3>2 DEF KeepsCredit
  <2>2. CASE ~KeepsCredit(t)
    <3>1. Owes(t) = {} BY <1>2, <2>2 DEF Owes
    <3>2. Cardinality(Owes(t)) = 0 BY <3>1, NoneOrOne
    <3>3. delta[t] = Len(private[t]) BY <1>2, <2>2 DEF KeepsCredit, DeltaShape
    <3> QED BY <1>10, <3>2, <3>3
  <2> QED BY <2>1, <2>2
<1>12. work' = work + Cardinality(Owes(t)') - Cardinality(Owes(t))
  BY <1>2, <1>7, <1>9, <1>10, <1>11
<1>13. IsFiniteSet(Owes(t)') BY <1>7, <1>9
<1>14. CountExact' BY <1>4, <1>12, <1>13, CountFollows
<1> QED BY <1>5, <1>14

\* A work object brings its unit and takes it away.
LEMMA TokenCounted ==
  ASSUME TypeOK, OnePlace, TypeOK', OnePlace', DeltaShape, CountExact, NEW t \in Threads, NEW w \in Works,
         WorkStarted(t, w) \/ WorkFinished(t, w)
  PROVE  DeltaShape' /\ CountExact'
<1> USE SchedulerAssumption DEF SchedulerAssumption
<1>1. /\ UNCHANGED <<queue, pc, delta, private, cur>> /\ call[t] = NoOp
      /\ tokens \subseteq Works /\ work \in Int
      /\ \A u \in Threads : u # t => call'[u] = call[u]
      /\ call'[t] \notin Ops
  BY DEF WorkStarted, WorkFinished, StopIf, context, CanCall, TypeOK, DataTypes
<1>2. DeltaShape' BY <1>1 DEF DeltaShape
<1>3. \A u \in Threads : Owes(u)' = Owes(u)
  BY <1>1 DEF Owes, KeepsCredit
<1> DEFINE others == Range(queue) \cup UNION {Owes(u) : u \in Threads}
<1>4. Counted = tokens \cup others
  BY CountSplits DEF Rest
<1>5. Counted' = tokens' \cup others
  <2>1. Counted' = Rest(t)' \cup Owes(t)' BY CountSplitsThen DEF Splits
  <2>2. Rest(t)' = tokens' \cup Range(queue) \cup UNION {Owes(u) : u \in Threads \ {t}}
    BY <1>1, <1>3 DEF Rest
  <2> QED BY <1>3, <2>1, <2>2
<1>6. w \notin others
  <2>1. queue \in Seq(Ops) BY DEF TypeOK, DataTypes
  <2>2. Range(queue) \subseteq Ops BY <2>1 DEF Range
  <2>3. \A u \in Threads : Owes(u) \subseteq Ops BY OwesOnlyHeld
  <2>4. w \notin Ops OBVIOUS
  <2> QED BY <2>2, <2>3, <2>4
<1> HIDE DEF others
<1>7. CASE WorkStarted(t, w)
  <2>1. w \notin tokens /\ tokens' = tokens \cup {w} /\ work' = work + 1 BY <1>7 DEF WorkStarted
  <2>2. Counted' = Counted \cup {w} /\ w \notin Counted BY <1>4, <1>5, <1>6, <2>1
  <2>3. IsFiniteSet(Counted') /\ Cardinality(Counted') = Cardinality(Counted) + 1
    BY <2>2, FS_AddElement DEF CountExact
  <2> QED BY <1>2, <2>1, <2>3 DEF CountExact
<1>8. CASE WorkFinished(t, w)
  <2>1. w \in tokens /\ tokens' = tokens \ {w} /\ work' = work - 1 BY <1>8 DEF WorkFinished
  <2>2. Counted' = Counted \ {w} /\ w \in Counted BY <1>4, <1>5, <1>6, <2>1
  <2>3. IsFiniteSet(Counted') /\ Cardinality(Counted') = Cardinality(Counted) - 1
    BY <2>2, FS_RemoveElement DEF CountExact
  <2> QED BY <1>2, <2>1, <2>3 DEF CountExact
<1> QED BY <1>7, <1>8

\* Nothing that counts changes.
Untouched ==
  /\ UNCHANGED <<queue, work, delta, private, cur, tokens>>
  /\ \A u \in Threads : call'[u] = call[u] \/ (call'[u] \notin Ops /\ call[u] \notin Ops)
  /\ \A u \in Threads : pc'[u] = "run" <=> pc[u] = "run"

LEMMA StillCounted ==
  ASSUME TypeOK, DeltaShape, CountExact, Untouched
  PROVE  DeltaShape' /\ CountExact'
<1>0. /\ UNCHANGED <<queue, work, delta, private, cur, tokens>>
      /\ \A u \in Threads : call'[u] = call[u] \/ (call'[u] \notin Ops /\ call[u] \notin Ops)
      /\ \A u \in Threads : pc'[u] = "run" <=> pc[u] = "run"
  BY DEF Untouched
<1>1. DeltaShape' BY <1>0 DEF DeltaShape
<1>2. {u \in Threads : KeepsCredit(u)}' = {u \in Threads : KeepsCredit(u)} BY <1>0 DEF KeepsCredit
<1>3. {call'[u] : u \in {v \in Threads : call'[v] \in Ops}} = {call[u] : u \in {v \in Threads : call[v] \in Ops}}
  BY <1>0
<1>4. {u \in Threads : pc'[u] # "run"} = {u \in Threads : pc[u] # "run"} BY <1>0
<1>5. Counted' = Counted BY <1>0, <1>2, <1>3, <1>4 DEF Counted
<1> QED BY <1>0, <1>1, <1>5 DEF CountExact

\* What the entry points, stop, restart and the condition variable do to the
\* half-made calls and the places.
LEMMA Bystanders ==
  ASSUME TypeOK, NEW t \in Threads,
         \/ RunStop(t) \/ Stop(t) \/ Restart(t) \/ SpuriousWake(t) \/ WaitTimeout(t)
         \/ \E m \in Modes : Enter(t, m)
         \/ \E o \in Ops : Inside(t) /\ Dispatch(t, o)
  PROVE  Untouched
<1> USE SchedulerAssumption DEF SchedulerAssumption, Untouched
<1>0. DataTypes BY DEF TypeOK
<1>1. CASE RunStop(t) \/ Stop(t)
  <2>1. UNCHANGED <<queue, work, delta, private, cur, tokens>> /\ pc' = Wake(Sleepers)
        /\ (call' = call \/ (call[t] = StopCall /\ call' = [call EXCEPT ![t] = NoOp]))
    BY <1>1 DEF RunStop, Stop, StopNow, StopSection, WakeOnStop
  <2>2. \A u \in Threads : pc'[u] = "run" <=> pc[u] = "run" BY <2>1 DEF Wake, Sleepers
  <2> QED BY <1>0, <2>1, <2>2 DEF DataTypes
<1>2. CASE Restart(t) BY <1>2 DEF Restart, context
<1>3. CASE SpuriousWake(t) \/ WaitTimeout(t)
  BY <1>0, <1>3 DEF SpuriousWake, WaitTimeout, shared, DataTypes
<1>4. CASE \E m \in Modes : Enter(t, m)
  <2>1. /\ UNCHANGED <<queue, work, delta, private, cur, tokens>> /\ pc[t] = "out" /\ call[t] = NoOp
        /\ (pc' = pc \/ pc' = [pc EXCEPT ![t] = "lock"])
        /\ (call' = call \/ call' = [call EXCEPT ![t] = StopCall])
    BY <1>4 DEF Enter, shared, StopIf
  <2> QED BY <1>0, <2>1 DEF DataTypes
<1>5. CASE \E o \in Ops : Inside(t) /\ Dispatch(t, o)
  BY <1>5 DEF Dispatch, shared, context
<1> QED BY <1>1, <1>2, <1>3, <1>4, <1>5

LEMMA CountStep ==
  TypeOK /\ OnePlace /\ TypeOK' /\ OnePlace' /\ DeltaShape /\ CountExact /\ [Next]_vars
    => DeltaShape' /\ CountExact'
<1> SUFFICES ASSUME TypeOK, OnePlace, TypeOK', OnePlace', DeltaShape, CountExact, [Next]_vars
             PROVE  DeltaShape' /\ CountExact'
  OBVIOUS
<1>1. ASSUME NEW t \in Threads, NEW o \in Ops, PostOp(t, o) PROVE DeltaShape' /\ CountExact'
  BY <1>1, SubmitCounted DEF PostOp
<1>2. ASSUME NEW t \in Threads, NEW o \in Ops, Post(t, o) \/ Defer(t, o) PROVE DeltaShape' /\ CountExact'
  BY <1>1, <1>2, SubmitCounted DEF Post, Defer
<1>3. ASSUME NEW t \in Threads, NEW o \in Ops, Dispatch(t, o) PROVE DeltaShape' /\ CountExact'
  <2>1. CASE ~Inside(t) BY <1>1, <1>3, <2>1 DEF Dispatch
  <2>2. CASE Inside(t)
    <3>1. Untouched BY <1>3, <2>2, Bystanders
    <3> QED BY <3>1, StillCounted
  <2> QED BY <2>1, <2>2
<1>4. ASSUME NEW t \in Threads, Leave(t) \/ TimeOut(t) \/ Sleep(t) \/ Exit(t) PROVE DeltaShape' /\ CountExact'
  <2>0. DataTypes BY DEF TypeOK
  <2>1. /\ call[t] = NoOp /\ private' = [private EXCEPT ![t] = << >>] /\ pc[t] \in {"lock", "exit"}
        /\ UNCHANGED <<call, cur, work, delta, tokens>>
    BY <1>4 DEF Leave, TimeOut, Sleep, Exit, Section
  <2>2. pc'[t] \in {"out", "wait"} /\ \A u \in Threads : u # t => pc'[u] = pc[u]
    BY <1>4, <2>0 DEF Leave, TimeOut, Sleep, Exit, DataTypes
  <2>3. queue' = Joined(t)
    <3>1. CASE Leave(t) \/ TimeOut(t) \/ Exit(t) BY <3>1 DEF Leave, TimeOut, Exit
    <3>2. CASE Sleep(t)
      <4>1. queue' = queue /\ Joined(t) = << >> BY <3>2 DEF Sleep
      <4>2. queue = << >> BY <2>0, <4>1 DEF Joined, DataTypes
      <4> QED BY <4>1, <4>2
    <3> QED BY <1>4, <3>1, <3>2
  <2> QED BY <2>1, <2>2, <2>3, SpliceCounted
<1>5. ASSUME NEW t \in Threads, Pop(t) \/ Push(t) PROVE DeltaShape' /\ CountExact'
  BY <1>5, PopCounted, PushCounted
<1>6. ASSUME NEW t \in Threads, Return(t) \/ Throw(t) PROVE DeltaShape' /\ CountExact'
  BY <1>6, FinishCounted DEF Return, Throw
<1>7. ASSUME NEW t \in Threads, NEW w \in Works, WorkStarted(t, w) \/ WorkFinished(t, w)
      PROVE  DeltaShape' /\ CountExact'
  BY <1>7, TokenCounted
<1>8. ASSUME NEW t \in Threads,
             \/ RunStop(t) \/ Stop(t) \/ Restart(t) \/ SpuriousWake(t) \/ WaitTimeout(t)
             \/ \E m \in Modes : Enter(t, m)
      PROVE  DeltaShape' /\ CountExact'
  <2>1. Untouched BY <1>8, Bystanders
  <2> QED BY <2>1, StillCounted
<1>9. CASE UNCHANGED vars
  BY <1>9, StillCounted DEF vars, Untouched
<1> QED
  BY <1>2, <1>3, <1>4, <1>5, <1>6, <1>7, <1>8, <1>9 DEF Next, Step

LEMMA CountInvariant == Spec => [](DeltaShape /\ CountExact)
<1>1. ASSUME Init PROVE DeltaShape /\ CountExact
  <2>1. /\ queue = << >> /\ tokens = {} /\ work = 0
        /\ \A t \in Threads : private[t] = << >> /\ call[t] = NoOp /\ pc[t] = "out"
    BY <1>1 DEF Init
  <2>2. DeltaShape BY <2>1 DEF DeltaShape
  <2>3. \A t \in Threads : call[t] \notin Ops /\ Range(private[t]) = {} /\ ~KeepsCredit(t)
    BY <2>1, SchedulerAssumption, NothingInEmpty DEF KeepsCredit, SchedulerAssumption
  <2>4. Range(queue) = {} BY <2>1, NothingInEmpty
  <2>5. UNION {Range(private[t]) : t \in {u \in Threads : pc[u] # "run"}} = {} BY <2>3
  <2>6. Counted = {} BY <2>1, <2>3, <2>4, <2>5 DEF Counted
  <2> QED BY <2>1, <2>2, <2>6, NoneOrOne DEF CountExact
<1> QED BY <1>1, CountStep, TypeCorrect, PlaceInvariant, PTL DEF Spec

\* An operation in one place is held by one holder.
LEMMA OneHolder ==
  ASSUME TypeOK, OnePlace, NEW o \in Ops
  PROVE  Cardinality(Holders(o)) = IF o \in submitted \ done THEN 1 ELSE 0
<1> USE SchedulerAssumption DEF SchedulerAssumption
<1> DEFINE inQueue   == {<<"queue", i>> : i \in {j \in DOMAIN queue : queue[j] = o}}
           inPrivate == UNION {{<<"private", t, i>> : i \in {j \in DOMAIN private[t] : private[t][j] = o}} : t \in Threads}
           inCall    == {<<"call", t>> : t \in {u \in Threads : call[u] = o}}
           inRun     == {<<"running", t>> : t \in {u \in Threads : cur[u] = o}}
<1>1. Holders(o) = inQueue \cup inPrivate \cup inCall \cup inRun BY DEF Holders
<1>2. o \notin Range(queue) => inQueue = {} BY DEF Range
<1>3. \A t \in Threads : o \notin Range(private[t]) => {j \in DOMAIN private[t] : private[t][j] = o} = {}
  BY DEF Range
<1>4. \A t \in Threads : o \notin Held(t) => o \notin Range(private[t]) /\ call[t] # o /\ cur[t] # o
  BY DEF Held
<1>5. CASE o \notin Range(queue) /\ \A t \in Threads : o \notin Held(t)
  <2>1. inQueue = {} /\ inCall = {} /\ inRun = {} BY <1>2, <1>4, <1>5
  <2>2. inPrivate = {} BY <1>3, <1>4, <1>5
  <2>3. Holders(o) = {} BY <1>1, <2>1, <2>2
  <2>4. o \notin submitted \ done BY <1>5 DEF OnePlace, Spread
  <2> QED BY <2>3, <2>4, NoneOrOne
<1>6. CASE o \in Range(queue)
  <2>1. \A t \in Threads : o \notin Held(t) BY <1>6 DEF OnePlace, Spread
  <2>2. inCall = {} /\ inRun = {} BY <1>4, <2>1
  <2>3. inPrivate = {} BY <1>3, <1>4, <2>1
  <2>4. PICK k \in DOMAIN queue : queue[k] = o BY <1>6 DEF Range
  <2>5. {j \in DOMAIN queue : queue[j] = o} = {k} BY <2>4 DEF OnePlace, Distinct
  <2>6. inQueue = {<<"queue", k>>} BY <2>5
  <2>7. Holders(o) = {<<"queue", k>>} BY <1>1, <2>2, <2>3, <2>6
  <2>8. o \in submitted \ done BY <1>6 DEF OnePlace, Spread
  <2> QED BY <2>7, <2>8, NoneOrOne
<1>7. ASSUME NEW t \in Threads, o \in Held(t) PROVE Cardinality(Holders(o)) = 1 /\ o \in submitted \ done
  <2>1. o \notin Range(queue) /\ \A u \in Threads : u # t => o \notin Held(u)
    BY <1>7 DEF OnePlace, Spread
  <2>2. inQueue = {} BY <1>2, <2>1
  <2>3. o \in submitted \ done BY <1>7 DEF OnePlace, Spread
  <2>4. \A u \in Threads : u # t => {j \in DOMAIN private[u] : private[u][j] = o} = {} /\ call[u] # o /\ cur[u] # o
    BY <1>3, <1>4, <2>1
  <2>5. inPrivate = {<<"private", t, i>> : i \in {j \in DOMAIN private[t] : private[t][j] = o}}
    BY <2>4
  <2>6. inCall = IF call[t] = o THEN {<<"call", t>>} ELSE {} BY <2>4
  <2>7. inRun = IF cur[t] = o THEN {<<"running", t>>} ELSE {} BY <2>4
  <2>8. HeldOnce(t) BY DEF OnePlace
  <2>9. CASE o \in Range(private[t])
    <3>1. call[t] # o /\ cur[t] # o BY <2>8, <2>9 DEF HeldOnce
    <3>2. PICK k \in DOMAIN private[t] : private[t][k] = o BY <2>9 DEF Range
    <3>3. {j \in DOMAIN private[t] : private[t][j] = o} = {k} BY <2>8, <3>2 DEF HeldOnce, Distinct
    <3>4. inPrivate = {<<"private", t, k>>} BY <2>5, <3>3
    <3>5. Holders(o) = {<<"private", t, k>>} BY <1>1, <2>2, <2>6, <2>7, <3>1, <3>4
    <3> QED BY <2>3, <3>5, NoneOrOne
  <2>10. CASE o \notin Range(private[t])
    <3>1. inPrivate = {} BY <1>3, <2>5, <2>10
    <3>2. call[t] = o <=> cur[t] # o BY <1>7, <2>8, <2>10 DEF HeldOnce, Held
    <3>3. Holders(o) = {<<"call", t>>} \/ Holders(o) = {<<"running", t>>}
      BY <1>1, <2>2, <2>6, <2>7, <3>1, <3>2
    <3> QED BY <2>3, <3>3, NoneOrOne
  <2> QED BY <2>9, <2>10
<1> QED BY <1>5, <1>6, <1>7

\* No operation is lost or run twice, and the count of outstanding work is
\* exact in every state, whatever deltas the threads have not applied yet, for
\* any threads, functions, work objects and entry points
\* (scheduler.h:51-80 and :371-391).
THEOREM WorkIsExact == Spec => []WorkAccounting
<1>1. TypeOK /\ OnePlace /\ CountExact => WorkAccounting
  BY OneHolder DEF WorkAccounting, CountExact
<1> QED BY <1>1, TypeCorrect, PlaceInvariant, CountInvariant, PTL

----------------------------------------------------------------------------
(* The thread pool.                                                        *)

\* Every step of a pool is a step of its scheduler or leaves it alone.
LEMMA PoolStepIsSchedulerStep == [PoolNext]_poolVars => [Next]_vars
<1> USE PoolAssumption DEF PoolAssumption
<1>1. ASSUME Construct
      PROVE  [Next]_vars
  BY <1>1 DEF Construct, Next
<1>2. ASSUME NEW t \in Pool, StartThread(t) \/ EndThread(t) \/ Spurious(t)
      PROVE  [Next]_vars
  <2>1. "run" \in Modes /\ t \in Threads
    BY DEF Modes
  <2>2. CASE StartThread(t)
    <3>1. Enter(t, "run")
      BY <2>2 DEF StartThread
    <3> QED BY <2>1, <3>1 DEF Next
  <2>3. CASE EndThread(t)
    BY <2>3 DEF EndThread
  <2>4. CASE Spurious(t)
    <3>1. SpuriousWake(t)
      BY <2>4 DEF Spurious
    <3> QED BY <2>1, <3>1 DEF Next
  <2> QED BY <1>2, <2>2, <2>3, <2>4
<1>3. ASSUME NEW t \in Threads, PoolStep(t)
      PROVE  [Next]_vars
  BY <1>3 DEF PoolStep, Next
<1>4. ASSUME NEW t \in Threads, StopPool(t)
      PROVE  [Next]_vars
  BY <1>4 DEF StopPool, Next
<1>5. ASSUME NEW t \in Threads, NEW o \in Ops, Submit(t, o)
      PROVE  [Next]_vars
  BY <1>5 DEF Submit, Next
<1>6. ASSUME DestroyPool \/ SystemStop
      PROVE  [Next]_vars
  <2>1. Stop(Owner)
    BY <1>6 DEF DestroyPool, SystemStop, Stop
  <2> QED BY <2>1 DEF Next
<1>7. ASSUME Join \/ SystemGiveUp
      PROVE  [Next]_vars
  <2>1. WorkFinished(Owner, PoolWork)
    BY <1>7 DEF Join, SystemGiveUp
  <2> QED BY <2>1 DEF Next
<1>8. ASSUME JoinReturns \/ UNCHANGED poolVars
      PROVE  [Next]_vars
  BY <1>8 DEF JoinReturns, poolVars
<1> QED
  BY <1>1, <1>2, <1>3, <1>4, <1>5, <1>6, <1>7, <1>8 DEF PoolNext

\* A pool is a scheduler that is used in a particular way.
THEOREM PoolIsScheduler == PoolSpec => Spec
<1>1. PoolInit => Init
  BY DEF PoolInit
<1> QED BY <1>1, PoolStepIsSchedulerStep, PTL DEF PoolSpec, Spec

\* The threads of a pool use nothing but run, so that no notification is ever
\* lost in a pool: while a function is queued and a thread sleeps, some thread
\* of the pool is on its way to the queue.
THEOREM PoolLosesNoWakeup == PoolSpec => []NoLostWakeup
<1>1. LoopOnly
  BY PoolAssumption DEF PoolAssumption, LoopOnly
<1> QED BY <1>1, PoolIsScheduler, WakeupsNotLost, PTL

----------------------------------------------------------------------------
(* Types.                                                                  *)

LifeTypes ==
  /\ life \in [Pool -> {"none", "new", "live", "ended"}]
  /\ own \in {"ctor", "using", "dtor", "sysdtor", "joining", "joined"}

OwnFlags == halted \in BOOLEAN /\ reused \in BOOLEAN

\* Only a live thread of the pool is inside the scheduler, and the threads
\* come with the constructor.
PoolInside ==
  /\ \A t \in Threads : pc[t] # "out" => t \in Pool /\ life[t] = "live"
  /\ own = "ctor" => \A t \in Pool : life[t] = "none"

LEMMA OwnFlagsStep == OwnFlags /\ [PoolNext]_poolVars => OwnFlags'
  BY DEF OwnFlags, PoolNext, poolVars, Construct, StartThread, EndThread, Spurious, PoolStep,
         StopPool, Submit, DestroyPool, Join, SystemGiveUp, SystemStop, JoinReturns

\* No step but Enter takes a thread into the scheduler.
LEMMA OnlyEnterEnters ==
  ASSUME DataTypes, Places, NEW t \in Threads, Step(t) \/ SpuriousWake(t)
  PROVE  \A u \in Threads : pc'[u] # "out" => pc[u] # "out"
<1>1. CASE Push(t)
  <2>1. PICK woken \in Notified(NotifyOnPush) : pc' = Wake(woken)
    BY <1>1 DEF Push
  <2> QED BY <2>1, WakeType DEF Sleepers
<1>2. CASE RunStop(t)
  BY <1>2 DEF RunStop, StopSection, Wake, WakeOnStop, Sleepers, DataTypes
<1>3. CASE Leave(t) \/ TimeOut(t) \/ Sleep(t) \/ SpuriousWake(t) \/ Return(t) \/ Exit(t)
  <2>1. pc[t] # "out"
    BY <1>3 DEF Leave, TimeOut, Sleep, Section, SpuriousWake, Return, Finish, Inside, Exit
  <2>2. \A u \in Threads : u # t => pc'[u] = pc[u]
    BY <1>3 DEF Leave, TimeOut, Sleep, SpuriousWake, Return, Finish, Exit, DataTypes
  <2> QED BY <2>1, <2>2
<1>4. CASE Pop(t)
  <2>1. PICK woken \in Notified(Chain(t)) : pc' = [Wake(woken) EXCEPT ![t] = "run"]
    BY <1>4 DEF Pop
  <2>2. pc[t] # "out"
    BY <1>4 DEF Pop, Section
  <2>3. \A u \in Threads : u # t => pc'[u] = Wake(woken)[u]
    BY <2>1, WakeType
  <2> QED BY <2>1, <2>2, <2>3, WakeType DEF Sleepers
<1> QED BY <1>1, <1>2, <1>3, <1>4 DEF Step

LEMMA InsideStep ==
  ASSUME TypeOK, LifeTypes, PoolInside, [PoolNext]_poolVars
  PROVE  LifeTypes' /\ PoolInside'
<1> USE PoolAssumption DEF PoolAssumption
<1>1. DataTypes /\ Places
  BY DEF TypeOK
<1>2. ASSUME Construct
      PROVE  LifeTypes' /\ PoolInside'
  <2>1. life' \in [Pool -> {"none", "new"}] /\ own' = "using" /\ own = "ctor"
    BY <1>2 DEF Construct
  <2>2. pc' = pc
    BY <1>2 DEF Construct, WorkStarted, context
  <2>3. \A t \in Threads : pc[t] = "out"
    BY <2>1 DEF PoolInside
  <2> QED BY <2>1, <2>2, <2>3 DEF LifeTypes, PoolInside
<1>3. ASSUME NEW t \in Pool, StartThread(t)
      PROVE  LifeTypes' /\ PoolInside'
  <2>1. life' = [life EXCEPT ![t] = "live"] /\ UNCHANGED own /\ life[t] = "new"
    BY <1>3 DEF StartThread
  <2>2. \A u \in Threads : u # t => pc'[u] = pc[u]
    BY <1>1, <1>3 DEF StartThread, Enter, DataTypes
  <2> QED BY <2>1, <2>2 DEF LifeTypes, PoolInside
<1>4. ASSUME NEW t \in Pool, EndThread(t)
      PROVE  LifeTypes' /\ PoolInside'
  <2>1. /\ life' = [life EXCEPT ![t] = "ended"] /\ UNCHANGED own /\ life[t] = "live"
        /\ pc[t] = "out" /\ pc' = pc
    BY <1>4 DEF EndThread, vars
  <2> QED BY <2>1 DEF LifeTypes, PoolInside
<1>5. ASSUME NEW t \in Threads, Step(t) \/ SpuriousWake(t), UNCHANGED <<life, own>>
      PROVE  LifeTypes' /\ PoolInside'
  <2>1. \A u \in Threads : pc'[u] # "out" => pc[u] # "out"
    BY <1>1, <1>5, OnlyEnterEnters
  <2> QED BY <1>5, <2>1 DEF LifeTypes, PoolInside
<1>6. ASSUME NEW t \in Threads, NEW o \in Ops, Submit(t, o)
      PROVE  LifeTypes' /\ PoolInside'
  <2>1. UNCHANGED <<pc, life, own>>
    BY <1>6 DEF Submit, Post, Defer, Dispatch, PostOp, CountWork, KeepPrivate, ReuseCredit,
         Submits, context
  <2> QED BY <2>1 DEF LifeTypes, PoolInside
<1>7. ASSUME NEW t \in Threads, StopNow(t), UNCHANGED life,
             own' = own \/ (own # "ctor" /\ own' \in {"dtor", "joining"})
      PROVE  LifeTypes' /\ PoolInside'
  <2>1. \A u \in Threads : pc'[u] # "out" => pc[u] # "out"
    BY <1>1, <1>7 DEF StopNow, StopSection, Wake, WakeOnStop, Sleepers, DataTypes
  <2>2. own' \in {"ctor", "using", "dtor", "sysdtor", "joining", "joined"}
        /\ (own' = "ctor" => own = "ctor")
    BY <1>7 DEF LifeTypes
  <2> QED BY <1>7, <2>1, <2>2 DEF LifeTypes, PoolInside
<1>8. ASSUME Join \/ SystemGiveUp \/ JoinReturns
      PROVE  LifeTypes' /\ PoolInside'
  <2>1. UNCHANGED <<pc, life>> /\ own' \in {"joining", "sysdtor", "joined"}
    BY <1>8 DEF Join, SystemGiveUp, JoinReturns, WorkFinished, context, vars
  <2> QED BY <2>1 DEF LifeTypes, PoolInside
<1>9. ASSUME UNCHANGED poolVars
      PROVE  LifeTypes' /\ PoolInside'
  BY <1>9 DEF poolVars, vars, LifeTypes, PoolInside
<1>10. ASSUME NEW t \in Pool, Spurious(t)
       PROVE  LifeTypes' /\ PoolInside'
  BY <1>5, <1>10 DEF Spurious
<1>11. ASSUME NEW t \in Threads, PoolStep(t)
       PROVE  LifeTypes' /\ PoolInside'
  BY <1>5, <1>11 DEF PoolStep
<1>12. ASSUME NEW t \in Threads, StopPool(t)
       PROVE  LifeTypes' /\ PoolInside'
  BY <1>7, <1>12 DEF StopPool, Stop
<1>13. ASSUME DestroyPool \/ SystemStop
       PROVE  LifeTypes' /\ PoolInside'
  <2>1. Owner \in Threads /\ StopNow(Owner) /\ UNCHANGED life /\ own # "ctor" /\ own' \in {"dtor", "joining"}
    BY <1>13 DEF DestroyPool, SystemStop
  <2> QED BY <1>7, <2>1
<1> QED
  BY <1>2, <1>3, <1>4, <1>6, <1>8, <1>9, <1>10, <1>11, <1>12, <1>13 DEF PoolNext

LEMMA PoolPlaces == PoolSpec => [](LifeTypes /\ PoolInside /\ OwnFlags)
<1>1. PoolInit => LifeTypes /\ PoolInside /\ OwnFlags
  BY DEF PoolInit, Init, LifeTypes, PoolInside, OwnFlags
<1>2. TypeOK /\ LifeTypes /\ PoolInside /\ OwnFlags /\ [PoolNext]_poolVars
        => LifeTypes' /\ PoolInside' /\ OwnFlags'
  BY InsideStep, OwnFlagsStep
<1> QED
  BY <1>1, <1>2, PoolIsScheduler, TypeCorrect, PTL DEF PoolSpec

\* The types of the pool, and that only its live threads are inside the
\* scheduler (bits/thread_pool.h, bits/system_executor.h).
THEOREM PoolTypeCorrect == PoolSpec => []PoolTypeOK
<1>1. TypeOK /\ LifeTypes /\ PoolInside /\ OwnFlags => PoolTypeOK
  BY DEF PoolTypeOK, LifeTypes, PoolInside, OwnFlags
<1> QED
  BY <1>1, PoolPlaces, PoolIsScheduler, TypeCorrect, PTL

----------------------------------------------------------------------------
(* The pool does not stop by itself.                                       *)

\* While the pool is used it holds its unit of work, and nobody stops it or
\* is about to; before it is built nobody calls.
Up ==
  /\ own = "ctor" => ~stopped /\ \A t \in Threads : call[t] = NoOp
  /\ own = "using" => PoolWork \in tokens
  /\ PoolStaysUp

\* A pool with work is not at zero.
LEMMA HeldWorkCounts == CountExact /\ PoolWork \in tokens => work # 0
<1> SUFFICES ASSUME CountExact, PoolWork \in tokens PROVE Cardinality(Counted) # 0
  BY DEF CountExact
<1>1. PoolWork \in Counted BY DEF Counted
<1> QED BY <1>1, FS_EmptySet DEF CountExact

\* So a step that keeps the unit of work does not begin a stop.
LEMMA NoStopAtZero ==
  ASSUME CountExact', PoolWork \in tokens', NEW t \in Threads, NEW zero,
         StopIf(zero, t), zero => work' = 0
  PROVE  call' = call
<1>1. work' # 0
  <2>1. CountExact /\ PoolWork \in tokens => work # 0 BY HeldWorkCounts
  <2>2. (CountExact /\ PoolWork \in tokens => work # 0)' BY <2>1, HeldWorkCounts, PTL
  <2> QED BY <2>2
<1>2. ~zero BY <1>1
<1> QED BY <1>2 DEF StopIf

\* What a thread does by itself stops the scheduler only if a call to _Stop
\* was under way, or the count has come to zero.
LEMMA StepStays ==
  ASSUME TypeOK, CountExact', PoolWork \in tokens, ~stopped, \A u \in Threads : call[u] # StopCall,
         NEW t \in Threads, Step(t) \/ SpuriousWake(t)
  PROVE  tokens' = tokens /\ ~stopped' /\ \A u \in Threads : call'[u] # StopCall
<1> USE SchedulerAssumption DEF SchedulerAssumption
<1>0. DataTypes BY DEF TypeOK
<1>1. CASE Push(t) BY <1>0, <1>1 DEF Push, DataTypes
<1>2. CASE RunStop(t) BY <1>2 DEF RunStop
<1>3. CASE Leave(t) \/ TimeOut(t) \/ Sleep(t) \/ Pop(t) \/ Exit(t) \/ SpuriousWake(t)
  BY <1>3 DEF Leave, TimeOut, Sleep, Pop, Section, Exit, SpuriousWake, shared
<1>4. CASE Return(t)
  <2>1. /\ tokens' = tokens /\ stopped' = stopped /\ work' = work + delta[t]
        /\ StopIf(delta[t] # 0 /\ work + delta[t] = 0, t)
    BY <1>4 DEF Return, Finish
  <2>2. call' = call BY <2>1, NoStopAtZero
  <2> QED BY <2>1, <2>2
<1> QED BY <1>1, <1>2, <1>3, <1>4 DEF Step

LEMMA UpStep ==
  ASSUME TypeOK, PoolInside, CountExact', Up, [PoolNext]_poolVars
  PROVE  Up'
<1> USE PoolAssumption, SchedulerAssumption DEF PoolAssumption, SchedulerAssumption
<1>0. DataTypes BY DEF TypeOK
<1>1. CASE Construct
  <2>1. own = "ctor" /\ own' = "using" /\ WorkStarted(Owner, PoolWork) BY <1>1 DEF Construct
  <2>2. PoolWork \in tokens' /\ stopped' = stopped /\ call' = call
    BY <2>1 DEF WorkStarted
  <2> QED BY <2>1, <2>2 DEF Up, PoolStaysUp
<1>2. ASSUME NEW t \in Pool, StartThread(t) PROVE Up'
  <2>1. /\ own' = own /\ halted' = halted /\ StopIf(work = 0, t) /\ t \in Threads
        /\ tokens' = tokens /\ stopped' = stopped /\ work' = work
    BY <1>2 DEF StartThread, Enter, shared
  <2>2. own # "ctor"
    BY <1>2 DEF StartThread, PoolInside
  <2>3. CASE own = "using"
    <3>1. PoolWork \in tokens' BY <2>1, <2>3 DEF Up
    <3>2. call' = call BY <2>1, <3>1, NoStopAtZero
    <3> QED BY <2>1, <2>2, <3>1, <3>2 DEF Up, PoolStaysUp
  <2>4. CASE own # "using" BY <2>1, <2>2, <2>4 DEF Up, PoolStaysUp
  <2> QED BY <2>3, <2>4
<1>3. ASSUME NEW t \in Pool, EndThread(t) PROVE Up'
  BY <1>3 DEF EndThread, vars, Up, PoolStaysUp
<1>4. ASSUME NEW t \in Threads, PoolStep(t) \/ (t \in Pool /\ Spurious(t)) PROVE Up'
  <2>1. own' = own /\ halted' = halted /\ (Step(t) \/ SpuriousWake(t)) BY <1>4 DEF PoolStep, Spurious
  <2>2. CASE own = "ctor"
    <3>1. pc[t] = "out" /\ call[t] = NoOp BY <2>2 DEF PoolInside, Up
    <3> QED BY <2>1, <3>1
      DEF Step, SpuriousWake, Push, RunStop, Leave, TimeOut, Sleep, Pop, Section, Return, Finish, Inside, Exit
  <2>3. CASE own = "using" /\ ~halted
    <3>1. tokens' = tokens /\ ~stopped' /\ \A u \in Threads : call'[u] # StopCall
      BY <2>1, <2>3, StepStays DEF Up, PoolStaysUp
    <3> QED BY <2>1, <2>3, <3>1 DEF Up, PoolStaysUp
  <2>4. CASE own # "ctor" /\ ~(own = "using" /\ ~halted)
    <3>1. tokens' = tokens
      BY <2>1 DEF Step, SpuriousWake, Push, RunStop, StopSection, Leave, TimeOut, Sleep, Pop, Section,
           Return, Finish, Exit
    <3> QED BY <2>1, <2>4, <3>1 DEF Up, PoolStaysUp
  <2> QED BY <2>2, <2>3, <2>4
<1>5. ASSUME NEW t \in Threads, NEW o \in Ops, Submit(t, o) PROVE Up'
  <2>1. own' = own /\ halted' = halted /\ MayUse(t) /\ (Post(t, o) \/ Defer(t, o) \/ Dispatch(t, o))
    BY <1>5 DEF Submit
  <2>2. own # "ctor" BY <2>1 DEF MayUse, Inside, PoolInside
  <2>3. stopped' = stopped /\ tokens' = tokens /\ (call' = call \/ call' = [call EXCEPT ![t] = o])
    BY <2>1 DEF Post, Defer, Dispatch, PostOp, CountWork, KeepPrivate, ReuseCredit, Submits, shared
  <2>4. \A u \in Threads : call[u] # StopCall => call'[u] # StopCall BY <1>0, <2>3 DEF DataTypes
  <2> QED BY <2>1, <2>2, <2>3, <2>4 DEF Up, PoolStaysUp
<1>6. ASSUME NEW t \in Threads, StopPool(t) PROVE Up'
  <2>1. own' = own /\ halted' /\ MayUse(t) /\ StopNow(t) BY <1>6 DEF StopPool, Stop
  <2>2. own # "ctor" BY <2>1 DEF MayUse, Inside, PoolInside
  <2>3. tokens' = tokens BY <2>1 DEF StopNow, StopSection
  <2> QED BY <2>1, <2>2, <2>3 DEF Up, PoolStaysUp
<1>7. ASSUME DestroyPool \/ Join \/ SystemGiveUp \/ SystemStop \/ JoinReturns PROVE Up'
  <2>1. own' \notin {"ctor", "using"}
    BY <1>7 DEF DestroyPool, Join, SystemGiveUp, SystemStop, JoinReturns
  <2> QED BY <2>1 DEF Up, PoolStaysUp
<1>8. CASE UNCHANGED poolVars
  BY <1>8 DEF poolVars, vars, Up, PoolStaysUp
<1> QED BY <1>1, <1>2, <1>3, <1>4, <1>5, <1>6, <1>7, <1>8 DEF PoolNext

LEMMA UpInvariant == PoolSpec => []Up
<1>1. PoolInit => Up
  BY PoolAssumption, SchedulerAssumption DEF PoolInit, Init, Up, PoolStaysUp, SchedulerAssumption
<1>2. TypeOK /\ PoolInside /\ CountExact' /\ Up /\ [PoolNext]_poolVars => Up'
  BY UpStep
<1> QED
  BY <1>1, <1>2, PoolPlaces, PoolIsScheduler, TypeCorrect, CountInvariant, PTL DEF PoolSpec

\* While a pool is used and nobody stops it, it does not stop by itself: the
\* counter stays above zero because the pool holds a unit of work, however
\* late the threads apply their deltas (thread_pool.h:30, scheduler.h:371).
THEOREM PoolIsUp == PoolSpec => []PoolStaysUp
  BY UpInvariant, PTL DEF Up

----------------------------------------------------------------------------
(* A pool that is joined has run what it was given.                        *)

\* The scheduler is stopped or about to be: for good, as nobody restarts it.
Halting == stopped \/ \E t \in Threads : call[t] = StopCall

\* The threads use run and nothing else, and never unwind it.
RunOnly == \A t \in Threads : mode[t] = "run" /\ pc[t] # "exit"

\* Unless a post reused it, a function has its unit of work until it is over.
Unreused == ~reused => \A t \in Threads : pc[t] = "run" => delta[t] = Len(private[t]) - 1

\* A thread that was started leaves the scheduler when that is stopped.
LeftWhenHalting ==
  \A t \in Pool : life[t] \in {"live", "ended"} /\ pc[t] = "out" => Halting

Lives ==
  /\ own # "ctor" => \E t \in Pool : life[t] # "none"
  /\ own = "joined" => \A t \in Pool : life[t] \in {"none", "ended"}
  /\ own = "sysdtor" => halted

DoneWhenHalting == ~halted /\ ~reused /\ Halting => submitted \subseteq done

\* What the steps of a scheduler do in a pool: by threads on their own, by the
\* program, and by the owner.
OwnStep(t)  == (Step(t) \/ SpuriousWake(t)) /\ UNCHANGED <<life, own, halted, reused>>
StopStep(t) == /\ StopNow(t) /\ halted' /\ UNCHANGED <<life, reused>>
               /\ own' \in {own, "dtor", "joining"} /\ (own = "ctor" => own' = own)
JoinStep    == /\ WorkFinished(Owner, PoolWork) /\ UNCHANGED <<life, reused>>
               /\ own' \in {"joining", "sysdtor"} /\ (own' = "sysdtor" => halted')
               /\ (halted => halted') /\ own \in {"using", "dtor"}

LEMMA PoolCases ==
  ASSUME [PoolNext]_poolVars, Lives, OwnFlags
  PROVE  \/ Construct
         \/ \E t \in Pool : StartThread(t) \/ EndThread(t)
         \/ \E t \in Threads : OwnStep(t) \/ StopStep(t) \/ \E o \in Ops : Submit(t, o)
         \/ JoinStep \/ JoinReturns \/ UNCHANGED poolVars
<1> USE PoolAssumption DEF PoolAssumption
<1>1. ASSUME NEW t \in Threads, PoolStep(t) \/ (t \in Pool /\ Spurious(t)) PROVE OwnStep(t)
  BY <1>1 DEF PoolStep, Spurious, OwnStep
<1>2. ASSUME NEW t \in Threads, StopPool(t) PROVE StopStep(t)
  BY <1>2 DEF StopPool, Stop, StopStep
<1>3. ASSUME DestroyPool PROVE StopStep(Owner)
  BY <1>3 DEF DestroyPool, StopStep
<1>4. ASSUME SystemStop PROVE StopStep(Owner)
  <2>1. halted /\ halted' = halted BY <1>4 DEF SystemStop, Lives
  <2> QED BY <1>4, <2>1 DEF SystemStop, StopStep
<1>5. ASSUME Join PROVE JoinStep
  <2>1. halted' = halted BY <1>5 DEF Join
  <2> QED BY <1>5, <2>1 DEF Join, JoinStep
<1>6. ASSUME SystemGiveUp PROVE JoinStep
  <2>1. halted' = TRUE BY <1>6 DEF SystemGiveUp
  <2> QED BY <1>6, <2>1 DEF SystemGiveUp, JoinStep
<1> QED BY <1>1, <1>2, <1>3, <1>4, <1>5, <1>6 DEF PoolNext

\* Submissions, as far as the pool can tell them apart.
LEMMA SubmitCases ==
  ASSUME TypeOK, NEW t \in Threads, NEW o \in Ops, Submit(t, o)
  PROVE  /\ UNCHANGED <<queue, stopped, pc, mode, cur, tokens, life, own, halted>>
         /\ call[t] = NoOp /\ MayUse(t) /\ o \notin submitted
         /\ call' = call \/ call' = [call EXCEPT ![t] = o]
<1>1. \/ KeepPrivate(t, o) \/ ReuseCredit(t, o) \/ CountWork(t, o)
      \/ (Dispatch(t, o) /\ Inside(t))
  BY DEF Submit, Post, Defer, Dispatch, PostOp
<1>2. UNCHANGED <<life, own, halted>> /\ MayUse(t) BY DEF Submit
<1>3. CASE KeepPrivate(t, o) \/ ReuseCredit(t, o) \/ CountWork(t, o)
  BY <1>2, <1>3 DEF KeepPrivate, ReuseCredit, CountWork, Submits, CanCall
<1>4. CASE Dispatch(t, o) /\ Inside(t)
  <2>1. UNCHANGED <<queue, stopped, pc, mode, cur, tokens, call>> /\ call[t] = NoOp /\ o \notin submitted
    BY <1>4 DEF Dispatch, shared, context, CanCall
  <2> QED BY <1>2, <2>1
<1> QED BY <1>1, <1>3, <1>4

\* The places of the threads: only wakes, a start, and the thread's own moves.
LEMMA RunOnlyStep ==
  ASSUME TypeOK, Lives, OwnFlags, RunOnly, [PoolNext]_poolVars
  PROVE  RunOnly'
<1> USE PoolAssumption DEF PoolAssumption
<1>0. DataTypes BY DEF TypeOK
<1>1. CASE Construct
  BY <1>1 DEF Construct, WorkStarted, context, RunOnly
<1>2. ASSUME NEW t \in Pool, StartThread(t) PROVE RunOnly'
  <2>1. mode' = [mode EXCEPT ![t] = "run"] /\ (pc' = pc \/ pc' = [pc EXCEPT ![t] = "lock"])
    BY <1>2 DEF StartThread, Enter
  <2> QED BY <1>0, <2>1 DEF RunOnly, DataTypes
<1>3. ASSUME NEW t \in Pool, EndThread(t) PROVE RunOnly'
  BY <1>3 DEF EndThread, vars, RunOnly
<1>4. ASSUME NEW t \in Threads, Step(t) \/ SpuriousWake(t) PROVE RunOnly'
  <2>1. mode' = mode
    BY <1>4 DEF Step, Push, RunStop, StopSection, Leave, TimeOut, Sleep, Pop, Section, Return, Finish, Exit,
         SpuriousWake
  <2>2. CASE Push(t) BY <2>1, <2>2, PushWakes DEF RunOnly
  <2>3. CASE Pop(t) BY <2>1, <2>3, PopWakes DEF RunOnly
  <2>4. CASE RunStop(t) BY <2>1, <2>4 DEF RunOnly, RunStop, StopSection, Wake, WakeOnStop
  <2>5. CASE Return(t)
    <3>1. pc' = [pc EXCEPT ![t] = "lock"] BY <2>5 DEF Return, Finish, RunOnly, LoopModes
    <3> QED BY <1>0, <2>1, <3>1 DEF RunOnly, DataTypes
  <2>6. CASE Leave(t) \/ TimeOut(t) \/ Sleep(t) \/ Exit(t) \/ SpuriousWake(t)
    BY <1>0, <2>1, <2>6 DEF RunOnly, DataTypes, Leave, TimeOut, Sleep, Exit, SpuriousWake
  <2> QED BY <1>4, <2>2, <2>3, <2>4, <2>5, <2>6 DEF Step
<1>5. ASSUME NEW t \in Threads, StopNow(t) PROVE RunOnly'
  BY <1>5 DEF StopNow, StopSection, Wake, WakeOnStop, RunOnly
<1>6. ASSUME NEW t \in Threads, NEW o \in Ops, Submit(t, o) PROVE RunOnly'
  BY <1>6, SubmitCases DEF RunOnly
<1>7. CASE JoinStep \/ JoinReturns \/ UNCHANGED poolVars
  BY <1>7 DEF JoinStep, WorkFinished, JoinReturns, poolVars, vars, context, RunOnly
<1> QED BY <1>1, <1>2, <1>3, <1>4, <1>5, <1>6, <1>7, PoolCases DEF OwnStep, StopStep

LEMMA UnreusedStep ==
  ASSUME TypeOK, Lives, OwnFlags, Unreused, [PoolNext]_poolVars
  PROVE  Unreused'
<1> USE PoolAssumption DEF PoolAssumption
<1>0. DataTypes BY DEF TypeOK
<1>1. ASSUME reused' = reused, UNCHANGED <<delta, private>>,
             \A u \in Threads : pc'[u] = "run" => pc[u] = "run"
      PROVE  Unreused'
  BY <1>1 DEF Unreused
<1>2. CASE Construct \/ JoinStep \/ JoinReturns \/ UNCHANGED poolVars
  BY <1>1, <1>2 DEF Construct, WorkStarted, JoinStep, WorkFinished, JoinReturns, poolVars, vars, context
<1>3. ASSUME NEW t \in Pool, StartThread(t) \/ EndThread(t) PROVE Unreused'
  BY <1>0, <1>1, <1>3 DEF StartThread, Enter, EndThread, vars, shared, DataTypes
<1>4. ASSUME NEW t \in Threads, StopStep(t) PROVE Unreused'
  BY <1>1, <1>4 DEF StopStep, StopNow, StopSection, Wake, WakeOnStop, Sleepers
<1>5. ASSUME NEW t \in Threads, Step(t) \/ SpuriousWake(t), reused' = reused PROVE Unreused'
  <2>1. CASE Push(t)
    <3>1. \A u \in Threads : pc'[u] = "run" => pc[u] = "run" BY <2>1, PushWakes
    <3>2. UNCHANGED <<delta, private>> BY <2>1 DEF Push
    <3> QED BY <1>1, <1>5, <3>1, <3>2
  <2>2. CASE RunStop(t)
    BY <1>1, <1>5, <2>2 DEF RunStop, StopSection, Wake, WakeOnStop, Sleepers
  <2>3. CASE Leave(t) \/ TimeOut(t) \/ Sleep(t) \/ Exit(t) \/ SpuriousWake(t)
    <3>1. /\ delta' = delta /\ \A u \in Threads : u # t => private'[u] = private[u]
          /\ pc'[t] # "run" /\ \A u \in Threads : u # t => pc'[u] = pc[u]
      BY <1>0, <2>3 DEF Leave, TimeOut, Sleep, Section, Exit, SpuriousWake, DataTypes, shared
    <3> QED BY <1>5, <3>1 DEF Unreused
  <2>4. CASE Pop(t)
    <3>1. /\ private'[t] = << >> /\ \A u \in Threads : u # t => private'[u] = private[u]
          /\ delta'[t] = -1 /\ \A u \in Threads : u # t => delta'[u] = delta[u]
      BY <1>0, <2>4 DEF Pop, Section, DataTypes
    <3>2. \A u \in Threads : u # t /\ pc'[u] = "run" => pc[u] = "run" BY <2>4, PopWakes
    <3>3. Len(private'[t]) = 0 BY <3>1
    <3> QED BY <1>5, <3>1, <3>2, <3>3 DEF Unreused
  <2>5. CASE Return(t)
    <3>1. /\ private' = private /\ \A u \in Threads : u # t => delta'[u] = delta[u]
          /\ pc'[t] # "run" /\ \A u \in Threads : u # t => pc'[u] = pc[u]
      BY <1>0, <2>5 DEF Return, Finish, DeltaReset, DataTypes
    <3> QED BY <1>5, <3>1 DEF Unreused
  <2> QED BY <1>5, <2>1, <2>2, <2>3, <2>4, <2>5 DEF Step
<1>6. ASSUME NEW t \in Threads, NEW o \in Ops, Submit(t, o) PROVE Unreused'
  <2>1. pc' = pc /\ call[t] = NoOp BY <1>6, SubmitCases
  <2>2. reused' = (reused \/ (call'[t] # NoOp /\ delta'[t] # delta[t])) BY <1>6 DEF Submit
  <2>3. CASE KeepPrivate(t, o)
    <3>1. /\ private'[t] = Append(private[t], o) /\ delta'[t] = delta[t] + 1 /\ call' = call
          /\ \A u \in Threads : u # t => private'[u] = private[u] /\ delta'[u] = delta[u]
          /\ private[t] \in Seq(Ops) /\ delta[t] \in Int
      BY <1>0, <2>3 DEF KeepPrivate, DataTypes
    <3>2. Len(private'[t]) = Len(private[t]) + 1 /\ Len(private[t]) \in Nat BY <3>1
    <3>3. ~reused' => ~reused BY <2>2
    <3> QED BY <2>1, <3>1, <3>2, <3>3 DEF Unreused
  <2>4. CASE ReuseCredit(t, o)
    <3>1. call'[t] = o /\ delta'[t] = delta[t] + 1 /\ delta[t] \in Int
      BY <1>0, <2>4 DEF ReuseCredit, DataTypes
    <3>2. call'[t] # NoOp /\ delta'[t] # delta[t]
      BY <3>1, SchedulerAssumption DEF SchedulerAssumption
    <3> QED BY <2>2, <3>2 DEF Unreused
  <2>5. CASE CountWork(t, o) \/ (Dispatch(t, o) /\ Inside(t))
    <3>1. UNCHANGED <<delta, private>> BY <2>5 DEF CountWork, Dispatch, Inside, context, PostOp
    <3>2. ~reused' => ~reused BY <2>2
    <3> QED BY <2>1, <3>1, <3>2 DEF Unreused
  <2> QED BY <1>6, <2>3, <2>4, <2>5 DEF Submit, Post, Defer, Dispatch, PostOp
<1> QED BY <1>2, <1>3, <1>4, <1>5, <1>6, PoolCases DEF OwnStep

\* Once the scheduler is stopped or about to be, it stays so.
LEMMA HaltingStays ==
  ASSUME TypeOK, Lives, OwnFlags, Halting, [PoolNext]_poolVars
  PROVE  Halting'
<1> USE PoolAssumption, SchedulerAssumption DEF PoolAssumption, SchedulerAssumption
<1>0. DataTypes BY DEF TypeOK
<1>1. ASSUME stopped' = stopped,
             \A u \in Threads : call[u] = StopCall => call'[u] = StopCall
      PROVE  Halting'
  BY <1>1 DEF Halting
<1>2. CASE Construct \/ JoinStep \/ JoinReturns \/ UNCHANGED poolVars
  <2>1. stopped' = stopped /\ (call' = call \/ call' = [call EXCEPT ![Owner] = StopCall])
    BY <1>2 DEF Construct, WorkStarted, JoinStep, WorkFinished, StopIf, JoinReturns, poolVars, vars
  <2> QED BY <1>0, <1>1, <2>1 DEF DataTypes
<1>3. ASSUME NEW t \in Pool, StartThread(t) \/ EndThread(t) PROVE Halting'
  <2>1. stopped' = stopped /\ (call' = call \/ call' = [call EXCEPT ![t] = StopCall])
    BY <1>3 DEF StartThread, Enter, StopIf, EndThread, vars, shared
  <2> QED BY <1>0, <1>1, <2>1 DEF DataTypes
<1>4. ASSUME NEW t \in Threads, StopNow(t) \/ RunStop(t) PROVE Halting'
  BY <1>4 DEF StopNow, RunStop, StopSection, Halting
<1>5. ASSUME NEW t \in Threads, Push(t) PROVE Halting'
  BY <1>0, <1>1, <1>5 DEF Push, DataTypes
<1>6. ASSUME NEW t \in Threads,
             Leave(t) \/ TimeOut(t) \/ Sleep(t) \/ Pop(t) \/ Exit(t) \/ SpuriousWake(t) \/ Return(t)
      PROVE  Halting'
  <2>1. stopped' = stopped /\ (call' = call \/ call' = [call EXCEPT ![t] = StopCall])
    BY <1>6 DEF Leave, TimeOut, Sleep, Pop, Section, Exit, SpuriousWake, shared, Return, Finish, StopIf
  <2> QED BY <1>0, <1>1, <2>1 DEF DataTypes
<1>7. ASSUME NEW t \in Threads, NEW o \in Ops, Submit(t, o) PROVE Halting'
  <2>1. stopped' = stopped /\ call[t] = NoOp /\ (call' = call \/ call' = [call EXCEPT ![t] = o])
    BY <1>7, SubmitCases
  <2> QED BY <1>0, <1>1, <2>1 DEF DataTypes
<1> QED
  BY <1>2, <1>3, <1>4, <1>5, <1>6, <1>7, PoolCases DEF OwnStep, StopStep, Step

\* Nobody but the program begins to stop the scheduler before the count is zero.
LEMMA StopBegins ==
  ASSUME TypeOK, Lives, OwnFlags, ~Halting, Halting', ~halted', [PoolNext]_poolVars
  PROVE  work' = 0
<1> USE PoolAssumption, SchedulerAssumption DEF PoolAssumption, SchedulerAssumption
<1>0. DataTypes BY DEF TypeOK
<1>1. ASSUME stopped' = stopped, \A u \in Threads : call'[u] = StopCall => call[u] = StopCall
      PROVE  FALSE
  BY <1>1 DEF Halting
<1>2. ASSUME NEW t \in Threads, NEW zero, StopIf(zero, t), stopped' = stopped PROVE zero
  BY <1>1, <1>2 DEF StopIf
<1>3. CASE Construct \/ JoinReturns \/ UNCHANGED poolVars
  BY <1>1, <1>3 DEF Construct, WorkStarted, JoinReturns, poolVars, vars
<1>4. CASE JoinStep
  <2>1. StopIf(work - 1 = 0, Owner) /\ stopped' = stopped /\ work' = work - 1
    BY <1>4 DEF JoinStep, WorkFinished
  <2> QED BY <1>2, <2>1
<1>5. ASSUME NEW t \in Pool, StartThread(t) \/ EndThread(t) PROVE work' = 0
  <2>1. CASE StartThread(t)
    <3>1. t \in Threads /\ StopIf(work = 0, t) /\ stopped' = stopped /\ work' = work
      BY <2>1 DEF StartThread, Enter, shared
    <3> QED BY <1>2, <3>1
  <2>2. CASE EndThread(t) BY <1>1, <2>2 DEF EndThread, vars
  <2> QED BY <1>5, <2>1, <2>2
<1>6. ASSUME NEW t \in Threads, Step(t) \/ SpuriousWake(t) PROVE work' = 0
  <2>1. CASE Push(t) BY <1>0, <1>1, <2>1 DEF Push, DataTypes
  <2>2. CASE RunStop(t) BY <2>2 DEF RunStop, Halting
  <2>3. CASE Leave(t) \/ TimeOut(t) \/ Sleep(t) \/ Pop(t) \/ Exit(t) \/ SpuriousWake(t)
    BY <1>1, <2>3 DEF Leave, TimeOut, Sleep, Pop, Section, Exit, SpuriousWake, shared
  <2>4. CASE Return(t)
    <3>1. /\ StopIf(delta[t] # 0 /\ work + delta[t] = 0, t) /\ stopped' = stopped
          /\ work' = work + delta[t]
      BY <2>4 DEF Return, Finish
    <3> QED BY <1>2, <3>1
  <2> QED BY <1>6, <2>1, <2>2, <2>3, <2>4 DEF Step
<1>7. ASSUME NEW t \in Threads, NEW o \in Ops, Submit(t, o) PROVE work' = 0
  <2>1. stopped' = stopped /\ (call' = call \/ call' = [call EXCEPT ![t] = o])
    BY <1>7, SubmitCases
  <2> QED BY <1>0, <1>1, <2>1 DEF DataTypes
<1> QED
  BY <1>3, <1>4, <1>5, <1>6, <1>7, PoolCases DEF OwnStep, StopStep

\* When the count is zero and every function keeps its unit, all are done.
LEMMA NothingAtZero ==
  TypeOK /\ OnePlace /\ CountExact /\ Unreused /\ ~reused /\ work = 0 => submitted \subseteq done
<1> SUFFICES ASSUME TypeOK, OnePlace, CountExact, Unreused, ~reused, work = 0
             PROVE  submitted \subseteq done
  OBVIOUS
<1>0. DataTypes BY DEF TypeOK
<1>1. Counted = {} BY FS_EmptySet DEF CountExact
<1>2. Range(queue) = {} BY <1>1 DEF Counted
<1>3. ASSUME NEW t \in Threads PROVE Held(t) = {}
  <2>1. call[t] \notin Ops BY <1>1 DEF Counted
  <2>2. pc[t] # "run"
    <3>1. pc[t] = "run" => KeepsCredit(t) BY DEF Unreused, KeepsCredit
    <3>2. KeepsCredit(t) => cur[t] \in Counted BY DEF Counted
    <3> QED BY <1>1, <3>1, <3>2
  <2>3. cur[t] = NoOp BY <2>2 DEF TypeOK, Places
  <2>4. Range(private[t]) \subseteq UNION {Range(private[u]) : u \in {v \in Threads : pc[v] # "run"}}
    BY <2>2
  <2>5. Range(private[t]) = {} BY <1>1, <2>4 DEF Counted
  <2> QED BY <2>1, <2>3, <2>5, SchedulerAssumption DEF Held, SchedulerAssumption
<1>4. submitted \subseteq Ops BY <1>0 DEF DataTypes
<1> QED BY <1>2, <1>3, <1>4 DEF OnePlace, Spread

\* What is submitted while the scheduler halts comes from a function that runs.
LEMMA DoneStep ==
  ASSUME TypeOK, OnePlace, Up, Lives, OwnFlags, PoolInside, DoneWhenHalting,
         TypeOK', OnePlace', CountExact', Unreused', [PoolNext]_poolVars
  PROVE  DoneWhenHalting'
<1> USE PoolAssumption, SchedulerAssumption DEF PoolAssumption, SchedulerAssumption
<1> SUFFICES ASSUME ~halted', ~reused', Halting' PROVE submitted' \subseteq done'
  BY DEF DoneWhenHalting
<1>0. DataTypes BY DEF TypeOK
<1>1. ~halted
  BY PoolCases DEF Construct, StartThread, EndThread, OwnStep, StopStep, Submit, JoinStep, JoinReturns, poolVars
<1>2. ~reused
  BY PoolCases DEF Construct, StartThread, EndThread, OwnStep, StopStep, Submit, JoinStep, JoinReturns, poolVars
<1>3. CASE ~Halting
  <2>1. work' = 0 BY <1>3, StopBegins
  <2>2. (TypeOK /\ OnePlace /\ CountExact /\ Unreused /\ ~reused /\ work = 0 => submitted \subseteq done)'
    BY NothingAtZero, PTL
  <2> QED BY <2>1, <2>2
<1>4. CASE Halting
  <2>1. submitted \subseteq done BY <1>1, <1>2, <1>4 DEF DoneWhenHalting
  <2>2. own # "ctor" /\ own # "using"
    BY <1>1, <1>4 DEF Up, PoolStaysUp, Halting
  <2>3. \A t \in Threads, o \in Ops : ~Submit(t, o)
    <3> SUFFICES ASSUME NEW t \in Threads, NEW o \in Ops, Submit(t, o) PROVE FALSE
      OBVIOUS
    <3>1. Inside(t) BY <2>2, SubmitCases DEF MayUse
    <3>2. cur[t] \in Ops BY <1>0, <3>1 DEF TypeOK, DataTypes, Places, Inside
    <3> QED BY <2>1, <3>2, HeldAre
  <2>4. submitted' = submitted /\ done \subseteq done'
    <3>1. CASE Construct \/ JoinStep \/ JoinReturns \/ UNCHANGED poolVars
      BY <3>1 DEF Construct, WorkStarted, JoinStep, WorkFinished, JoinReturns, poolVars, vars
    <3>2. ASSUME NEW t \in Pool, StartThread(t) \/ EndThread(t) PROVE submitted' = submitted /\ done \subseteq done'
      BY <3>2 DEF StartThread, Enter, EndThread, vars
    <3>3. ASSUME NEW t \in Threads, OwnStep(t) \/ StopStep(t) PROVE submitted' = submitted /\ done \subseteq done'
      BY <3>3 DEF OwnStep, StopStep, StopNow, StopSection, Step, SpuriousWake, Push, RunStop, Leave,
           TimeOut, Sleep, Pop, Section, Return, Finish, Exit
    <3> QED BY <2>3, <3>1, <3>2, <3>3, PoolCases
  <2> QED BY <2>1, <2>4
<1> QED BY <1>3, <1>4

\* Who leaves the scheduler, and when.
LEMMA LeftStep ==
  ASSUME TypeOK, Lives, OwnFlags, RunOnly, PoolInside, LeftWhenHalting, [PoolNext]_poolVars
  PROVE  LeftWhenHalting'
<1> USE PoolAssumption, SchedulerAssumption DEF PoolAssumption, SchedulerAssumption
<1>0. DataTypes BY DEF TypeOK
<1>1. CASE Halting BY <1>1, HaltingStays DEF LeftWhenHalting
<1>2. ASSUME \A u \in Pool : life'[u] \in {"live", "ended"} /\ pc'[u] = "out"
               => life[u] \in {"live", "ended"} /\ pc[u] = "out"
      PROVE  LeftWhenHalting'
  BY <1>1, <1>2, HaltingStays DEF LeftWhenHalting
<1>3. CASE Construct
  BY <1>2, <1>3 DEF Construct
<1>4. CASE JoinStep \/ JoinReturns \/ UNCHANGED poolVars
  BY <1>2, <1>4 DEF JoinStep, WorkFinished, JoinReturns, poolVars, vars, context
<1>5. ASSUME NEW t \in Pool, StartThread(t) PROVE LeftWhenHalting'
  <2>1. /\ life' = [life EXCEPT ![t] = "live"] /\ t \in Threads
        /\ StopIf(work = 0, t) /\ pc' = IF work = 0 THEN pc ELSE [pc EXCEPT ![t] = "lock"]
    BY <1>5 DEF StartThread, Enter
  <2>2. CASE work = 0
    <3>1. call'[t] = StopCall BY <1>0, <2>1, <2>2 DEF StopIf, DataTypes
    <3>2. Halting' BY <2>1, <3>1 DEF Halting
    <3> QED BY <3>2 DEF LeftWhenHalting
  <2>3. CASE work # 0
    <3>1. pc'[t] = "lock" /\ \A u \in Threads : u # t => pc'[u] = pc[u] BY <1>0, <2>1, <2>3 DEF DataTypes
    <3>2. \A u \in Pool : u # t => life'[u] = life[u] BY <2>1
    <3> QED BY <1>2, <3>1, <3>2
  <2> QED BY <2>2, <2>3
<1>6. ASSUME NEW t \in Pool, EndThread(t) PROVE LeftWhenHalting'
  <2>1. life[t] = "live" /\ life' = [life EXCEPT ![t] = "ended"] /\ pc' = pc
    BY <1>6 DEF EndThread, vars
  <2>2. \A u \in Pool : u # t => life'[u] = life[u] BY <2>1
  <2> QED BY <1>2, <2>1, <2>2
<1>7. ASSUME NEW t \in Threads, StopStep(t) PROVE LeftWhenHalting'
  <2>1. life' = life /\ \A u \in Threads : pc'[u] = "out" => pc[u] = "out"
    BY <1>7 DEF StopStep, StopNow, StopSection, Wake, WakeOnStop, Sleepers
  <2> QED BY <1>2, <2>1
<1>8. ASSUME NEW t \in Threads, NEW o \in Ops, Submit(t, o) PROVE LeftWhenHalting'
  BY <1>2, <1>8, SubmitCases
<1>9. ASSUME NEW t \in Threads, Step(t) \/ SpuriousWake(t), life' = life PROVE LeftWhenHalting'
  <2>1. CASE Push(t) BY <1>2, <1>9, <2>1, PushWakes
  <2>2. CASE Pop(t) BY <1>2, <1>9, <2>2, PopWakes
  <2>3. CASE RunStop(t) BY <1>1, <2>3 DEF RunStop, Halting
  <2>4. CASE Leave(t)
    <3>1. stopped BY <2>4 DEF Leave, RunOnly, PollModes
    <3> QED BY <1>1, <3>1 DEF Halting
  <2>5. CASE TimeOut(t) \/ Exit(t) BY <2>5 DEF TimeOut, Exit, RunOnly, TimedModes
  <2>6. CASE Sleep(t) \/ Return(t) \/ SpuriousWake(t)
    <3>1. pc'[t] # "out" /\ \A u \in Threads : u # t => pc'[u] = pc[u]
      BY <1>0, <2>6 DEF Sleep, Return, Finish, SpuriousWake, DataTypes
    <3> QED BY <1>2, <1>9, <3>1
  <2> QED BY <1>9, <2>1, <2>2, <2>3, <2>4, <2>5, <2>6 DEF Step
<1> QED BY <1>3, <1>4, <1>5, <1>6, <1>7, <1>8, <1>9, PoolCases DEF OwnStep

LEMMA LivesStep ==
  ASSUME LifeTypes, Lives, OwnFlags, PoolInside, [PoolNext]_poolVars
  PROVE  Lives'
<1>1. CASE Construct
  <2>1. PICK started \in (SUBSET Pool) \ {{}} :
          life' = [t \in Pool |-> IF t \in started THEN "new" ELSE "none"]
    BY <1>1 DEF Construct
  <2>2. PICK t \in Pool : t \in started BY <2>1
  <2>3. life'[t] = "new" BY <2>1, <2>2
  <2> QED BY <1>1, <2>3 DEF Construct, Lives
<1>2. ASSUME NEW t \in Pool, StartThread(t) \/ EndThread(t) PROVE Lives'
  <2>1. /\ UNCHANGED <<own, halted>> /\ life[t] \in {"new", "live"}
        /\ ((life[t] = "new" /\ life' = [life EXCEPT ![t] = "live"]) \/ (life[t] = "live" /\ life' = [life EXCEPT ![t] = "ended"]))
    BY <1>2 DEF StartThread, EndThread
  <2>2. life'[t] # "none" /\ \A u \in Pool : u # t => life'[u] = life[u]
    BY <2>1 DEF LifeTypes
  <2>3. life'[t] = "ended" \/ life[t] = "new" BY <2>1 DEF LifeTypes
  <2> QED BY <2>1, <2>2, <2>3 DEF Lives
<1>3. ASSUME NEW t \in Threads, OwnStep(t) PROVE Lives'
  BY <1>3 DEF OwnStep, Lives
<1>4. ASSUME NEW t \in Threads, StopStep(t) PROVE Lives'
  BY <1>4 DEF StopStep, Lives
<1>5. ASSUME NEW t \in Threads, NEW o \in Ops, Submit(t, o) PROVE Lives'
  BY <1>5 DEF Submit, Lives
<1>6. CASE JoinStep BY <1>6 DEF JoinStep, Lives
<1>7. CASE JoinReturns BY <1>7 DEF JoinReturns, Lives
<1>8. CASE UNCHANGED poolVars BY <1>8 DEF poolVars, Lives
<1> QED BY <1>1, <1>2, <1>3, <1>4, <1>5, <1>6, <1>7, <1>8, PoolCases

Drained == RunOnly /\ Unreused /\ LeftWhenHalting /\ Lives /\ DoneWhenHalting

LEMMA DrainedInvariant == PoolSpec => []Drained
<1>1. PoolInit => Drained
  <2> SUFFICES ASSUME PoolInit PROVE Drained OBVIOUS
  <2>1. /\ own = "ctor" /\ submitted = {} /\ \A t \in Pool : life[t] = "none"
        /\ \A t \in Threads : pc[t] = "out" /\ mode[t] = "run"
    BY DEF PoolInit, Init
  <2> QED BY <2>1 DEF Drained, RunOnly, Unreused, LeftWhenHalting, Lives, DoneWhenHalting
<1>2. TypeOK /\ TypeOK' /\ OnePlace /\ OnePlace' /\ CountExact' /\ Up /\ LifeTypes /\ PoolInside /\ OwnFlags
        /\ Drained /\ [PoolNext]_poolVars => Drained'
  <2> SUFFICES ASSUME TypeOK, TypeOK', OnePlace, OnePlace', CountExact', Up, LifeTypes, PoolInside, OwnFlags,
                      Drained, [PoolNext]_poolVars
               PROVE  Drained'
    OBVIOUS
  <2> USE DEF Drained
  <2>1. RunOnly' BY RunOnlyStep
  <2>2. Unreused' BY UnreusedStep
  <2>3. LeftWhenHalting' BY LeftStep
  <2>4. Lives' BY LivesStep
  <2>5. DoneWhenHalting' BY <2>2, DoneStep
  <2> QED BY <2>1, <2>2, <2>3, <2>4, <2>5
<1> QED
  BY <1>1, <1>2, PoolPlaces, PoolIsScheduler, TypeCorrect, PlaceInvariant, CountInvariant, UpInvariant, PTL
     DEF PoolSpec

\* A pool that was joined without being stopped has run every function it was
\* given, unless a post took over its caller's unit of work: the count comes to
\* zero only when nothing is queued, running or half submitted
\* (thread_pool.h:53-62 against scheduler.h:371-391).
THEOREM JoinIsComplete == PoolSpec => []JoinDrainsUnlessReused
<1>1. Drained /\ PoolInside => JoinDrainsUnlessReused
  <2> SUFFICES ASSUME Drained, PoolInside, own = "joined", ~halted, ~reused
               PROVE  submitted \subseteq done
    BY DEF JoinDrainsUnlessReused
  <2>1. PICK t \in Pool : life[t] = "ended" BY DEF Drained, Lives
  <2>2. pc[t] = "out" BY <2>1, PoolAssumption DEF PoolInside, PoolAssumption
  <2>3. Halting BY <2>1, <2>2 DEF Drained, LeftWhenHalting
  <2> QED BY <2>3 DEF Drained, DoneWhenHalting
<1> QED BY <1>1, DrainedInvariant, PoolPlaces, PTL
=============================================================================
