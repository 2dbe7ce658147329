---------------------------- MODULE StrandProofs ----------------------------
(***************************************************************************)
(* For any number of threads, strands and functions, and for any inner     *)
(* executor: the functions of a strand exclude each other, the ready flag  *)
(* is set exactly while one invoker owns the ready queue, and functions    *)
(* begin one at a time in the order they were accepted.                    *)
(***************************************************************************)
EXTENDS Strand, SequenceTheorems, FiniteSetTheorems, TLAPS

----------------------------------------------------------------------------
(* What the three changes of a thread's stack do to its frames.            *)

LEMMA UnderShape ==
  ASSUME DataTypes, NEW t \in Threads, stack[t] # << >>
  PROVE  /\ Under(t) \in Seq(Frames)
         /\ Len(Under(t)) = Len(stack[t]) - 1
         /\ \A i \in 1 .. Len(stack[t]) - 1 : Under(t)[i] = stack[t][i]
         /\ Top(t) \in Frames
         /\ Len(stack[t]) \in Nat /\ Len(stack[t]) > 0
<1>1. stack[t] \in Seq(Frames) /\ Len(stack[t]) \in Nat /\ Len(stack[t]) > 0
  BY DEF DataTypes
<1>2. \A i \in 1 .. Len(stack[t]) - 1 : stack[t][i] \in Frames
  BY <1>1
<1>3. /\ SubSeq(stack[t], 1, Len(stack[t]) - 1) \in Seq(Frames)
      /\ Len(SubSeq(stack[t], 1, Len(stack[t]) - 1)) = Len(stack[t]) - 1
      /\ \A i \in 1 .. Len(stack[t]) - 1 : SubSeq(stack[t], 1, Len(stack[t]) - 1)[i] = stack[t][i]
  BY <1>1, <1>2, SubSeqProperties
<1> QED BY <1>1, <1>3 DEF Under, Top

\* What a push, a pop and a replacement leave: the frames of the thread, by
\* place, and the other threads' stacks.
Pushes(t, f) ==
  /\ stack' \in [Threads -> Seq(Frames)]
  /\ Len(stack[t]) \in Nat
  /\ Len(stack'[t]) = Len(stack[t]) + 1
  /\ stack'[t][Len(stack[t]) + 1] = f
  /\ \A i \in 1 .. Len(stack[t]) : stack'[t][i] = stack[t][i]
  /\ \A u \in Threads : u # t => stack'[u] = stack[u]

Pops(t) ==
  /\ stack' \in [Threads -> Seq(Frames)]
  /\ Len(stack[t]) \in Nat \ {0}
  /\ Len(stack'[t]) = Len(stack[t]) - 1
  /\ \A i \in 1 .. Len(stack[t]) - 1 : stack'[t][i] = stack[t][i]
  /\ \A u \in Threads : u # t => stack'[u] = stack[u]

Replaces(t, f) ==
  /\ stack' \in [Threads -> Seq(Frames)]
  /\ Len(stack[t]) \in Nat \ {0}
  /\ Len(stack'[t]) = Len(stack[t])
  /\ stack'[t][Len(stack[t])] = f
  /\ \A i \in 1 .. Len(stack[t]) - 1 : stack'[t][i] = stack[t][i]
  /\ \A u \in Threads : u # t => stack'[u] = stack[u]

LEMMA PushedShape ==
  ASSUME DataTypes, NEW t \in Threads, NEW f \in Frames, stack' = Pushed(t, f)
  PROVE  Pushes(t, f)
  BY DEF DataTypes, Pushed, Pushes

LEMMA PoppedShape ==
  ASSUME DataTypes, NEW t \in Threads, stack[t] # << >>, stack' = Popped(t)
  PROVE  Pops(t)
  BY UnderShape DEF DataTypes, Popped, Pops

LEMMA WithTopShape ==
  ASSUME DataTypes, NEW t \in Threads, stack[t] # << >>, NEW f \in Frames,
         stack' = WithTop(t, f)
  PROVE  Replaces(t, f)
<1>1. /\ Append(Under(t), f) \in Seq(Frames)
      /\ Len(Append(Under(t), f)) = Len(stack[t])
      /\ Append(Under(t), f)[Len(stack[t])] = f
      /\ \A i \in 1 .. Len(stack[t]) - 1 : Append(Under(t), f)[i] = stack[t][i]
  BY UnderShape
<1>2. stack'[t] = Append(Under(t), f)
  BY DEF WithTop, DataTypes
<1>3. Len(stack[t]) \in Nat \ {0}
  BY UnderShape
<1> QED BY <1>1, <1>2, <1>3 DEF WithTop, DataTypes, Replaces

----------------------------------------------------------------------------
(* The shape of the stacks after each of the three.                        *)

LEMMA PushKeepsShape ==
  ASSUME DataTypes, StackShape, NEW t \in Threads, NEW f, Pushes(t, f),
         \A i \in 1 .. Len(stack[t]) : UserFrame(stack[t][i]),
         UserFrame(f) \/ (InvokerFrame(f) /\ call'[t] = NoCall),
         \A u \in Threads : u # t => call'[u] = call[u]
  PROVE  StackShape'
<1>1. \A i \in DOMAIN stack'[t] :
        UserFrame(stack'[t][i]) \/ (InvokerFrame(stack'[t][i]) /\ i = Len(stack'[t]) /\ call'[t] = NoCall)
  BY DEF Pushes
<1>2. ASSUME NEW u \in Threads, u # t, NEW i \in DOMAIN stack'[u]
      PROVE  UserFrame(stack'[u][i]) \/ (InvokerFrame(stack'[u][i]) /\ i = Len(stack'[u]) /\ call'[u] = NoCall)
  BY <1>2 DEF Pushes, StackShape
<1> QED BY <1>1, <1>2 DEF StackShape, UserFrame, InvokerFrame

LEMMA PopKeepsShape ==
  ASSUME DataTypes, StackShape, NEW t \in Threads, Pops(t), UNCHANGED call
  PROVE  StackShape'
<1>1. ASSUME NEW i \in DOMAIN stack'[t]
      PROVE  UserFrame(stack'[t][i])
  <2>1. i \in 1 .. Len(stack[t]) - 1 /\ i \in DOMAIN stack[t] /\ i # Len(stack[t])
    BY DEF Pops, DataTypes
  <2> QED BY <2>1 DEF Pops, StackShape
<1>2. ASSUME NEW u \in Threads, u # t, NEW i \in DOMAIN stack'[u]
      PROVE  UserFrame(stack'[u][i]) \/ (InvokerFrame(stack'[u][i]) /\ i = Len(stack'[u]) /\ call'[u] = NoCall)
  BY <1>2 DEF Pops, StackShape
<1> QED BY <1>1, <1>2 DEF StackShape, UserFrame, InvokerFrame

LEMMA ReplaceKeepsShape ==
  ASSUME DataTypes, StackShape, NEW t \in Threads, NEW f, Replaces(t, f),
         UserFrame(f) \/ InvokerFrame(f), call[t] = NoCall, UNCHANGED call
  PROVE  StackShape'
<1>1. ASSUME NEW i \in DOMAIN stack'[t]
      PROVE  UserFrame(stack'[t][i]) \/ (InvokerFrame(stack'[t][i]) /\ i = Len(stack'[t]) /\ call'[t] = NoCall)
  <2>1. CASE i = Len(stack[t])
    BY <2>1 DEF Replaces
  <2>2. CASE i # Len(stack[t])
    <3>1. i \in 1 .. Len(stack[t]) - 1 /\ i \in DOMAIN stack[t]
      BY <2>2 DEF Replaces, DataTypes
    <3> QED BY <2>2, <3>1 DEF Replaces, StackShape
  <2> QED BY <2>1, <2>2
<1>2. ASSUME NEW u \in Threads, u # t, NEW i \in DOMAIN stack'[u]
      PROVE  UserFrame(stack'[u][i]) \/ (InvokerFrame(stack'[u][i]) /\ i = Len(stack'[u]) /\ call'[u] = NoCall)
  BY <1>2 DEF Replaces, StackShape
<1> QED BY <1>1, <1>2 DEF StackShape, UserFrame, InvokerFrame

\* A thread in user code has only functions on its stack.
LEMMA AllUserFrames ==
  ASSUME DataTypes, StackShape, NEW t \in Threads,
         InUserCode(t) \/ call[t] # NoCall
  PROVE  \A i \in 1 .. Len(stack[t]) : UserFrame(stack[t][i])
<1>1. CASE call[t] # NoCall
  BY <1>1 DEF StackShape, DataTypes
<1>2. CASE InUserCode(t)
  <2> SUFFICES ASSUME NEW i \in 1 .. Len(stack[t])
               PROVE  UserFrame(stack[t][i])
    OBVIOUS
  <2>1. i \in DOMAIN stack[t] /\ stack[t] # << >>
    BY DEF DataTypes
  <2>2. i = Len(stack[t]) => ~InvokerFrame(stack[t][i])
    BY <1>2, <2>1 DEF InUserCode, Top, InvokerFrame
  <2> QED BY <2>1, <2>2 DEF StackShape
<1> QED BY <1>1, <1>2

----------------------------------------------------------------------------
(* Types.                                                                  *)

LEMMA FlagStep == FlagTypes /\ [Next]_vars => FlagTypes'
<1> SUFFICES ASSUME FlagTypes, [Next]_vars
             PROVE  FlagTypes'
  OBVIOUS
<1>1. ASSUME NEW t \in Threads, NEW k \in Kinds, NEW s \in Strands, NEW o \in Ops,
             Accept(t, k, s, o)
      PROVE  FlagTypes'
  BY <1>1 DEF Accept, FlagTypes
<1>2. ASSUME NEW t \in Threads, OnExit(t)
      PROVE  FlagTypes'
  BY <1>2 DEF OnExit, More, FlagTypes
<1>3. ASSUME UNCHANGED ready
      PROVE  FlagTypes'
  BY <1>3 DEF FlagTypes
<1>4. ASSUME NEW t \in Threads, NEW s \in Strands, NEW o \in Ops, RunInside(t, s, o)
      PROVE  UNCHANGED ready
  BY <1>4 DEF RunInside
<1>5. ASSUME NEW t \in Threads, Throw(t) \/ PushReady(t) \/ Submit(t) \/ RunNext(t) \/ Return(t) \/ Redefer(t)
      PROVE  UNCHANGED ready
  BY <1>5 DEF Throw, PushReady, Submit, RunNext, Return, FunctionOver, Redefer
<1>6. ASSUME NEW t \in Threads, NEW s \in Strands, Start(t, s)
      PROVE  UNCHANGED ready
  BY <1>6 DEF Start
<1>7. CASE UNCHANGED vars
  BY <1>3, <1>7 DEF vars
<1> QED
  BY <1>1, <1>2, <1>3, <1>4, <1>5, <1>6, <1>7 DEF Next, Step

LEMMA DataStep == DataTypes /\ StackShape /\ [Next]_vars => DataTypes' /\ StackShape'
<1> SUFFICES ASSUME DataTypes, StackShape, [Next]_vars
             PROVE  DataTypes' /\ StackShape'
  OBVIOUS
<1> USE StrandAssumption DEF StrandAssumption
<1>1. ASSUME NEW t \in Threads, NEW s \in Strands, NEW o \in Ops, RunInside(t, s, o)
      PROVE  DataTypes' /\ StackShape'
  <2> DEFINE f == [strand |-> s, at |-> "inline", op |-> o]
  <2>1. f \in Frames /\ UserFrame(f)
    BY DEF Frames, UserFrame
  <2>2. stack' = Pushed(t, f) /\ InUserCode(t) /\ UNCHANGED <<waitingQ, readyQ, inner, call, done>>
    BY <1>1 DEF RunInside
  <2>3. fresh' \subseteq Ops
    BY <1>1 DEF RunInside, DataTypes
  <2> HIDE DEF f
  <2>4. Pushes(t, f)
    BY <2>1, <2>2, PushedShape
  <2>5. DataTypes'
    BY <2>2, <2>3, <2>4 DEF DataTypes, Pushes
  <2>6. StackShape'
    BY <2>1, <2>2, <2>4, AllUserFrames, PushKeepsShape
  <2> QED BY <2>5, <2>6
<1>2. ASSUME NEW t \in Threads, NEW k \in Kinds, NEW s \in Strands, NEW o \in Ops, Accept(t, k, s, o)
      PROVE  DataTypes' /\ StackShape'
  <2>1. [at |-> "push", kind |-> k, strand |-> s, op |-> o] \in CallRecords
    BY DEF CallRecords, Kinds
  <2>2. call' \in [Threads -> CallRecords \cup {NoCall}] /\ \A u \in Threads : u # t => call'[u] = call[u]
    BY <1>2, <2>1 DEF Accept, DataTypes
  <2>0. waitingQ' = [waitingQ EXCEPT ![s] = Append(@, o)] \/ waitingQ' = waitingQ
    BY <1>2 DEF Accept
  <2>3. waitingQ' \in [Strands -> Seq(Ops)] /\ fresh' \subseteq Ops
    <3>1. fresh' = fresh \ {o}
      BY <1>2 DEF Accept
    <3>2. waitingQ[s] \in Seq(Ops) /\ Append(waitingQ[s], o) \in Seq(Ops)
      BY DEF DataTypes
    <3>3. waitingQ' \in [Strands -> Seq(Ops)]
      <4>1. waitingQ \in [Strands -> Seq(Ops)]
        BY DEF DataTypes
      <4> QED BY <2>0, <3>2, <4>1
    <3> QED BY <3>1, <3>3 DEF DataTypes
  <2>4. InUserCode(t) /\ UNCHANGED <<readyQ, inner, stack, done>>
    BY <1>2 DEF Accept
  <2>5. DataTypes'
    BY <2>2, <2>3, <2>4 DEF DataTypes
  <2>6. \A i \in 1 .. Len(stack[t]) : UserFrame(stack[t][i])
    BY <2>4, AllUserFrames
  <2>7. StackShape'
    BY <2>2, <2>4, <2>6 DEF StackShape, DataTypes, UserFrame, InvokerFrame
  <2> QED BY <2>5, <2>7
<1>3. ASSUME NEW t \in Threads, PushReady(t)
      PROVE  DataTypes' /\ StackShape'
  <2>1. call[t] \in CallRecords /\ call[t] # NoCall
    BY <1>3 DEF PushReady, DataTypes
  <2>2. [call[t] EXCEPT !.at = "submit"] \in CallRecords /\ call[t].strand \in Strands /\ call[t].op \in Ops
    BY <2>1 DEF CallRecords
  <2>3. call' = [call EXCEPT ![t] = [call[t] EXCEPT !.at = "submit"]]
        /\ readyQ' = [readyQ EXCEPT ![call[t].strand] = Append(@, call[t].op)]
        /\ UNCHANGED <<waitingQ, inner, stack, fresh, done>>
    BY <1>3 DEF PushReady
  <2>4. readyQ' \in [Strands -> Seq(Ops)]
    BY <2>2, <2>3 DEF DataTypes
  <2>5. call' \in [Threads -> CallRecords \cup {NoCall}]
    BY <2>2, <2>3 DEF DataTypes
  <2>6. DataTypes'
    BY <2>3, <2>4, <2>5 DEF DataTypes
  <2>7. \A u \in Threads : call[u] = NoCall => call'[u] = NoCall
    BY <2>1, <2>3 DEF DataTypes
  <2>8. StackShape'
    BY <2>3, <2>7 DEF StackShape, UserFrame, InvokerFrame
  <2> QED BY <2>6, <2>8
<1>4. ASSUME NEW t \in Threads, Submit(t)
      PROVE  DataTypes' /\ StackShape'
  <2>1. call[t] \in CallRecords /\ call[t] # NoCall /\ call[t].strand \in Strands
    BY <1>4 DEF Submit, DataTypes, CallRecords
  <2> DEFINE f == Invoker(call[t].strand)
  <2>2. f \in Frames /\ InvokerFrame(f)
    BY <2>1 DEF Invoker, Frames, InvokerFrame
  <2> HIDE DEF f
  <2>3. /\ call' \in [Threads -> CallRecords \cup {NoCall}]
        /\ call'[t] = NoCall /\ \A u \in Threads : u # t => call'[u] = call[u]
        /\ UNCHANGED <<waitingQ, readyQ, fresh, done>>
    BY <1>4 DEF Submit, DataTypes
  <2>4. \A u \in Threads : call[u] = NoCall => call'[u] = NoCall
    BY <2>1, <2>3
  <2>5. CASE inner' = [inner EXCEPT ![call[t].strand] = @ + 1] /\ UNCHANGED stack
    <3>1. inner' \in [Strands -> Nat]
      BY <2>1, <2>5 DEF DataTypes
    <3>2. DataTypes'
      BY <2>3, <2>5, <3>1 DEF DataTypes
    <3>3. StackShape'
      BY <2>4, <2>5 DEF StackShape, UserFrame, InvokerFrame
    <3> QED BY <3>2, <3>3
  <2>6. CASE stack' = Pushed(t, f) /\ UNCHANGED inner
    <3>1. Pushes(t, f)
      BY <2>2, <2>6, PushedShape
    <3>2. DataTypes'
      BY <2>3, <2>6, <3>1 DEF DataTypes, Pushes
    <3>3. StackShape'
      BY <2>1, <2>2, <2>3, <3>1, AllUserFrames, PushKeepsShape
    <3> QED BY <3>2, <3>3
  <2> QED BY <1>4, <2>5, <2>6 DEF Submit, f
<1>5. ASSUME NEW t \in Threads, NEW s \in Strands, Start(t, s)
      PROVE  DataTypes' /\ StackShape'
  <2>1. Invoker(s) \in Frames /\ InvokerFrame(Invoker(s))
    BY DEF Invoker, Frames, InvokerFrame
  <2>2. inner' \in [Strands -> Nat]
    BY <1>5 DEF Start, DataTypes
  <2>3. stack' = Pushed(t, Invoker(s)) /\ stack[t] = << >> /\ call[t] = NoCall
        /\ UNCHANGED <<waitingQ, readyQ, call, fresh, done>>
    BY <1>5 DEF Start
  <2>4. Pushes(t, Invoker(s))
    BY <2>1, <2>3, PushedShape
  <2>5. DataTypes'
    BY <2>2, <2>3, <2>4 DEF DataTypes, Pushes
  <2>6. InUserCode(t)
    BY <2>3 DEF InUserCode
  <2>7. StackShape'
    BY <2>1, <2>3, <2>4, <2>6, AllUserFrames, PushKeepsShape
  <2> QED BY <2>5, <2>7
<1>6. ASSUME NEW t \in Threads, RunNext(t)
      PROVE  DataTypes' /\ StackShape'
  <2> DEFINE s == Top(t).strand
             f == [Top(t) EXCEPT !.op = Head(readyQ[s])]
  <2>1. stack[t] # << >> /\ call[t] = NoCall /\ Top(t).at = "loop" /\ readyQ[s] # << >>
    BY <1>6 DEF RunNext, InvokerAt
  <2>2. Top(t) \in Frames /\ s \in Strands
    BY <2>1, UnderShape DEF Frames
  <2>3. Head(readyQ[s]) \in Ops /\ Tail(readyQ[s]) \in Seq(Ops)
    BY <2>1, <2>2 DEF DataTypes
  <2>4. f \in Frames /\ UserFrame(f)
    BY <2>1, <2>2, <2>3 DEF Frames, UserFrame
  <2>5. stack' = WithTop(t, f) /\ readyQ' = [readyQ EXCEPT ![s] = Tail(@)]
        /\ UNCHANGED <<waitingQ, inner, call, fresh, done>>
    BY <1>6 DEF RunNext
  <2>6. readyQ' \in [Strands -> Seq(Ops)]
    BY <2>2, <2>3, <2>5 DEF DataTypes
  <2> HIDE DEF f, s
  <2>7. Replaces(t, f)
    BY <2>1, <2>4, <2>5, WithTopShape
  <2>8. DataTypes'
    BY <2>5, <2>6, <2>7 DEF DataTypes, Replaces
  <2>9. StackShape'
    BY <2>1, <2>4, <2>5, <2>7, ReplaceKeepsShape
  <2> QED BY <2>8, <2>9
<1>7. ASSUME NEW t \in Threads, NEW place \in {"loop", "exit"}, FunctionOver(t, place)
      PROVE  DataTypes' /\ StackShape'
  <2> DEFINE f == FrameAfter(t, place)
  <2>1. stack[t] # << >> /\ call[t] = NoCall /\ Top(t).op # NoOp
    BY <1>7 DEF FunctionOver, InUserCode
  <2>2. Top(t) \in Frames /\ Top(t).op \in Ops
    BY <2>1, UnderShape DEF Frames
  <2>3. done' \subseteq Ops /\ UNCHANGED <<waitingQ, readyQ, inner, call, fresh>>
    BY <1>7, <2>2 DEF FunctionOver, DataTypes
  <2>4. f \in Frames /\ InvokerFrame(f)
    BY <1>7, <2>2 DEF FrameAfter, Frames, InvokerFrame
  <2>5. stack' = Popped(t) \/ stack' = WithTop(t, f)
    BY <1>7 DEF FunctionOver
  <2> HIDE DEF f
  <2>6. CASE stack' = Popped(t)
    <3>1. Pops(t)
      BY <2>1, <2>6, PoppedShape
    <3>2. DataTypes'
      BY <2>3, <3>1 DEF DataTypes, Pops
    <3>3. StackShape'
      BY <2>3, <3>1, PopKeepsShape
    <3> QED BY <3>2, <3>3
  <2>7. CASE stack' = WithTop(t, f)
    <3>1. Replaces(t, f)
      BY <2>1, <2>4, <2>7, WithTopShape
    <3>2. DataTypes'
      BY <2>3, <3>1 DEF DataTypes, Replaces
    <3>3. StackShape'
      BY <2>1, <2>3, <2>4, <3>1, ReplaceKeepsShape
    <3> QED BY <3>2, <3>3
  <2> QED BY <2>5, <2>6, <2>7
<1>8. ASSUME NEW t \in Threads, OnExit(t)
      PROVE  DataTypes' /\ StackShape'
  <2> DEFINE s == Top(t).strand
             f == [Top(t) EXCEPT !.at = "defer"]
  <2>1. stack[t] # << >> /\ call[t] = NoCall /\ Top(t).op = NoOp
    BY <1>8 DEF OnExit, InvokerAt
  <2>2. Top(t) \in Frames /\ s \in Strands
    BY <2>1, UnderShape DEF Frames
  <2>3. f \in Frames /\ InvokerFrame(f)
    BY <2>1, <2>2 DEF Frames, InvokerFrame
  <2>4. /\ readyQ' = [readyQ EXCEPT ![s] = Spliced(s)]
        /\ waitingQ' = [waitingQ EXCEPT ![s] = << >>]
        /\ UNCHANGED <<inner, call, fresh, done>>
        /\ stack' = Popped(t) \/ stack' = WithTop(t, f)
    BY <1>8 DEF OnExit
  <2>5. Spliced(s) \in Seq(Ops)
    BY <2>2 DEF Spliced, DataTypes
  <2>6. readyQ' \in [Strands -> Seq(Ops)] /\ waitingQ' \in [Strands -> Seq(Ops)]
    BY <2>2, <2>4, <2>5 DEF DataTypes
  <2> HIDE DEF f, s
  <2>7. CASE stack' = Popped(t)
    <3>1. Pops(t)
      BY <2>1, <2>7, PoppedShape
    <3>2. DataTypes'
      BY <2>4, <2>6, <3>1 DEF DataTypes, Pops
    <3>3. StackShape'
      BY <2>4, <3>1, PopKeepsShape
    <3> QED BY <3>2, <3>3
  <2>8. CASE stack' = WithTop(t, f)
    <3>1. Replaces(t, f)
      BY <2>1, <2>3, <2>8, WithTopShape
    <3>2. DataTypes'
      BY <2>4, <2>6, <3>1 DEF DataTypes, Replaces
    <3>3. StackShape'
      BY <2>1, <2>3, <2>4, <3>1, ReplaceKeepsShape
    <3> QED BY <3>2, <3>3
  <2> QED BY <2>4, <2>7, <2>8
<1>9. ASSUME NEW t \in Threads, Redefer(t)
      PROVE  DataTypes' /\ StackShape'
  <2>1. stack[t] # << >> /\ stack' = Popped(t)
        /\ inner' = [inner EXCEPT ![Top(t).strand] = @ + 1]
        /\ UNCHANGED <<waitingQ, readyQ, call, fresh, done>>
    BY <1>9 DEF Redefer, InvokerAt
  <2>2. Top(t).strand \in Strands
    BY <2>1, UnderShape DEF Frames
  <2>3. inner' \in [Strands -> Nat]
    BY <2>1, <2>2 DEF DataTypes
  <2>4. Pops(t)
    BY <2>1, PoppedShape
  <2>5. DataTypes'
    BY <2>1, <2>3, <2>4 DEF DataTypes, Pops
  <2>6. StackShape'
    BY <2>1, <2>4, PopKeepsShape
  <2> QED BY <2>5, <2>6
<1>10. CASE UNCHANGED vars
  BY <1>10 DEF vars, DataTypes, StackShape, UserFrame, InvokerFrame
<1> QED
  BY <1>1, <1>2, <1>3, <1>4, <1>5, <1>6, <1>7, <1>8, <1>9, <1>10
     DEF Next, Step, Return, Throw

\* The types, and the shape of the stacks, hold in every state (all of
\* bits/strand.h).
THEOREM TypeCorrect == Spec => []TypeOK
<1>1. Init => TypeOK
  BY DEF Init, TypeOK, FlagTypes, DataTypes, StackShape
<1>2. TypeOK /\ [Next]_vars => TypeOK'
  BY FlagStep, DataStep DEF TypeOK
<1> QED
  BY <1>1, <1>2, PTL DEF Spec

----------------------------------------------------------------------------
(* One invoker at a time.                                                  *)

\* The three forms of the right to run functions of s: thread t is about to
\* submit an invoker, one is queued (inner[s]), thread t has one on its stack.
Submitting(t, s) == call[t] # NoCall /\ call[t].strand = s

Holds(t, s) == \E i \in DOMAIN stack[t] :
                 stack[t][i].strand = s /\ stack[t][i].at # "inline"

\* There is at most one such right, and none while the flag is clear.
OneRight(s) ==
  /\ inner[s] \in {0, 1}
  /\ inner[s] = 1 => \A t \in Threads : ~Submitting(t, s) /\ ~Holds(t, s)
  /\ \A t, u \in Threads : Submitting(t, s) => ~Holds(u, s)
  /\ \A t, u \in Threads : Submitting(t, s) /\ Submitting(u, s) => t = u
  /\ \A t, u \in Threads : Holds(t, s) /\ Holds(u, s) => t = u

ClearMeansNone(s) ==
  ~ready[s] => inner[s] = 0 /\ \A t \in Threads : ~Submitting(t, s) /\ ~Holds(t, s)

\* A stack has one invoker of a strand at most, and a function called inside
\* a strand lies above an invoker of it.
Ordered(t) ==
  /\ \A i \in DOMAIN stack[t] : stack[t][i].at = "inline" =>
       \E j \in 1 .. i - 1 : stack[t][j].strand = stack[t][i].strand /\ stack[t][j].at # "inline"
  /\ \A i, j \in DOMAIN stack[t] :
       /\ stack[t][i].strand = stack[t][j].strand
       /\ stack[t][i].at # "inline" /\ stack[t][j].at # "inline"
       => i = j

StackOrder == \A t \in Threads : Ordered(t)

Rights == \A s \in Strands : OneRight(s) /\ ClearMeansNone(s)

RightsInv == Rights /\ StackOrder

----------------------------------------------------------------------------
(* Who holds what after each change of a stack.                            *)

LEMMA PushHolds ==
  ASSUME DataTypes, NEW t \in Threads, NEW f \in Frames, Pushes(t, f),
         NEW u \in Threads, NEW s \in Strands
  PROVE  Holds(u, s)' <=> Holds(u, s) \/ (u = t /\ f.strand = s /\ f.at # "inline")
<1>1. CASE u # t
  BY <1>1 DEF Pushes, Holds
<1>2. CASE u = t
  <2>1. DOMAIN stack'[t] = 1 .. Len(stack[t]) + 1 /\ DOMAIN stack[t] = 1 .. Len(stack[t])
        /\ Len(stack[t]) \in Nat
    BY DEF Pushes, DataTypes
  <2>2. ASSUME Holds(t, s)
        PROVE  Holds(t, s)'
    BY <2>1, <2>2 DEF Pushes, Holds
  <2>3. ASSUME f.strand = s, f.at # "inline"
        PROVE  Holds(t, s)'
    BY <2>1, <2>3 DEF Pushes, Holds
  <2>4. ASSUME Holds(t, s)'
        PROVE  Holds(t, s) \/ (f.strand = s /\ f.at # "inline")
    <3>1. PICK i \in 1 .. Len(stack[t]) + 1 : stack'[t][i].strand = s /\ stack'[t][i].at # "inline"
      BY <2>1, <2>4 DEF Holds
    <3>2. CASE i = Len(stack[t]) + 1
      BY <3>1, <3>2 DEF Pushes
    <3>3. CASE i # Len(stack[t]) + 1
      <4>1. i \in DOMAIN stack[t] /\ stack'[t][i] = stack[t][i]
        BY <2>1, <3>3 DEF Pushes
      <4> QED BY <3>1, <4>1 DEF Holds
    <3> QED BY <3>2, <3>3
  <2> QED BY <1>2, <2>2, <2>3, <2>4
<1> QED BY <1>1, <1>2

LEMMA ReplaceHolds ==
  ASSUME DataTypes, NEW t \in Threads, NEW f \in Frames, Replaces(t, f),
         f.strand = Top(t).strand, f.at # "inline", Top(t).at # "inline",
         NEW u \in Threads, NEW s \in Strands
  PROVE  Holds(u, s)' <=> Holds(u, s)
<1>1. CASE u # t
  BY <1>1 DEF Replaces, Holds
<1>2. CASE u = t
  <2>1. DOMAIN stack'[t] = DOMAIN stack[t] /\ DOMAIN stack[t] = 1 .. Len(stack[t])
        /\ Len(stack[t]) \in Nat
    BY DEF Replaces, DataTypes
  <2>2. \A i \in DOMAIN stack[t] :
          stack'[t][i].strand = stack[t][i].strand /\ (stack'[t][i].at # "inline" <=> stack[t][i].at # "inline")
    BY <2>1 DEF Replaces, Top
  <2> QED BY <1>2, <2>1, <2>2 DEF Holds
<1> QED BY <1>1, <1>2

\* Leaving an invoker gives up its right; leaving a function does not.
LEMMA PopHolds ==
  ASSUME DataTypes, StackOrder, NEW t \in Threads, Pops(t),
         NEW u \in Threads, NEW s \in Strands
  PROVE  Holds(u, s)' <=> Holds(u, s) /\ ~(u = t /\ Top(t).strand = s /\ Top(t).at # "inline")
<1>1. CASE u # t
  BY <1>1 DEF Pops, Holds
<1>2. CASE u = t
  <2>1. DOMAIN stack'[t] = 1 .. Len(stack[t]) - 1 /\ DOMAIN stack[t] = 1 .. Len(stack[t])
        /\ Len(stack[t]) \in Nat /\ Len(stack[t]) > 0
    BY DEF Pops, DataTypes
  <2>2. ASSUME Holds(t, s)'
        PROVE  Holds(t, s) /\ ~(Top(t).strand = s /\ Top(t).at # "inline")
    <3>1. PICK i \in 1 .. Len(stack[t]) - 1 : stack[t][i].strand = s /\ stack[t][i].at # "inline"
      BY <2>1, <2>2 DEF Holds, Pops
    <3>2. i \in DOMAIN stack[t] /\ Len(stack[t]) \in DOMAIN stack[t] /\ i # Len(stack[t])
      BY <2>1
    <3> QED BY <3>1, <3>2 DEF Holds, StackOrder, Ordered, Top
  <2>3. ASSUME Holds(t, s), ~(Top(t).strand = s /\ Top(t).at # "inline")
        PROVE  Holds(t, s)'
    <3>1. PICK i \in DOMAIN stack[t] : stack[t][i].strand = s /\ stack[t][i].at # "inline"
      BY <2>3 DEF Holds
    <3>2. i \in 1 .. Len(stack[t]) - 1
      BY <2>1, <2>3, <3>1 DEF Top
    <3> QED BY <2>1, <3>1, <3>2 DEF Holds, Pops
  <2> QED BY <1>2, <2>2, <2>3
<1> QED BY <1>1, <1>2

----------------------------------------------------------------------------
(* The order of the stacks after each change.                              *)

LEMMA PushOrder ==
  ASSUME DataTypes, StackOrder, NEW t \in Threads, NEW f \in Frames, Pushes(t, f),
         f.at = "inline" <=> Holds(t, f.strand)
  PROVE  StackOrder'
<1>1. DOMAIN stack'[t] = 1 .. Len(stack[t]) + 1 /\ DOMAIN stack[t] = 1 .. Len(stack[t])
      /\ Len(stack[t]) \in Nat
  BY DEF Pushes, DataTypes
<1> DEFINE n == Len(stack[t]) + 1
<1>2. ASSUME NEW i \in 1 .. n, stack'[t][i].at = "inline"
      PROVE  \E j \in 1 .. i - 1 : stack'[t][j].strand = stack'[t][i].strand /\ stack'[t][j].at # "inline"
  <2>1. CASE i = n
    <3>1. PICK j \in DOMAIN stack[t] : stack[t][j].strand = f.strand /\ stack[t][j].at # "inline"
      BY <1>2, <2>1 DEF Pushes, Holds
    <3> QED BY <1>1, <2>1, <3>1 DEF Pushes
  <2>2. CASE i # n
    <3>1. i \in DOMAIN stack[t] /\ stack'[t][i] = stack[t][i]
      BY <1>1, <2>2 DEF Pushes
    <3>2. PICK j \in 1 .. i - 1 : stack[t][j].strand = stack[t][i].strand /\ stack[t][j].at # "inline"
      BY <1>2, <3>1 DEF StackOrder, Ordered
    <3> QED BY <1>1, <3>1, <3>2 DEF Pushes
  <2> QED BY <2>1, <2>2
<1>3. ASSUME NEW i \in 1 .. n, NEW j \in 1 .. n, stack'[t][i].at # "inline", stack'[t][j].at # "inline",
             stack'[t][i].strand = stack'[t][j].strand
      PROVE  i = j
  <2>1. stack'[t][n] = f /\ \A k \in 1 .. n : k # n => k \in DOMAIN stack[t] /\ stack'[t][k] = stack[t][k]
    BY <1>1 DEF Pushes
  <2>2. CASE i = n /\ j # n
    BY <1>3, <2>1, <2>2 DEF Holds
  <2>3. CASE i # n /\ j = n
    BY <1>3, <2>1, <2>3 DEF Holds
  <2>4. CASE i # n /\ j # n
    <3>1. i \in DOMAIN stack[t] /\ j \in DOMAIN stack[t] /\ stack'[t][i] = stack[t][i] /\ stack'[t][j] = stack[t][j]
      BY <2>1, <2>4
    <3> QED BY <1>3, <3>1 DEF StackOrder, Ordered
  <2> QED BY <2>2, <2>3, <2>4
<1>4. Ordered(t)'
  BY <1>1, <1>2, <1>3 DEF Ordered
<1>5. ASSUME NEW u \in Threads, u # t
      PROVE  Ordered(u)'
  <2>1. stack'[u] = stack[u] /\ Ordered(u)
    BY <1>5 DEF Pushes, StackOrder
  <2> QED BY <2>1 DEF Ordered
<1> QED BY <1>4, <1>5 DEF StackOrder

LEMMA ReplaceOrder ==
  ASSUME DataTypes, StackOrder, NEW t \in Threads, NEW f \in Frames, Replaces(t, f),
         f.strand = Top(t).strand, f.at # "inline", Top(t).at # "inline"
  PROVE  StackOrder'
<1>1. DOMAIN stack'[t] = DOMAIN stack[t] /\ DOMAIN stack[t] = 1 .. Len(stack[t])
      /\ Len(stack[t]) \in Nat
  BY DEF Replaces, DataTypes
<1>2. \A i \in DOMAIN stack[t] :
        stack'[t][i].strand = stack[t][i].strand /\ (stack'[t][i].at # "inline" <=> stack[t][i].at # "inline")
  BY <1>1 DEF Replaces, Top
<1>3. \A i \in DOMAIN stack[t] : 1 .. i - 1 \subseteq DOMAIN stack[t]
  BY <1>1
<1>4. ASSUME NEW i \in DOMAIN stack'[t], stack'[t][i].at = "inline"
      PROVE  \E j \in 1 .. i - 1 : stack'[t][j].strand = stack'[t][i].strand /\ stack'[t][j].at # "inline"
  <2>1. PICK j \in 1 .. i - 1 : stack[t][j].strand = stack[t][i].strand /\ stack[t][j].at # "inline"
    BY <1>1, <1>2, <1>4 DEF StackOrder, Ordered
  <2> QED BY <1>1, <1>2, <1>3, <2>1
<1>5. ASSUME NEW i \in DOMAIN stack'[t], NEW j \in DOMAIN stack'[t],
             stack'[t][i].at # "inline", stack'[t][j].at # "inline",
             stack'[t][i].strand = stack'[t][j].strand
      PROVE  i = j
  BY <1>1, <1>2, <1>5 DEF StackOrder, Ordered
<1>6. Ordered(t)'
  BY <1>4, <1>5 DEF Ordered
<1>7. ASSUME NEW u \in Threads, u # t
      PROVE  Ordered(u)'
  <2>1. stack'[u] = stack[u] /\ Ordered(u)
    BY <1>7 DEF Replaces, StackOrder
  <2> QED BY <2>1 DEF Ordered
<1> QED BY <1>6, <1>7 DEF StackOrder

LEMMA PopOrder ==
  ASSUME DataTypes, StackOrder, NEW t \in Threads, Pops(t)
  PROVE  StackOrder'
<1>1. DOMAIN stack'[t] = 1 .. Len(stack[t]) - 1 /\ DOMAIN stack[t] = 1 .. Len(stack[t])
      /\ Len(stack[t]) \in Nat /\ Len(stack[t]) > 0
  BY DEF Pops, DataTypes
<1>2. \A i \in DOMAIN stack'[t] :
        i \in DOMAIN stack[t] /\ stack'[t][i] = stack[t][i] /\ 1 .. i - 1 \subseteq DOMAIN stack'[t]
  BY <1>1 DEF Pops
<1>3. ASSUME NEW i \in DOMAIN stack'[t], stack'[t][i].at = "inline"
      PROVE  \E j \in 1 .. i - 1 : stack'[t][j].strand = stack'[t][i].strand /\ stack'[t][j].at # "inline"
  <2>1. PICK j \in 1 .. i - 1 : stack[t][j].strand = stack[t][i].strand /\ stack[t][j].at # "inline"
    BY <1>2, <1>3 DEF StackOrder, Ordered
  <2> QED BY <1>2, <2>1
<1>4. ASSUME NEW i \in DOMAIN stack'[t], NEW j \in DOMAIN stack'[t],
             stack'[t][i].at # "inline", stack'[t][j].at # "inline",
             stack'[t][i].strand = stack'[t][j].strand
      PROVE  i = j
  BY <1>2, <1>4 DEF StackOrder, Ordered
<1>5. Ordered(t)'
  BY <1>3, <1>4 DEF Ordered
<1>6. ASSUME NEW u \in Threads, u # t
      PROVE  Ordered(u)'
  <2>1. stack'[u] = stack[u] /\ Ordered(u)
    BY <1>6 DEF Pops, StackOrder
  <2> QED BY <2>1 DEF Ordered
<1> QED BY <1>5, <1>6 DEF StackOrder

\* The invoker a thread is in is one it holds.
LEMMA TopHolds ==
  ASSUME DataTypes, NEW t \in Threads, stack[t] # << >>, Top(t).at # "inline"
  PROVE  Top(t).strand \in Strands /\ Holds(t, Top(t).strand)
<1>1. Len(stack[t]) \in DOMAIN stack[t]
  BY UnderShape DEF DataTypes
<1> QED BY <1>1, UnderShape DEF Top, Holds, Frames

\* A function called inside a strand stands on an invoker of it.
LEMMA InsideHolds ==
  ASSUME DataTypes, StackOrder, NEW t \in Threads, NEW s \in Strands, Contains(t, s)
  PROVE  Holds(t, s)
<1>1. PICK i \in DOMAIN stack[t] : stack[t][i].strand = s
  BY DEF Contains
<1>2. CASE stack[t][i].at # "inline"
  BY <1>1, <1>2 DEF Holds
<1>3. CASE stack[t][i].at = "inline"
  <2>1. PICK j \in 1 .. i - 1 : stack[t][j].strand = s /\ stack[t][j].at # "inline"
    BY <1>1, <1>3 DEF StackOrder, Ordered
  <2>2. j \in DOMAIN stack[t]
    BY DEF DataTypes
  <2> QED BY <2>1, <2>2 DEF Holds
<1> QED BY <1>2, <1>3

----------------------------------------------------------------------------
(* The rights after each kind of step.                                     *)

\* Nobody's right changes, and no flag is cleared.
LEMMA RightsKept ==
  ASSUME Rights, UNCHANGED inner,
         \A s \in Strands : ready[s] => ready'[s],
         \A s \in Strands, u \in Threads : Submitting(u, s)' <=> Submitting(u, s),
         \A s \in Strands, u \in Threads : Holds(u, s)' <=> Holds(u, s)
  PROVE  Rights'
<1> SUFFICES ASSUME NEW s \in Strands
             PROVE  OneRight(s)' /\ ClearMeansNone(s)'
  BY DEF Rights
<1>1. OneRight(s)'
  BY DEF Rights, OneRight
<1>2. ClearMeansNone(s)'
  BY DEF Rights, ClearMeansNone
<1> QED BY <1>1, <1>2

\* The right on strand z passes from one form to another, in thread t or to
\* or from the inner executor; z's flag stays set and other strands are as
\* they were.
LEMMA RightPasses ==
  ASSUME Rights, NEW z \in Strands, ready[z], UNCHANGED ready,
         \A s \in Strands : s # z =>
           /\ inner'[s] = inner[s]
           /\ \A u \in Threads : (Submitting(u, s)' <=> Submitting(u, s))
                              /\ (Holds(u, s)' <=> Holds(u, s)),
         OneRight(z)'
  PROVE  Rights'
<1> SUFFICES ASSUME NEW s \in Strands
             PROVE  OneRight(s)' /\ ClearMeansNone(s)'
  BY DEF Rights
<1>1. CASE s = z
  BY <1>1 DEF ClearMeansNone
<1>2. CASE s # z
  <2>1. OneRight(s) /\ ClearMeansNone(s)
    BY DEF Rights
  <2>2. /\ inner'[s] = inner[s]
        /\ \A u \in Threads : (Submitting(u, s)' <=> Submitting(u, s)) /\ (Holds(u, s)' <=> Holds(u, s))
    BY <1>2
  <2>3. OneRight(s)'
    BY <2>1, <2>2 DEF OneRight
  <2>4. ClearMeansNone(s)'
    BY <2>1, <2>2 DEF ClearMeansNone
  <2> QED BY <2>3, <2>4
<1> QED BY <1>1, <1>2

----------------------------------------------------------------------------
(* One lemma per action that the rights are about.                         *)

LEMMA RunInsideRights ==
  ASSUME TypeOK, RightsInv, NEW t \in Threads, NEW s \in Strands, NEW o \in Ops, RunInside(t, s, o)
  PROVE  RightsInv'
<1> DEFINE f == [strand |-> s, at |-> "inline", op |-> o]
<1>1. f \in Frames /\ f.at = "inline" /\ f.strand = s
  BY DEF Frames
<1>2. stack' = Pushed(t, f) /\ Contains(t, s) /\ UNCHANGED <<ready, inner, call>>
  BY DEF RunInside
<1> HIDE DEF f
<1>3. DataTypes /\ StackOrder /\ Rights
  BY DEF TypeOK, RightsInv
<1>4. Pushes(t, f)
  BY <1>1, <1>2, <1>3, PushedShape
<1>5. \A z \in Strands, u \in Threads : Holds(u, z)' <=> Holds(u, z)
  BY <1>1, <1>3, <1>4, PushHolds
<1>6. \A z \in Strands, u \in Threads : Submitting(u, z)' <=> Submitting(u, z)
  BY <1>2 DEF Submitting
<1>7. Rights'
  BY <1>2, <1>3, <1>5, <1>6, RightsKept
<1>8. StackOrder'
  BY <1>1, <1>2, <1>3, <1>4, InsideHolds, PushOrder
<1> QED BY <1>7, <1>8 DEF RightsInv

LEMMA AcceptRights ==
  ASSUME TypeOK, RightsInv, NEW t \in Threads, NEW k \in Kinds, NEW s \in Strands, NEW o \in Ops,
         Accept(t, k, s, o)
  PROVE  RightsInv'
<1> DEFINE c == [at |-> "push", kind |-> k, strand |-> s, op |-> o]
<1>1. UNCHANGED <<inner, stack>> /\ call[t] = NoCall /\ DataTypes /\ Rights /\ StackOrder
  BY DEF Accept, InUserCode, TypeOK, RightsInv
<1>2. StackOrder'
  BY <1>1 DEF StackOrder, Ordered
<1>3. \A z \in Strands, u \in Threads : Holds(u, z)' <=> Holds(u, z)
  BY <1>1 DEF Holds
<1>4. CASE UNCHANGED <<ready, call>>
  <2>1. \A z \in Strands, u \in Threads : Submitting(u, z)' <=> Submitting(u, z)
    BY <1>4 DEF Submitting
  <2>2. Rights'
    BY <1>1, <1>3, <1>4, <2>1, RightsKept
  <2> QED BY <1>2, <2>2 DEF RightsInv
<1>5. CASE ~ready[s] /\ ready' = [ready EXCEPT ![s] = TRUE] /\ call' = [call EXCEPT ![t] = c]
  <2>1. c \in CallRecords /\ c.strand = s /\ c # NoCall
    BY StrandAssumption DEF StrandAssumption, CallRecords, Kinds
  <2> HIDE DEF c
  <2>2. call'[t] = c /\ \A u \in Threads : u # t => call'[u] = call[u]
    BY <1>1, <1>5 DEF DataTypes
  <2>3. \A z \in Strands, u \in Threads :
          Submitting(u, z)' <=> Submitting(u, z) \/ (u = t /\ z = s)
    BY <1>1, <2>1, <2>2 DEF Submitting
  <2>4. inner[s] = 0 /\ \A u \in Threads : ~Submitting(u, s) /\ ~Holds(u, s)
    BY <1>1, <1>5 DEF Rights, ClearMeansNone
  <2>5. OneRight(s)'
    BY <1>1, <1>3, <2>3, <2>4 DEF OneRight
  <2>6. ready'[s] /\ \A z \in Strands : z # s => (ready'[z] <=> ready[z])
    BY <1>5 DEF TypeOK, FlagTypes
  <2>7. ASSUME NEW z \in Strands, z # s
        PROVE  OneRight(z)' /\ ClearMeansNone(z)'
    <3>1. OneRight(z) /\ ClearMeansNone(z)
      BY <1>1 DEF Rights
    <3>2. \A u \in Threads : (Submitting(u, z)' <=> Submitting(u, z)) /\ (Holds(u, z)' <=> Holds(u, z))
      BY <1>3, <2>3, <2>7
    <3>3. OneRight(z)'
      BY <1>1, <3>1, <3>2 DEF OneRight
    <3>4. ClearMeansNone(z)'
      BY <1>1, <2>6, <2>7, <3>1, <3>2 DEF ClearMeansNone
    <3> QED BY <3>3, <3>4
  <2>8. ClearMeansNone(s)'
    BY <2>6 DEF ClearMeansNone
  <2>9. Rights'
    BY <2>5, <2>7, <2>8 DEF Rights
  <2> QED BY <1>2, <2>9 DEF RightsInv
<1> QED BY <1>4, <1>5 DEF Accept, IsReady

LEMMA PushReadyRights ==
  ASSUME TypeOK, RightsInv, NEW t \in Threads, PushReady(t)
  PROVE  RightsInv'
<1>1. UNCHANGED <<inner, stack, ready>> /\ DataTypes /\ Rights /\ StackOrder
  BY DEF PushReady, TypeOK, RightsInv
<1>2. StackOrder'
  BY <1>1 DEF StackOrder, Ordered
<1>3. \A z \in Strands, u \in Threads : Holds(u, z)' <=> Holds(u, z)
  BY <1>1 DEF Holds
<1>4. call[t] \in CallRecords /\ call[t] # NoCall
  BY <1>1 DEF PushReady, DataTypes
<1>5. [call[t] EXCEPT !.at = "submit"] \in CallRecords
      /\ [call[t] EXCEPT !.at = "submit"].strand = call[t].strand
      /\ [call[t] EXCEPT !.at = "submit"] # NoCall
  BY <1>4, StrandAssumption DEF StrandAssumption, CallRecords, Kinds
<1>6. call'[t] = [call[t] EXCEPT !.at = "submit"] /\ \A u \in Threads : u # t => call'[u] = call[u]
  BY <1>1 DEF PushReady, DataTypes
<1>7. \A z \in Strands, u \in Threads : Submitting(u, z)' <=> Submitting(u, z)
  BY <1>4, <1>5, <1>6 DEF Submitting
<1>8. Rights'
  BY <1>1, <1>3, <1>7, RightsKept
<1> QED BY <1>2, <1>8 DEF RightsInv

LEMMA SubmitRights ==
  ASSUME TypeOK, RightsInv, NEW t \in Threads, Submit(t)
  PROVE  RightsInv'
<1>1. UNCHANGED ready /\ DataTypes /\ Rights /\ StackOrder /\ call[t] # NoCall
  BY DEF Submit, TypeOK, RightsInv
<1>0. PICK s \in Strands : s = call[t].strand
  BY <1>1 DEF DataTypes, CallRecords
<1>2. Submitting(t, s)
  BY <1>0, <1>1 DEF Submitting
<1> DEFINE f == Invoker(s)
<1>3. f \in Frames /\ f.at = "loop" /\ f.strand = s
  BY <1>2 DEF Invoker, Frames
<1>4. call'[t] = NoCall /\ \A u \in Threads : u # t => call'[u] = call[u]
  BY <1>1 DEF Submit, DataTypes
<1>5. \A z \in Strands, u \in Threads :
        Submitting(u, z)' <=> Submitting(u, z) /\ ~(u = t /\ z = s)
  BY <1>0, <1>1, <1>4 DEF Submitting
<1>6. OneRight(s) /\ ready[s]
  BY <1>1, <1>2 DEF Rights, ClearMeansNone
<1> HIDE DEF f
<1>7. CASE inner' = [inner EXCEPT ![s] = @ + 1] /\ UNCHANGED stack
  <2>1. \A z \in Strands, u \in Threads : Holds(u, z)' <=> Holds(u, z)
    BY <1>7 DEF Holds
  <2>2. inner'[s] = inner[s] + 1 /\ \A z \in Strands : z # s => inner'[z] = inner[z]
    BY <1>1, <1>2, <1>7 DEF DataTypes
  <2>3. OneRight(s)'
    BY <1>2, <1>5, <1>6, <2>1, <2>2 DEF OneRight
  <2>4. Rights'
    BY <1>1, <1>2, <1>5, <1>6, <2>1, <2>2, <2>3, RightPasses
  <2>5. StackOrder'
    BY <1>1, <1>7 DEF StackOrder, Ordered
  <2> QED BY <2>4, <2>5 DEF RightsInv
<1>8. CASE stack' = Pushed(t, f) /\ UNCHANGED inner
  <2>1. Pushes(t, f)
    BY <1>1, <1>3, <1>8, PushedShape
  <2>2. \A z \in Strands, u \in Threads : Holds(u, z)' <=> Holds(u, z) \/ (u = t /\ z = s)
    BY <1>1, <1>3, <2>1, PushHolds
  <2>3. OneRight(s)'
    BY <1>2, <1>5, <1>6, <1>8, <2>2 DEF OneRight
  <2>4. Rights'
    BY <1>1, <1>2, <1>5, <1>6, <1>8, <2>2, <2>3, RightPasses
  <2>5. ~Holds(t, s)
    BY <1>2, <1>6 DEF OneRight
  <2>6. StackOrder'
    BY <1>1, <1>3, <2>1, <2>5, PushOrder
  <2> QED BY <2>4, <2>6 DEF RightsInv
<1> QED BY <1>0, <1>7, <1>8 DEF Submit, f

LEMMA StartRights ==
  ASSUME TypeOK, RightsInv, NEW t \in Threads, NEW s \in Strands, Start(t, s)
  PROVE  RightsInv'
<1> DEFINE f == Invoker(s)
<1>1. UNCHANGED <<ready, call>> /\ DataTypes /\ Rights /\ StackOrder /\ stack' = Pushed(t, f)
      /\ inner[s] > 0
  BY DEF Start, TypeOK, RightsInv
<1>2. f \in Frames /\ f.at = "loop" /\ f.strand = s
  BY DEF Invoker, Frames
<1>3. \A z \in Strands, u \in Threads : Submitting(u, z)' <=> Submitting(u, z)
  BY <1>1 DEF Submitting
<1>4. inner'[s] = inner[s] - 1 /\ \A z \in Strands : z # s => inner'[z] = inner[z]
  BY DEF Start, TypeOK, DataTypes
<1>5. OneRight(s) /\ ready[s]
  BY <1>1 DEF Rights, ClearMeansNone
<1>6. inner[s] = 1 /\ \A u \in Threads : ~Submitting(u, s) /\ ~Holds(u, s)
  BY <1>1, <1>5 DEF OneRight
<1> HIDE DEF f
<1>7. Pushes(t, f)
  BY <1>1, <1>2, PushedShape
<1>8. \A z \in Strands, u \in Threads : Holds(u, z)' <=> Holds(u, z) \/ (u = t /\ z = s)
  BY <1>1, <1>2, <1>7, PushHolds
<1>9. OneRight(s)'
  BY <1>3, <1>4, <1>6, <1>8 DEF OneRight
<1>10. Rights'
  BY <1>1, <1>3, <1>4, <1>5, <1>8, <1>9, RightPasses
<1>11. StackOrder'
  BY <1>1, <1>2, <1>6, <1>7, PushOrder
<1> QED BY <1>10, <1>11 DEF RightsInv

\* An invoker's frame is replaced by another of the same strand.
LEMMA SameInvokerRights ==
  ASSUME TypeOK, RightsInv, NEW t \in Threads, NEW f \in Frames, stack[t] # << >>,
         stack' = WithTop(t, f), UNCHANGED <<inner, call>>,
         f.strand = Top(t).strand, f.at # "inline", Top(t).at # "inline",
         \A s \in Strands : ready[s] => ready'[s]
  PROVE  RightsInv'
<1>1. DataTypes /\ Rights /\ StackOrder
  BY DEF TypeOK, RightsInv
<1>2. Replaces(t, f)
  BY <1>1, WithTopShape
<1>3. \A z \in Strands, u \in Threads : Holds(u, z)' <=> Holds(u, z)
  BY <1>1, <1>2, ReplaceHolds
<1>4. \A z \in Strands, u \in Threads : Submitting(u, z)' <=> Submitting(u, z)
  BY DEF Submitting
<1>5. Rights'
  BY <1>1, <1>3, <1>4, RightsKept
<1>6. StackOrder'
  BY <1>1, <1>2, ReplaceOrder
<1> QED BY <1>5, <1>6 DEF RightsInv

LEMMA RunNextRights ==
  ASSUME TypeOK, RightsInv, NEW t \in Threads, RunNext(t)
  PROVE  RightsInv'
<1> DEFINE f == [Top(t) EXCEPT !.op = Head(readyQ[Top(t).strand])]
<1>1. DataTypes /\ stack[t] # << >> /\ Top(t).at = "loop" /\ readyQ[Top(t).strand] # << >>
      /\ stack' = WithTop(t, f) /\ UNCHANGED <<ready, inner, call>>
  BY DEF RunNext, InvokerAt, TypeOK
<1>2. Top(t) \in Frames /\ Top(t).strand \in Strands
  BY <1>1, UnderShape DEF Frames
<1>3. Head(readyQ[Top(t).strand]) \in Ops
  BY <1>1, <1>2 DEF DataTypes
<1>4. f \in Frames /\ f.strand = Top(t).strand /\ f.at = "loop"
  BY <1>1, <1>2, <1>3 DEF Frames
<1> HIDE DEF f
<1> QED BY <1>1, <1>4, SameInvokerRights

LEMMA FunctionOverRights ==
  ASSUME TypeOK, RightsInv, NEW t \in Threads, NEW place \in {"loop", "exit"},
         FunctionOver(t, place)
  PROVE  RightsInv'
<1> DEFINE f == FrameAfter(t, place)
<1>1. DataTypes /\ Rights /\ StackOrder /\ stack[t] # << >> /\ UNCHANGED <<ready, inner, call>>
  BY DEF FunctionOver, TypeOK, RightsInv
<1>2. Top(t) \in Frames
  BY <1>1, UnderShape
<1>3. f \in Frames /\ f.strand = Top(t).strand /\ f.at = place
  BY <1>2 DEF FrameAfter, Frames
<1>4. CASE Top(t).at = "inline" /\ stack' = Popped(t)
  <2>1. Pops(t)
    BY <1>1, <1>4, PoppedShape
  <2>2. \A z \in Strands, u \in Threads : Holds(u, z)' <=> Holds(u, z)
    BY <1>1, <1>4, <2>1, PopHolds
  <2>3. \A z \in Strands, u \in Threads : Submitting(u, z)' <=> Submitting(u, z)
    BY <1>1 DEF Submitting
  <2>4. Rights'
    BY <1>1, <2>2, <2>3, RightsKept
  <2>5. StackOrder'
    BY <1>1, <2>1, PopOrder
  <2> QED BY <2>4, <2>5 DEF RightsInv
<1>5. CASE Top(t).at # "inline" /\ stack' = WithTop(t, f)
  <2> HIDE DEF f
  <2>1. f.at # "inline"
    BY <1>3
  <2> QED BY <1>1, <1>3, <1>5, <2>1, SameInvokerRights
<1> QED BY <1>4, <1>5 DEF FunctionOver

LEMMA OnExitRights ==
  ASSUME TypeOK, RightsInv, NEW t \in Threads, OnExit(t)
  PROVE  RightsInv'
<1> DEFINE f == [Top(t) EXCEPT !.at = "defer"]
<1>1. DataTypes /\ Rights /\ StackOrder /\ stack[t] # << >> /\ UNCHANGED <<inner, call>>
      /\ Top(t).at # "inline"
  BY DEF OnExit, InvokerAt, TypeOK, RightsInv
<1>2. PICK s \in Strands : s = Top(t).strand
  BY <1>1, TopHolds
<1>3. Holds(t, s)
  BY <1>1, <1>2, TopHolds
<1>4. ready'[s] = More(s) /\ \A z \in Strands : z # s => (ready'[z] <=> ready[z])
  BY <1>2 DEF OnExit, TypeOK, FlagTypes
<1>5. CASE More(s) /\ stack' = WithTop(t, f)
  <2>1. Top(t) \in Frames
    BY <1>1, UnderShape
  <2>2. f \in Frames /\ f.strand = Top(t).strand /\ f.at = "defer"
    BY <2>1 DEF Frames
  <2>3. \A z \in Strands : ready[z] => ready'[z]
    BY <1>4, <1>5
  <2> HIDE DEF f
  <2>4. f.at # "inline"
    BY <2>2
  <2> QED BY <1>1, <1>5, <2>2, <2>3, <2>4, SameInvokerRights
<1>6. CASE ~More(s) /\ stack' = Popped(t)
  <2>1. Pops(t)
    BY <1>1, <1>6, PoppedShape
  <2>2. \A z \in Strands, u \in Threads : Holds(u, z)' <=> Holds(u, z) /\ ~(u = t /\ z = s)
    BY <1>1, <1>2, <2>1, PopHolds
  <2>3. \A z \in Strands, u \in Threads : Submitting(u, z)' <=> Submitting(u, z)
    BY <1>1 DEF Submitting
  <2>4. OneRight(s)
    BY <1>1 DEF Rights
  <2>5. inner'[s] = 0 /\ \A u \in Threads : ~Submitting(u, s)' /\ ~Holds(u, s)'
    BY <1>1, <1>3, <2>2, <2>3, <2>4 DEF OneRight
  <2>6. OneRight(s)'
    BY <2>5 DEF OneRight
  <2>7. ClearMeansNone(s)'
    BY <2>5 DEF ClearMeansNone
  <2>8. ASSUME NEW z \in Strands, z # s
        PROVE  OneRight(z)' /\ ClearMeansNone(z)'
    <3>1. OneRight(z) /\ ClearMeansNone(z)
      BY <1>1 DEF Rights
    <3>2. \A u \in Threads : (Submitting(u, z)' <=> Submitting(u, z)) /\ (Holds(u, z)' <=> Holds(u, z))
      BY <2>2, <2>3, <2>8
    <3>3. OneRight(z)'
      BY <1>1, <3>1, <3>2 DEF OneRight
    <3>4. ready'[z] <=> ready[z]
      BY <1>4, <2>8
    <3>5. ClearMeansNone(z)'
      BY <1>1, <3>1, <3>2, <3>4 DEF ClearMeansNone
    <3> QED BY <3>3, <3>5
  <2>9. Rights'
    BY <2>6, <2>7, <2>8 DEF Rights
  <2>10. StackOrder'
    BY <1>1, <2>1, PopOrder
  <2> QED BY <2>9, <2>10 DEF RightsInv
<1> QED BY <1>2, <1>5, <1>6 DEF OnExit

LEMMA RedeferRights ==
  ASSUME TypeOK, RightsInv, NEW t \in Threads, Redefer(t)
  PROVE  RightsInv'
<1>1. DataTypes /\ Rights /\ StackOrder /\ stack[t] # << >> /\ UNCHANGED <<ready, call>>
      /\ Top(t).at # "inline" /\ stack' = Popped(t)
  BY DEF Redefer, InvokerAt, TypeOK, RightsInv
<1>2. PICK s \in Strands : s = Top(t).strand
  BY <1>1, TopHolds
<1>3. Holds(t, s)
  BY <1>1, <1>2, TopHolds
<1>4. OneRight(s) /\ ready[s]
  BY <1>1, <1>3 DEF Rights, ClearMeansNone
<1>5. inner'[s] = inner[s] + 1 /\ \A z \in Strands : z # s => inner'[z] = inner[z]
  BY <1>1, <1>2 DEF Redefer, DataTypes
<1>6. Pops(t)
  BY <1>1, PoppedShape
<1>7. \A z \in Strands, u \in Threads : Holds(u, z)' <=> Holds(u, z) /\ ~(u = t /\ z = s)
  BY <1>1, <1>2, <1>6, PopHolds
<1>8. \A z \in Strands, u \in Threads : Submitting(u, z)' <=> Submitting(u, z)
  BY <1>1 DEF Submitting
<1>9. OneRight(s)'
  BY <1>3, <1>4, <1>5, <1>7, <1>8 DEF OneRight
<1>10. Rights'
  BY <1>1, <1>4, <1>5, <1>7, <1>8, <1>9, RightPasses
<1>11. StackOrder'
  BY <1>1, <1>6, PopOrder
<1> QED BY <1>10, <1>11 DEF RightsInv

----------------------------------------------------------------------------
LEMMA RightsInit == Init => RightsInv
<1> SUFFICES ASSUME Init
             PROVE  RightsInv
  OBVIOUS
<1>1. \A s \in Strands, t \in Threads : ~Submitting(t, s) /\ ~Holds(t, s)
  BY DEF Init, Submitting, Holds
<1>2. \A s \in Strands : inner[s] = 0
  BY DEF Init
<1>3. Rights
  BY <1>1, <1>2 DEF Rights, OneRight, ClearMeansNone
<1>4. StackOrder
  BY DEF Init, StackOrder, Ordered
<1> QED BY <1>3, <1>4 DEF RightsInv

LEMMA RightsStep == TypeOK /\ RightsInv /\ [Next]_vars => RightsInv'
<1> SUFFICES ASSUME TypeOK, RightsInv, [Next]_vars
             PROVE  RightsInv'
  OBVIOUS
<1>1. CASE UNCHANGED vars
  <2>1. \A z \in Strands, u \in Threads : Holds(u, z)' <=> Holds(u, z)
    BY <1>1 DEF Holds, vars
  <2>2. \A z \in Strands, u \in Threads : Submitting(u, z)' <=> Submitting(u, z)
    BY <1>1 DEF Submitting, vars
  <2>3. UNCHANGED <<inner, ready, stack>>
    BY <1>1 DEF vars
  <2>4. Rights'
    BY <2>1, <2>2, <2>3, RightsKept DEF RightsInv
  <2>5. StackOrder'
    BY <2>3 DEF RightsInv, StackOrder, Ordered
  <2> QED BY <2>4, <2>5 DEF RightsInv
<1> QED
  BY <1>1, RunInsideRights, AcceptRights, PushReadyRights, SubmitRights, StartRights,
     RunNextRights, FunctionOverRights, OnExitRights, RedeferRights
     DEF Next, Step, Return, Throw

\* A thread in a function of a strand holds the right on it.
LEMMA RightsExclude ==
  ASSUME TypeOK, RightsInv
  PROVE  MutualExclusion
<1>1. ASSUME NEW t \in Threads, NEW s \in Strands, InFunctionOf(t, s)
      PROVE  Holds(t, s)
  <2>1. Contains(t, s)
    BY <1>1 DEF InFunctionOf, Contains
  <2> QED BY <2>1, InsideHolds DEF TypeOK, RightsInv
<1>2. \A s \in Strands : \A t, u \in Threads : Holds(t, s) /\ Holds(u, s) => t = u
  BY DEF RightsInv, Rights, OneRight
<1> QED BY <1>1, <1>2 DEF MutualExclusion

\* No two threads are ever in functions of the same strand: the guarantee of
\* bits/strand.h, for any number of threads, strands and functions.
THEOREM FunctionsExcludeEachOther == Spec => []MutualExclusion
<1>1. Init => TypeOK
  BY DEF Init, TypeOK, FlagTypes, DataTypes, StackShape
<1>2. TypeOK /\ [Next]_vars => TypeOK'
  BY FlagStep, DataStep DEF TypeOK
<1> QED
  BY <1>1, <1>2, RightsInit, RightsStep, RightsExclude, PTL DEF Spec

----------------------------------------------------------------------------
(* The flag tells that there is an invoker.                                *)

\* A strand whose flag is set has an invoker, or one is being submitted.
Manned(s) == ready[s] => inner[s] = 1 \/ \E t \in Threads : Submitting(t, s) \/ Holds(t, s)

\* Functions wait only while the flag is set.
QueuedWhenReady(s) == waitingQ[s] # << >> \/ readyQ[s] # << >> => ready[s]

MannedInv == \A s \in Strands : Manned(s) /\ QueuedWhenReady(s)

\* Nobody gives up a right, and no flag is set.
LEMMA MannedKept ==
  ASSUME NEW s \in Strands, Manned(s), ready'[s] => ready[s], inner'[s] = inner[s],
         \A u \in Threads : Submitting(u, s) => Submitting(u, s)',
         \A u \in Threads : Holds(u, s) => Holds(u, s)'
  PROVE  Manned(s)'
  BY DEF Manned

\* What the steps do to the rights on strand z when they concern strand s.
LEMMA RunInsideManned ==
  ASSUME TypeOK, RightsInv, MannedInv, NEW t \in Threads, NEW s \in Strands, NEW o \in Ops, RunInside(t, s, o),
         NEW z \in Strands
  PROVE  Manned(z)'
<1> DEFINE f == [strand |-> s, at |-> "inline", op |-> o]
<1>1. f \in Frames /\ f.at = "inline"
  BY DEF Frames
<1>2. stack' = Pushed(t, f) /\ UNCHANGED <<ready, inner, call>> /\ DataTypes
  BY DEF RunInside, TypeOK
<1> HIDE DEF f
<1>3. Pushes(t, f) BY <1>1, <1>2, PushedShape
<1>4. \A u \in Threads : Holds(u, z) => Holds(u, z)' BY <1>1, <1>2, <1>3, PushHolds
<1>5. \A u \in Threads : Submitting(u, z) => Submitting(u, z)' BY <1>2 DEF Submitting
<1> QED BY <1>2, <1>4, <1>5, MannedKept DEF MannedInv

LEMMA AcceptManned ==
  ASSUME TypeOK, MannedInv, NEW t \in Threads, NEW k \in Kinds, NEW s \in Strands, NEW o \in Ops,
         Accept(t, k, s, o), NEW z \in Strands
  PROVE  Manned(z)'
<1> DEFINE c == [at |-> "push", kind |-> k, strand |-> s, op |-> o]
<1>1. UNCHANGED <<inner, stack>> /\ call[t] = NoCall /\ DataTypes
  BY DEF Accept, InUserCode, TypeOK
<1>2. \A u \in Threads : Holds(u, z) => Holds(u, z)' BY <1>1 DEF Holds
<1>3. CASE UNCHANGED <<ready, call>>
  <2>1. \A u \in Threads : Submitting(u, z) => Submitting(u, z)' BY <1>3 DEF Submitting
  <2> QED BY <1>1, <1>2, <1>3, <2>1, MannedKept DEF MannedInv
<1>4. CASE ready' = [ready EXCEPT ![s] = TRUE] /\ call' = [call EXCEPT ![t] = c]
  <2>1. c.strand = s /\ c # NoCall
    BY StrandAssumption DEF StrandAssumption, CallRecords, Kinds
  <2> HIDE DEF c
  <2>2. call'[t] = c /\ \A u \in Threads : u # t => call'[u] = call[u] BY <1>1, <1>4 DEF DataTypes
  <2>3. \A u \in Threads : Submitting(u, z) => Submitting(u, z)'
    BY <1>1, <2>2 DEF Submitting
  <2>4. CASE z = s
    <3>1. Submitting(t, s)' BY <2>1, <2>2 DEF Submitting
    <3> QED BY <2>4, <3>1 DEF Manned
  <2>5. CASE z # s
    <3>1. ready'[z] <=> ready[z] BY <1>4, <2>5 DEF TypeOK, FlagTypes
    <3> QED BY <1>1, <1>2, <2>3, <3>1, MannedKept DEF MannedInv
  <2> QED BY <2>4, <2>5
<1> QED BY <1>3, <1>4 DEF Accept

LEMMA PushReadyManned ==
  ASSUME TypeOK, MannedInv, NEW t \in Threads, PushReady(t), NEW z \in Strands
  PROVE  Manned(z)'
<1>1. UNCHANGED <<inner, stack, ready>> /\ DataTypes BY DEF PushReady, TypeOK
<1>2. \A u \in Threads : Holds(u, z) => Holds(u, z)' BY <1>1 DEF Holds
<1>3. call[t] \in CallRecords /\ call[t] # NoCall BY <1>1 DEF PushReady, DataTypes
<1>4. [call[t] EXCEPT !.at = "submit"].strand = call[t].strand /\ [call[t] EXCEPT !.at = "submit"] # NoCall
  BY <1>3, StrandAssumption DEF StrandAssumption, CallRecords, Kinds
<1>5. call'[t] = [call[t] EXCEPT !.at = "submit"] /\ \A u \in Threads : u # t => call'[u] = call[u]
  BY <1>1 DEF PushReady, DataTypes
<1>6. \A u \in Threads : Submitting(u, z) => Submitting(u, z)' BY <1>3, <1>4, <1>5 DEF Submitting
<1> QED BY <1>1, <1>2, <1>6, MannedKept DEF MannedInv

LEMMA SubmitManned ==
  ASSUME TypeOK, RightsInv, MannedInv, NEW t \in Threads, Submit(t), NEW z \in Strands
  PROVE  Manned(z)'
<1>1. UNCHANGED ready /\ DataTypes /\ Rights /\ call[t] # NoCall
  BY DEF Submit, TypeOK, RightsInv
<1>2. PICK s \in Strands : s = call[t].strand BY <1>1 DEF DataTypes, CallRecords
<1> DEFINE f == Invoker(s)
<1>3. f \in Frames /\ f.at = "loop" /\ f.strand = s BY DEF Invoker, Frames
<1>4. \A u \in Threads : u # t => call'[u] = call[u] BY <1>1 DEF Submit, DataTypes
<1>5. z # s => \A u \in Threads : Submitting(u, z) => Submitting(u, z)' BY <1>2, <1>4 DEF Submitting
<1>6. inner[s] = 0 BY <1>1, <1>2 DEF Rights, OneRight, Submitting
<1> HIDE DEF f
<1>7. CASE inner' = [inner EXCEPT ![s] = @ + 1] /\ UNCHANGED stack
  <2>1. \A u \in Threads : Holds(u, z) => Holds(u, z)' BY <1>7 DEF Holds
  <2>2. inner'[s] = 1 /\ (z # s => inner'[z] = inner[z]) BY <1>1, <1>6, <1>7 DEF DataTypes
  <2>3. z = s => Manned(z)' BY <2>2 DEF Manned
  <2> QED BY <1>1, <1>5, <2>1, <2>2, <2>3, MannedKept DEF MannedInv
<1>8. CASE stack' = Pushed(t, f) /\ UNCHANGED inner
  <2>1. Pushes(t, f) BY <1>1, <1>3, <1>8, PushedShape
  <2>2. \A u \in Threads : Holds(u, z)' <=> Holds(u, z) \/ (u = t /\ z = s) BY <1>1, <1>3, <2>1, PushHolds
  <2>3. z = s => Manned(z)' BY <2>2 DEF Manned
  <2> QED BY <1>1, <1>5, <1>8, <2>2, <2>3, MannedKept DEF MannedInv
<1> QED BY <1>2, <1>7, <1>8 DEF Submit, f

LEMMA StartManned ==
  ASSUME TypeOK, MannedInv, NEW t \in Threads, NEW s \in Strands, Start(t, s), NEW z \in Strands
  PROVE  Manned(z)'
<1> DEFINE f == Invoker(s)
<1>1. UNCHANGED <<ready, call>> /\ DataTypes /\ stack' = Pushed(t, f) BY DEF Start, TypeOK
<1>2. f \in Frames /\ f.at = "loop" /\ f.strand = s BY DEF Invoker, Frames
<1>3. \A u \in Threads : Submitting(u, z) => Submitting(u, z)' BY <1>1 DEF Submitting
<1>4. z # s => inner'[z] = inner[z] BY DEF Start, TypeOK, DataTypes
<1> HIDE DEF f
<1>5. Pushes(t, f) BY <1>1, <1>2, PushedShape
<1>6. \A u \in Threads : Holds(u, z)' <=> Holds(u, z) \/ (u = t /\ z = s) BY <1>1, <1>2, <1>5, PushHolds
<1>7. z = s => Manned(z)' BY <1>6 DEF Manned
<1> QED BY <1>1, <1>3, <1>4, <1>6, <1>7, MannedKept DEF MannedInv

LEMMA SameInvokerManned ==
  ASSUME TypeOK, MannedInv, NEW t \in Threads, NEW f \in Frames, stack[t] # << >>,
         stack' = WithTop(t, f), UNCHANGED <<inner, call>>,
         f.strand = Top(t).strand, f.at # "inline", Top(t).at # "inline",
         NEW z \in Strands, ready'[z] => ready[z]
  PROVE  Manned(z)'
<1>1. DataTypes BY DEF TypeOK
<1>2. Replaces(t, f) BY <1>1, WithTopShape
<1>3. \A u \in Threads : Holds(u, z)' <=> Holds(u, z) BY <1>1, <1>2, ReplaceHolds
<1>4. \A u \in Threads : Submitting(u, z)' <=> Submitting(u, z) BY DEF Submitting
<1> QED BY <1>3, <1>4, MannedKept DEF MannedInv

LEMMA RunNextManned ==
  ASSUME TypeOK, MannedInv, NEW t \in Threads, RunNext(t), NEW z \in Strands
  PROVE  Manned(z)'
<1> DEFINE f == [Top(t) EXCEPT !.op = Head(readyQ[Top(t).strand])]
<1>1. DataTypes /\ stack[t] # << >> /\ Top(t).at = "loop" /\ readyQ[Top(t).strand] # << >>
      /\ stack' = WithTop(t, f) /\ UNCHANGED <<ready, inner, call>>
  BY DEF RunNext, InvokerAt, TypeOK
<1>2. Top(t) \in Frames /\ Top(t).strand \in Strands BY <1>1, UnderShape DEF Frames
<1>3. Head(readyQ[Top(t).strand]) \in Ops BY <1>1, <1>2 DEF DataTypes
<1>4. f \in Frames /\ f.strand = Top(t).strand /\ f.at = "loop" BY <1>1, <1>2, <1>3 DEF Frames
<1> HIDE DEF f
<1> QED BY <1>1, <1>4, SameInvokerManned

LEMMA FunctionOverManned ==
  ASSUME TypeOK, RightsInv, MannedInv, NEW t \in Threads, NEW place \in {"loop", "exit"},
         FunctionOver(t, place), NEW z \in Strands
  PROVE  Manned(z)'
<1> DEFINE f == FrameAfter(t, place)
<1>1. DataTypes /\ StackOrder /\ stack[t] # << >> /\ UNCHANGED <<ready, inner, call>>
  BY DEF FunctionOver, TypeOK, RightsInv
<1>2. Top(t) \in Frames BY <1>1, UnderShape
<1>3. f \in Frames /\ f.strand = Top(t).strand /\ f.at = place BY <1>2 DEF FrameAfter, Frames
<1>4. CASE Top(t).at = "inline" /\ stack' = Popped(t)
  <2>1. Pops(t) BY <1>1, <1>4, PoppedShape
  <2>2. \A u \in Threads : Holds(u, z)' <=> Holds(u, z) BY <1>1, <1>4, <2>1, PopHolds
  <2>3. \A u \in Threads : Submitting(u, z)' <=> Submitting(u, z) BY <1>1 DEF Submitting
  <2> QED BY <1>1, <2>2, <2>3, MannedKept DEF MannedInv
<1>5. CASE Top(t).at # "inline" /\ stack' = WithTop(t, f)
  <2> HIDE DEF f
  <2>1. f.at # "inline" BY <1>3
  <2> QED BY <1>1, <1>3, <1>5, <2>1, SameInvokerManned
<1> QED BY <1>4, <1>5 DEF FunctionOver

LEMMA OnExitManned ==
  ASSUME TypeOK, RightsInv, MannedInv, NEW t \in Threads, OnExit(t), NEW z \in Strands
  PROVE  Manned(z)'
<1> DEFINE f == [Top(t) EXCEPT !.at = "defer"]
<1>1. DataTypes /\ Rights /\ StackOrder /\ stack[t] # << >> /\ UNCHANGED <<inner, call>>
      /\ Top(t).at # "inline"
  BY DEF OnExit, InvokerAt, TypeOK, RightsInv
<1>2. PICK s \in Strands : s = Top(t).strand BY <1>1, TopHolds
<1>3. Holds(t, s) BY <1>1, <1>2, TopHolds
<1>4. ready'[s] = More(s) /\ (z # s => (ready'[z] <=> ready[z]))
  BY <1>2 DEF OnExit, TypeOK, FlagTypes
<1>5. ready[s] BY <1>1, <1>3 DEF Rights, ClearMeansNone
<1>6. CASE More(s) /\ stack' = WithTop(t, f)
  <2>1. Top(t) \in Frames BY <1>1, UnderShape
  <2>2. f \in Frames /\ f.strand = Top(t).strand /\ f.at = "defer" BY <2>1 DEF Frames
  <2>3. ready'[z] => ready[z] BY <1>4, <1>5
  <2> HIDE DEF f
  <2>4. f.at # "inline" BY <2>2
  <2> QED BY <1>1, <2>2, <2>3, <2>4, <1>6, SameInvokerManned
<1>7. CASE ~More(s) /\ stack' = Popped(t)
  <2>1. Pops(t) BY <1>1, <1>7, PoppedShape
  <2>2. z # s => \A u \in Threads : Holds(u, z)' <=> Holds(u, z) BY <1>1, <1>2, <2>1, PopHolds
  <2>3. \A u \in Threads : Submitting(u, z)' <=> Submitting(u, z) BY <1>1 DEF Submitting
  <2>4. z = s => Manned(z)' BY <1>4, <1>7 DEF Manned
  <2> QED BY <1>1, <1>4, <2>2, <2>3, <2>4, MannedKept DEF MannedInv
<1> QED BY <1>2, <1>6, <1>7 DEF OnExit

LEMMA RedeferManned ==
  ASSUME TypeOK, RightsInv, MannedInv, NEW t \in Threads, Redefer(t), NEW z \in Strands
  PROVE  Manned(z)'
<1>1. DataTypes /\ Rights /\ StackOrder /\ stack[t] # << >> /\ UNCHANGED <<ready, call>>
      /\ Top(t).at # "inline" /\ stack' = Popped(t)
  BY DEF Redefer, InvokerAt, TypeOK, RightsInv
<1>2. PICK s \in Strands : s = Top(t).strand BY <1>1, TopHolds
<1>3. Holds(t, s) BY <1>1, <1>2, TopHolds
<1>4. inner[s] = 0 BY <1>1, <1>3 DEF Rights, OneRight
<1>5. inner'[s] = 1 /\ (z # s => inner'[z] = inner[z]) BY <1>1, <1>2, <1>4 DEF Redefer, DataTypes
<1>6. Pops(t) BY <1>1, PoppedShape
<1>7. z # s => \A u \in Threads : Holds(u, z)' <=> Holds(u, z) BY <1>1, <1>2, <1>6, PopHolds
<1>8. \A u \in Threads : Submitting(u, z)' <=> Submitting(u, z) BY <1>1 DEF Submitting
<1>9. z = s => Manned(z)' BY <1>5 DEF Manned
<1> QED BY <1>1, <1>5, <1>7, <1>8, <1>9, MannedKept DEF MannedInv

\* The queues, against the flag.
LEMMA QueuedStep ==
  ASSUME TypeOK, RightsInv, MannedInv, [Next]_vars, NEW z \in Strands
  PROVE  QueuedWhenReady(z)'
<1>0. DataTypes /\ Rights BY DEF TypeOK, RightsInv
<1>1. ASSUME waitingQ' = waitingQ, readyQ' = readyQ, ready' = ready PROVE QueuedWhenReady(z)'
  BY <1>1 DEF MannedInv, QueuedWhenReady
<1>2. ASSUME NEW t \in Threads, NEW k \in Kinds, NEW s \in Strands, NEW o \in Ops, Accept(t, k, s, o)
      PROVE  QueuedWhenReady(z)'
  <2>1. CASE ready[s] /\ waitingQ' = [waitingQ EXCEPT ![s] = Append(@, o)] /\ UNCHANGED <<ready, readyQ>>
    <3>1. z # s => waitingQ'[z] = waitingQ[z] BY <1>0, <2>1 DEF DataTypes
    <3>2. z = s => ready'[z] BY <2>1
    <3>3. readyQ' = readyQ /\ ready' = ready BY <2>1
    <3> QED BY <3>1, <3>2, <3>3 DEF MannedInv, QueuedWhenReady
  <2>2. CASE ready' = [ready EXCEPT ![s] = TRUE] /\ UNCHANGED <<waitingQ, readyQ>>
    <3>1. ready[z] => ready'[z] BY <2>2 DEF TypeOK, FlagTypes
    <3> QED BY <2>2, <3>1 DEF MannedInv, QueuedWhenReady
  <2> QED BY <1>2, <2>1, <2>2 DEF Accept, IsReady
<1>3. ASSUME NEW t \in Threads, PushReady(t) PROVE QueuedWhenReady(z)'
  <2>1. PICK s \in Strands : s = call[t].strand
    BY <1>0, <1>3 DEF PushReady, DataTypes, CallRecords
  <2>2. ready[s] BY <1>0, <1>3, <2>1 DEF Rights, ClearMeansNone, Submitting, PushReady
  <2>3. ready' = ready /\ waitingQ' = waitingQ /\ (z # s => readyQ'[z] = readyQ[z])
    BY <1>0, <1>3, <2>1 DEF PushReady, DataTypes
  <2> QED BY <2>2, <2>3 DEF MannedInv, QueuedWhenReady
<1>4. ASSUME NEW t \in Threads, RunNext(t) PROVE QueuedWhenReady(z)'
  <2>1. PICK s \in Strands : s = Top(t).strand BY <1>0, <1>4, TopHolds DEF RunNext, InvokerAt
  <2>2. readyQ[s] # << >> /\ readyQ' = [readyQ EXCEPT ![s] = Tail(@)] /\ ready' = ready /\ waitingQ' = waitingQ
    BY <1>4, <2>1 DEF RunNext
  <2>3. ready[s] BY <2>2 DEF MannedInv, QueuedWhenReady
  <2>4. z # s => readyQ'[z] = readyQ[z] BY <1>0, <2>2 DEF DataTypes
  <2> QED BY <2>2, <2>3, <2>4 DEF MannedInv, QueuedWhenReady
<1>5. ASSUME NEW t \in Threads, OnExit(t) PROVE QueuedWhenReady(z)'
  <2>1. PICK s \in Strands : s = Top(t).strand BY <1>0, <1>5, TopHolds DEF OnExit, InvokerAt
  <2>2. /\ readyQ'[s] = Spliced(s) /\ waitingQ'[s] = << >> /\ ready'[s] = More(s)
        /\ z # s => readyQ'[z] = readyQ[z] /\ waitingQ'[z] = waitingQ[z] /\ ready'[z] = ready[z]
    BY <1>0, <1>5, <2>1 DEF OnExit, DataTypes, TypeOK, FlagTypes
  <2>3. readyQ'[s] # << >> => ready'[s] BY <2>2 DEF More
  <2>4. z = s => QueuedWhenReady(z)' BY <2>2, <2>3 DEF QueuedWhenReady
  <2> QED BY <2>2, <2>4 DEF MannedInv, QueuedWhenReady
<1>6. ASSUME NEW t \in Threads,
             \/ \E s \in Strands : Start(t, s) \/ \E o \in Ops : RunInside(t, s, o)
             \/ Submit(t) \/ Return(t) \/ Throw(t) \/ Redefer(t)
      PROVE  QueuedWhenReady(z)'
  BY <1>1, <1>6 DEF Start, RunInside, Submit, Return, Throw, FunctionOver, Redefer
<1>7. CASE UNCHANGED vars BY <1>1, <1>7 DEF vars
<1> QED BY <1>2, <1>3, <1>4, <1>5, <1>6, <1>7 DEF Next, Step

LEMMA MannedStep == TypeOK /\ RightsInv /\ MannedInv /\ [Next]_vars => MannedInv'
<1> SUFFICES ASSUME TypeOK, RightsInv, MannedInv, [Next]_vars, NEW z \in Strands PROVE Manned(z)'
  BY QueuedStep DEF MannedInv
<1>1. CASE UNCHANGED vars
  <2>1. \A u \in Threads : Holds(u, z)' <=> Holds(u, z) BY <1>1 DEF Holds, vars
  <2>2. \A u \in Threads : Submitting(u, z)' <=> Submitting(u, z) BY <1>1 DEF Submitting, vars
  <2>3. UNCHANGED <<inner, ready>> BY <1>1 DEF vars
  <2> QED BY <2>1, <2>2, <2>3, MannedKept DEF MannedInv
<1> QED
  BY <1>1, RunInsideManned, AcceptManned, PushReadyManned, SubmitManned, StartManned,
     RunNextManned, FunctionOverManned, OnExitManned, RedeferManned DEF Next, Step, Return, Throw

\* So the owners of the ready queue are one or none.
LEMMA OwnersAre ==
  ASSUME TypeOK, RightsInv, NEW s \in Strands, Manned(s)
  PROVE  Cardinality(Owners(s)) = IF ready[s] THEN 1 ELSE 0
<1> DEFINE queued == {<<"inner", i>> : i \in 1 .. inner[s]}
           calls  == {<<"call", t>> : t \in {u \in Threads : call[u] # NoCall /\ call[u].strand = s}}
           at(t)  == {j \in DOMAIN stack[t] : stack[t][j].strand = s /\ stack[t][j].at # "inline"}
           stacks == UNION {{<<t, i>> : i \in at(t)} : t \in Threads}
<1>1. Owners(s) = queued \cup calls \cup stacks BY DEF Owners
<1>2. OneRight(s) /\ ClearMeansNone(s) BY DEF RightsInv, Rights
<1>3. inner[s] = 0 => queued = {} OBVIOUS
<1>4. \A t \in Threads : (Submitting(t, s) <=> call[t] # NoCall /\ call[t].strand = s)
  BY DEF Submitting
<1>5. \A t \in Threads : ~Holds(t, s) => at(t) = {} BY DEF Holds
<1>6. (\A t \in Threads : ~Submitting(t, s)) => calls = {} BY <1>4
<1>7. (\A t \in Threads : ~Holds(t, s)) => stacks = {} BY <1>5
<1>8. \A x : Cardinality({x}) = 1 BY FS_Singleton
<1>9. Cardinality({}) = 0 BY FS_EmptySet
<1>10. CASE ~ready[s]
  <2>1. Owners(s) = {} BY <1>1, <1>2, <1>3, <1>6, <1>7, <1>10 DEF ClearMeansNone
  <2> QED BY <1>9, <1>10, <2>1
<1>11. CASE inner[s] = 1
  <2>1. calls = {} /\ stacks = {} BY <1>2, <1>6, <1>7, <1>11 DEF OneRight
  <2>2. queued = {<<"inner", 1>>} BY <1>11
  <2>3. Owners(s) = {<<"inner", 1>>} BY <1>1, <2>1, <2>2
  <2>4. ready[s] BY <1>2, <1>11 DEF ClearMeansNone
  <2> QED BY <1>8, <2>3, <2>4
<1>12. ASSUME NEW t \in Threads, Submitting(t, s)
       PROVE  ready[s] /\ Cardinality(Owners(s)) = 1
  <2>1. inner[s] = 0 /\ \A u \in Threads : ~Holds(u, s) BY <1>2, <1>12 DEF OneRight
  <2>2. \A u \in Threads : Submitting(u, s) => u = t BY <1>2, <1>12 DEF OneRight
  <2>3. {u \in Threads : call[u] # NoCall /\ call[u].strand = s} = {t} BY <1>4, <1>12, <2>2
  <2>4. calls = {<<"call", t>>} BY <2>3
  <2>5. Owners(s) = {<<"call", t>>} BY <1>1, <1>3, <1>7, <2>1, <2>4
  <2>6. ready[s] BY <1>2, <1>12 DEF ClearMeansNone
  <2> QED BY <1>8, <2>5, <2>6
<1>13. ASSUME NEW t \in Threads, Holds(t, s)
       PROVE  ready[s] /\ Cardinality(Owners(s)) = 1
  <2>1. inner[s] = 0 /\ \A u \in Threads : ~Submitting(u, s) BY <1>2, <1>13 DEF OneRight
  <2>2. \A u \in Threads : u # t => at(u) = {} BY <1>2, <1>5, <1>13 DEF OneRight
  <2>3. PICK k \in DOMAIN stack[t] : stack[t][k].strand = s /\ stack[t][k].at # "inline"
    BY <1>13 DEF Holds
  <2>4. at(t) = {k} BY <2>3 DEF RightsInv, StackOrder, Ordered
  <2>5. stacks = {<<t, k>>} BY <2>2, <2>4
  <2>6. Owners(s) = {<<t, k>>} BY <1>1, <1>3, <1>6, <2>1, <2>5
  <2>7. ready[s] BY <1>2, <1>13 DEF ClearMeansNone
  <2> QED BY <1>8, <2>6, <2>7
<1> QED BY <1>10, <1>11, <1>12, <1>13 DEF Manned

LEMMA StrandInvariant == Spec => [](TypeOK /\ RightsInv /\ MannedInv)
<1>1. Init => MannedInv
  BY DEF Init, MannedInv, Manned, QueuedWhenReady
<1>2. Init => TypeOK
  BY DEF Init, TypeOK, FlagTypes, DataTypes, StackShape
<1>3. TypeOK /\ [Next]_vars => TypeOK'
  BY FlagStep, DataStep DEF TypeOK
<1> QED
  BY <1>1, <1>2, <1>3, RightsInit, RightsStep, MannedStep, PTL DEF Spec

\* The ready flag is set exactly while one call, queued invoker or running
\* invoker owns the ready queue, and functions wait only then: no accepted
\* function is left behind (bits/strand.h).
THEOREM ReadyMeansOneInvoker == Spec => []OneInvoker
<1>1. TypeOK /\ RightsInv /\ MannedInv => OneInvoker
  <2> SUFFICES ASSUME TypeOK, RightsInv, MannedInv, NEW s \in Strands
               PROVE  /\ Cardinality(Owners(s)) = IF ready[s] THEN 1 ELSE 0
                      /\ waitingQ[s] \o readyQ[s] # << >> => ready[s]
    BY DEF OneInvoker
  <2>1. Manned(s) /\ QueuedWhenReady(s) BY DEF MannedInv
  <2>2. waitingQ[s] \in Seq(Ops) /\ readyQ[s] \in Seq(Ops) BY DEF TypeOK, DataTypes
  <2>3. waitingQ[s] = << >> /\ readyQ[s] = << >> => waitingQ[s] \o readyQ[s] = << >> BY <2>2
  <2> QED BY <2>1, <2>3, OwnersAre DEF QueuedWhenReady
<1> QED BY <1>1, StrandInvariant, PTL

----------------------------------------------------------------------------
(* The strand is a serial queue.                                           *)

\* Thread t has set the flag of s and has still to queue its function.
Pushing(t, s) == call[t] # NoCall /\ call[t].strand = s /\ call[t].at = "push"

\* What the abstraction of the strand is in terms of who is doing what.
AcceptedIs(s) ==
  /\ \A t \in Threads : Pushing(t, s) => Accepted(s) = readyQ[s] \o <<call[t].op>> \o waitingQ[s]
  /\ (\A t \in Threads : ~Pushing(t, s)) => Accepted(s) = readyQ[s] \o waitingQ[s]

ActiveIs(s) ==
  /\ \A t \in Threads : InFunctionOf(t, s) => ActiveIn(s) = t
  /\ (\A t \in Threads : ~InFunctionOf(t, s)) => ActiveIn(s) = Idle

Seen == \A s \in Strands : AcceptedIs(s) /\ ActiveIs(s)

LEMMA AbstractionIs == TypeOK /\ RightsInv => Seen
<1> SUFFICES ASSUME TypeOK, RightsInv, NEW s \in Strands PROVE AcceptedIs(s) /\ ActiveIs(s)
  BY DEF Seen
<1> DEFINE waiting == {call[t] : t \in Threads} \ {NoCall}
           chosen  == CHOOSE c \in waiting : c.strand = s /\ c.at = "push"
<1>0. DataTypes BY DEF TypeOK
<1>1. ASSUME NEW t \in Threads, Pushing(t, s) PROVE Accepted(s) = readyQ[s] \o <<call[t].op>> \o waitingQ[s]
  <2>1. call[t] \in waiting /\ call[t].strand = s /\ call[t].at = "push" BY <1>1 DEF Pushing
  <2>2. \A u \in Threads : Submitting(u, s) => u = t
    BY <1>1 DEF RightsInv, Rights, OneRight, Submitting, Pushing
  <2>3. \A c \in waiting : c.strand = s => c = call[t] BY <2>2 DEF Submitting
  <2>4. chosen \in waiting /\ chosen.strand = s BY <2>1
  <2>5. chosen = call[t] BY <2>3, <2>4
  <2>6. \E u \in Threads : call[u] # NoCall /\ call[u].strand = s /\ call[u].at = "push" BY <1>1 DEF Pushing
  <2>7. Accepted(s) = readyQ[s] \o <<chosen.op>> \o waitingQ[s] BY <2>6 DEF Accepted
  <2> QED BY <2>5, <2>7
<1>2. ASSUME \A t \in Threads : ~Pushing(t, s) PROVE Accepted(s) = readyQ[s] \o waitingQ[s]
  <2>1. Accepted(s) = readyQ[s] \o << >> \o waitingQ[s] BY <1>2 DEF Accepted, Pushing
  <2>2. readyQ[s] \in Seq(Ops) BY <1>0 DEF DataTypes
  <2> QED BY <2>1, <2>2
<1>3. ActiveIs(s)
  <2>1. MutualExclusion BY RightsExclude
  <2>2. ASSUME NEW t \in Threads, InFunctionOf(t, s) PROVE ActiveIn(s) = t
    <3>1. \A u \in Threads : InFunctionOf(u, s) => u = t BY <2>1, <2>2 DEF MutualExclusion
    <3>2. ActiveIn(s) = CHOOSE u \in Threads : InFunctionOf(u, s) BY <2>2 DEF ActiveIn
    <3> QED BY <2>2, <3>1, <3>2
  <2>3. (\A t \in Threads : ~InFunctionOf(t, s)) => ActiveIn(s) = Idle BY DEF ActiveIn
  <2> QED BY <2>2, <2>3 DEF ActiveIs
<1> QED BY <1>1, <1>2, <1>3 DEF AcceptedIs

\* What stays as it was.
LEMMA AcceptedSame ==
  ASSUME Seen, Seen', NEW s \in Strands, readyQ'[s] = readyQ[s], waitingQ'[s] = waitingQ[s],
         \A u \in Threads : Pushing(u, s)' <=> Pushing(u, s),
         \A u \in Threads : Pushing(u, s) => call'[u].op = call[u].op
  PROVE  Accepted(s)' = Accepted(s)
<1>1. AcceptedIs(s) /\ AcceptedIs(s)' BY DEF Seen
<1>2. CASE \E u \in Threads : Pushing(u, s)
  <2>1. PICK u \in Threads : Pushing(u, s) BY <1>2
  <2>2. Accepted(s) = readyQ[s] \o <<call[u].op>> \o waitingQ[s] BY <1>1, <2>1 DEF AcceptedIs
  <2>3. Accepted(s)' = readyQ'[s] \o <<call'[u].op>> \o waitingQ'[s] BY <1>1, <2>1 DEF AcceptedIs
  <2> QED BY <2>1, <2>2, <2>3
<1>3. CASE \A u \in Threads : ~Pushing(u, s)
  BY <1>1, <1>3 DEF AcceptedIs
<1> QED BY <1>2, <1>3

LEMMA ActiveSame ==
  ASSUME Seen, Seen', NEW s \in Strands, \A u \in Threads : InFunctionOf(u, s)' <=> InFunctionOf(u, s)
  PROVE  ActiveIn(s)' = ActiveIn(s)
<1>1. ActiveIs(s) /\ ActiveIs(s)' BY DEF Seen
<1> QED BY <1>1 DEF ActiveIs

----------------------------------------------------------------------------
(* Who is in a function after each change of a stack.                      *)

LEMMA PushIn ==
  ASSUME DataTypes, NEW t \in Threads, NEW f \in Frames, Pushes(t, f),
         NEW u \in Threads, NEW s \in Strands
  PROVE  InFunctionOf(u, s)' <=> InFunctionOf(u, s) \/ (u = t /\ f.strand = s /\ f.op # NoOp)
<1>1. CASE u # t BY <1>1 DEF Pushes, InFunctionOf
<1>2. CASE u = t
  <2>1. DOMAIN stack'[t] = 1 .. Len(stack[t]) + 1 /\ DOMAIN stack[t] = 1 .. Len(stack[t]) /\ Len(stack[t]) \in Nat
    BY DEF Pushes, DataTypes
  <2>2. InFunctionOf(t, s) => InFunctionOf(t, s)' BY <2>1 DEF Pushes, InFunctionOf
  <2>3. f.strand = s /\ f.op # NoOp => InFunctionOf(t, s)' BY <2>1 DEF Pushes, InFunctionOf
  <2>4. ASSUME InFunctionOf(t, s)' PROVE InFunctionOf(t, s) \/ (f.strand = s /\ f.op # NoOp)
    <3>1. PICK i \in 1 .. Len(stack[t]) + 1 : stack'[t][i].strand = s /\ stack'[t][i].op # NoOp
      BY <2>1, <2>4 DEF InFunctionOf
    <3>2. CASE i = Len(stack[t]) + 1 BY <3>1, <3>2 DEF Pushes
    <3>3. CASE i # Len(stack[t]) + 1
      <4>1. i \in DOMAIN stack[t] /\ stack'[t][i] = stack[t][i] BY <2>1, <3>3 DEF Pushes
      <4> QED BY <3>1, <4>1 DEF InFunctionOf
    <3> QED BY <3>2, <3>3
  <2> QED BY <1>2, <2>2, <2>3, <2>4
<1> QED BY <1>1, <1>2

\* An invoker that is left between two functions, or a function called inside
\* the strand that is over: the thread is in what it was in.
LEMMA PopIn ==
  ASSUME DataTypes, StackOrder, NEW t \in Threads, Pops(t),
         Top(t).op = NoOp \/ (Top(t).at = "inline" /\ \A i \in 1 .. Len(stack[t]) : UserFrame(stack[t][i])),
         NEW u \in Threads, NEW s \in Strands
  PROVE  InFunctionOf(u, s)' <=> InFunctionOf(u, s)
<1>1. CASE u # t BY <1>1 DEF Pops, InFunctionOf
<1>2. CASE u = t
  <2>1. DOMAIN stack'[t] = 1 .. Len(stack[t]) - 1 /\ DOMAIN stack[t] = 1 .. Len(stack[t])
        /\ Len(stack[t]) \in Nat /\ Len(stack[t]) > 0
    BY DEF Pops, DataTypes
  <2>2. \A i \in 1 .. Len(stack[t]) - 1 : i \in DOMAIN stack[t] /\ stack'[t][i] = stack[t][i]
    BY <2>1 DEF Pops
  <2>3. InFunctionOf(t, s)' => InFunctionOf(t, s) BY <2>1, <2>2 DEF InFunctionOf
  <2>4. ASSUME NEW i \in DOMAIN stack[t], stack[t][i].strand = s, stack[t][i].op # NoOp PROVE InFunctionOf(t, s)'
    <3>1. CASE i # Len(stack[t])
      <4>1. i \in 1 .. Len(stack[t]) - 1 BY <2>1, <3>1
      <4> QED BY <2>1, <2>2, <2>4, <4>1 DEF InFunctionOf
    <3>2. CASE i = Len(stack[t])
      <4>1. stack[t][i].at = "inline" /\ \A k \in 1 .. Len(stack[t]) : UserFrame(stack[t][k])
        BY <2>4, <3>2 DEF Top
      <4>2. PICK j \in 1 .. i - 1 : stack[t][j].strand = s
        BY <2>4, <4>1 DEF StackOrder, Ordered
      <4>3. j \in 1 .. Len(stack[t]) - 1 /\ j \in 1 .. Len(stack[t]) BY <2>1, <3>2, <4>2
      <4>4. stack[t][j].op # NoOp BY <4>1, <4>3 DEF UserFrame
      <4> QED BY <2>1, <2>2, <4>2, <4>3, <4>4 DEF InFunctionOf
    <3> QED BY <3>1, <3>2
  <2>5. InFunctionOf(t, s) => InFunctionOf(t, s)' BY <2>4 DEF InFunctionOf
  <2> QED BY <1>2, <2>3, <2>5
<1> QED BY <1>1, <1>2

\* Only the invoker's own frame is about its strand.
LEMMA OnlyTop ==
  ASSUME DataTypes, StackOrder, NEW t \in Threads, stack[t] # << >>, Top(t).at # "inline"
  PROVE  \A i \in DOMAIN stack[t] : stack[t][i].strand = Top(t).strand => i = Len(stack[t])
<1>1. DOMAIN stack[t] = 1 .. Len(stack[t]) /\ Len(stack[t]) \in DOMAIN stack[t] /\ Len(stack[t]) \in Nat
  BY UnderShape DEF DataTypes
<1> SUFFICES ASSUME NEW i \in DOMAIN stack[t], stack[t][i].strand = Top(t).strand PROVE i = Len(stack[t])
  OBVIOUS
<1>2. CASE stack[t][i].at # "inline" BY <1>1, <1>2 DEF Top, StackOrder, Ordered
<1>3. CASE stack[t][i].at = "inline"
  <2>1. PICK j \in 1 .. i - 1 : stack[t][j].strand = Top(t).strand /\ stack[t][j].at # "inline"
    BY <1>3 DEF StackOrder, Ordered
  <2>2. j \in DOMAIN stack[t] /\ j < i /\ i \in 1 .. Len(stack[t]) BY <1>1, <2>1
  <2>3. j = Len(stack[t]) BY <1>1, <2>1, <2>2 DEF Top, StackOrder, Ordered
  <2> QED BY <2>2, <2>3
<1> QED BY <1>2, <1>3

LEMMA ReplaceIn ==
  ASSUME DataTypes, StackOrder, NEW t \in Threads, NEW f \in Frames, stack[t] # << >>, Replaces(t, f),
         f.strand = Top(t).strand, Top(t).at # "inline", NEW u \in Threads, NEW s \in Strands
  PROVE  /\ ~(u = t /\ s = Top(t).strand) => (InFunctionOf(u, s)' <=> InFunctionOf(u, s))
         /\ u = t /\ s = Top(t).strand => /\ InFunctionOf(u, s)' <=> f.op # NoOp
                                          /\ InFunctionOf(u, s) <=> Top(t).op # NoOp
<1>1. DOMAIN stack'[t] = DOMAIN stack[t] /\ DOMAIN stack[t] = 1 .. Len(stack[t]) /\ Len(stack[t]) \in DOMAIN stack[t]
  BY DEF Replaces, DataTypes
<1>2. \A i \in DOMAIN stack[t] : /\ stack'[t][i].strand = stack[t][i].strand
                                 /\ i # Len(stack[t]) => stack'[t][i] = stack[t][i]
  BY <1>1 DEF Replaces, Top
<1>3. stack'[t][Len(stack[t])] = f /\ stack[t][Len(stack[t])] = Top(t) BY DEF Replaces, Top
<1>4. \A i \in DOMAIN stack[t] : stack[t][i].strand = Top(t).strand => i = Len(stack[t]) BY OnlyTop
<1>5. CASE u # t BY <1>5 DEF Replaces, InFunctionOf
<1>6. CASE u = t /\ s # Top(t).strand
  <2>1. \A i \in DOMAIN stack[t] : stack[t][i].strand = s => stack'[t][i] = stack[t][i] BY <1>2, <1>3, <1>6
  <2>2. InFunctionOf(t, s)' <=> InFunctionOf(t, s) BY <1>1, <1>2, <2>1 DEF InFunctionOf
  <2> QED BY <1>6, <2>2
<1>7. CASE u = t /\ s = Top(t).strand
  <2>1. InFunctionOf(t, s)' <=> f.op # NoOp
    BY <1>1, <1>2, <1>3, <1>4, <1>7 DEF InFunctionOf
  <2>2. InFunctionOf(t, s) <=> Top(t).op # NoOp
    BY <1>1, <1>3, <1>4, <1>7 DEF InFunctionOf
  <2> QED BY <1>7, <2>1, <2>2
<1> QED BY <1>5, <1>6, <1>7

----------------------------------------------------------------------------
(* Each step of the strand is one of the queue, or none.                   *)

\* The queues and the active threads of the strands of a set are what they were.
SameFor(Z) == \A z \in Z : Accepted(z)' = Accepted(z) /\ ActiveIn(z)' = ActiveIn(z)

Facts == TypeOK /\ RightsInv /\ MannedInv /\ Seen

\* Sequences: an element joins at the end, moves over, leaves at the front.
LEMMA AppendLast ==
  ASSUME NEW S, NEW q \in Seq(S), NEW w \in Seq(S), NEW e \in S
  PROVE  q \o Append(w, e) = Append(q \o w, e)
<1>1. Append(w, e) \in Seq(S) /\ q \o w \in Seq(S) BY ConcatProperties
<1>2. q \o Append(w, e) \in Seq(S) /\ Append(q \o w, e) \in Seq(S) BY <1>1, ConcatProperties
<1>3. Len(q \o Append(w, e)) = Len(q) + Len(w) + 1 BY <1>1, ConcatProperties
<1>4. Len(Append(q \o w, e)) = Len(q) + Len(w) + 1 BY <1>1, ConcatProperties
<1>5. \A i \in 1 .. Len(q) + Len(w) + 1 : (q \o Append(w, e))[i] = Append(q \o w, e)[i]
  <2> TAKE i \in 1 .. Len(q) + Len(w) + 1
  <2>1. (q \o Append(w, e))[i] = IF i <= Len(q) THEN q[i] ELSE Append(w, e)[i - Len(q)]
    BY <1>1, ConcatProperties
  <2>2. i <= Len(q) + Len(w) => (q \o w)[i] = IF i <= Len(q) THEN q[i] ELSE w[i - Len(q)]
    BY ConcatProperties
  <2>3. Len(q \o w) = Len(q) + Len(w) /\ Len(q) \in Nat /\ Len(w) \in Nat BY ConcatProperties
  <2> QED BY <1>1, <2>1, <2>2, <2>3
<1> QED BY <1>2, <1>3, <1>4, <1>5, SeqEqual

LEMMA AppendMoves ==
  ASSUME NEW S, NEW q \in Seq(S), NEW w \in Seq(S), NEW e \in S
  PROVE  Append(q, e) \o w = q \o <<e>> \o w
<1>1. Append(q, e) = q \o <<e>>
  <2>1. <<e>> = Append(<< >>, e) OBVIOUS
  <2>2. << >> \in Seq(S) /\ q \o << >> = q BY ConcatEmptySeq
  <2> QED BY <2>1, <2>2, AppendLast
<1> QED BY <1>1

LEMMA TailFirst ==
  ASSUME NEW S, NEW q \in Seq(S), NEW w \in Seq(S), q # << >>
  PROVE  q \o w # << >> /\ Tail(q \o w) = Tail(q) \o w
<1>1. q \o w \in Seq(S) /\ q \o w # << >> BY ConcatProperties, ConcatEqualIffEmpty
<1>2. Tail(q) \in Seq(S) /\ Len(Tail(q)) = Len(q) - 1 /\ Len(q) \in Nat /\ Len(q) > 0 /\ Len(w) \in Nat
  BY HeadTailProperties
<1>3. Len(q \o w) = Len(q) + Len(w) BY ConcatProperties
<1>4. Tail(q \o w) \in Seq(S) /\ Len(Tail(q \o w)) = Len(q) + Len(w) - 1 BY <1>1, <1>3, HeadTailProperties
<1>5. Tail(q) \o w \in Seq(S) /\ Len(Tail(q) \o w) = Len(q) - 1 + Len(w) BY <1>2, ConcatProperties
<1>6. \A i \in 1 .. Len(q) + Len(w) - 1 : Tail(q \o w)[i] = (Tail(q) \o w)[i]
  <2> TAKE i \in 1 .. Len(q) + Len(w) - 1
  <2>1. Tail(q \o w)[i] = (q \o w)[i + 1] BY <1>1, <1>4, HeadTailProperties
  <2>2. i + 1 \in 1 .. Len(q) + Len(w) BY <1>2
  <2>3. (q \o w)[i + 1] = IF i + 1 <= Len(q) THEN q[i + 1] ELSE w[i + 1 - Len(q)]
    BY <2>2, ConcatProperties
  <2>4. (Tail(q) \o w)[i] = IF i <= Len(q) - 1 THEN Tail(q)[i] ELSE w[i - (Len(q) - 1)]
    BY <1>2, ConcatProperties
  <2>5. i <= Len(q) - 1 => Tail(q)[i] = q[i + 1] BY <1>2, HeadTailProperties
  <2>6. i + 1 - Len(q) = i - (Len(q) - 1) /\ (i + 1 <= Len(q) <=> i <= Len(q) - 1) BY <1>2
  <2> QED BY <2>1, <2>3, <2>4, <2>5, <2>6
<1>7. Len(q) - 1 + Len(w) = Len(q) + Len(w) - 1 BY <1>2
<1>8. Tail(q \o w) = Tail(q) \o w BY <1>4, <1>5, <1>6, <1>7, SeqEqual
<1> QED BY <1>1, <1>8

LEMMA InMeansHolds ==
  ASSUME TypeOK, RightsInv, NEW t \in Threads, NEW s \in Strands, InFunctionOf(t, s)
  PROVE  Holds(t, s)
<1>1. Contains(t, s) BY DEF InFunctionOf, Contains
<1> QED BY <1>1, InsideHolds DEF TypeOK, RightsInv

LEMMA SerialStutter ==
  ASSUME SameFor(Strands), UNCHANGED fresh
  PROVE  UNCHANGED Serial!vars
  BY DEF SameFor, Serial!vars

LEMMA RunInsideIs ==
  ASSUME Facts, Seen', NEW t \in Threads, NEW s \in Strands, NEW o \in Ops, RunInside(t, s, o)
  PROVE  Serial!RunInside(s, o)
<1> DEFINE f == [strand |-> s, at |-> "inline", op |-> o]
<1>1. f \in Frames /\ f.strand = s BY DEF Frames
<1>2. DataTypes /\ StackShape /\ stack' = Pushed(t, f) /\ InUserCode(t) /\ Contains(t, s)
      /\ UNCHANGED <<readyQ, waitingQ, call>>
  BY DEF RunInside, TypeOK, Facts
<1>3. InFunctionOf(t, s)
  <2>1. PICK i \in DOMAIN stack[t] : stack[t][i].strand = s BY <1>2 DEF Contains
  <2>2. UserFrame(stack[t][i]) BY <1>2, <2>1, AllUserFrames DEF DataTypes
  <2> QED BY <2>1, <2>2 DEF UserFrame, InFunctionOf
<1> HIDE DEF f
<1>4. Pushes(t, f) BY <1>1, <1>2, PushedShape
<1>5. \A u \in Threads, z \in Strands : InFunctionOf(u, z)' <=> InFunctionOf(u, z)
  BY <1>1, <1>2, <1>3, <1>4, PushIn
<1>6. \A u \in Threads, z \in Strands : Pushing(u, z)' <=> Pushing(u, z) BY <1>2 DEF Pushing
<1>7. \A z \in Strands : Accepted(z)' = Accepted(z) BY <1>2, <1>6, AcceptedSame DEF Facts
<1>8. \A z \in Strands : ActiveIn(z)' = ActiveIn(z) BY <1>5, ActiveSame DEF Facts
<1>9. ActiveIn(s) = t BY <1>3 DEF Facts, Seen, ActiveIs
<1>10. t # Idle BY StrandAssumption DEF StrandAssumption
<1>11. o \in fresh /\ fresh' = fresh \ {o} BY DEF RunInside
<1> QED BY <1>7, <1>8, <1>9, <1>10, <1>11 DEF Serial!RunInside

LEMMA AcceptIs ==
  ASSUME Facts, Seen', NEW t \in Threads, NEW k \in Kinds, NEW s \in Strands, NEW o \in Ops,
         Accept(t, k, s, o)
  PROVE  Serial!Accept(s, o)
<1> DEFINE c == [at |-> "push", kind |-> k, strand |-> s, op |-> o]
<1>1. DataTypes /\ call[t] = NoCall /\ UNCHANGED <<readyQ, stack>> /\ o \in fresh /\ fresh' = fresh \ {o}
  BY DEF Accept, InUserCode, TypeOK, Facts
<1>2. \A u \in Threads, z \in Strands : InFunctionOf(u, z)' <=> InFunctionOf(u, z) BY <1>1 DEF InFunctionOf
<1>3. \A z \in Strands : ActiveIn(z)' = ActiveIn(z) BY <1>2, ActiveSame DEF Facts
<1>4. readyQ[s] \in Seq(Ops) /\ waitingQ[s] \in Seq(Ops) BY <1>1 DEF DataTypes
<1>5. AcceptedIs(s) /\ AcceptedIs(s)' BY DEF Facts, Seen
<1>6. CASE IsReady(s) /\ waitingQ' = [waitingQ EXCEPT ![s] = Append(@, o)] /\ UNCHANGED <<ready, call>>
  <2>1. \A u \in Threads, z \in Strands : Pushing(u, z)' <=> Pushing(u, z) BY <1>6 DEF Pushing
  <2>2. waitingQ'[s] = Append(waitingQ[s], o) /\ \A z \in Strands : z # s => waitingQ'[z] = waitingQ[z]
    BY <1>1, <1>6 DEF DataTypes
  <2>3. \A z \in Strands : z # s => Accepted(z)' = Accepted(z)
    BY <1>1, <1>6, <2>1, <2>2, AcceptedSame DEF Facts
  <2>4. Accepted(s)' = Append(Accepted(s), o)
    <3>1. CASE \E u \in Threads : Pushing(u, s)
      <4>1. PICK u \in Threads : Pushing(u, s) BY <3>1
      <4>2. Accepted(s) = readyQ[s] \o <<call[u].op>> \o waitingQ[s] BY <1>5, <4>1 DEF AcceptedIs
      <4>3. Accepted(s)' = readyQ[s] \o <<call[u].op>> \o Append(waitingQ[s], o)
        BY <1>1, <1>5, <1>6, <2>1, <2>2, <4>1 DEF AcceptedIs
      <4>4. call[u].op \in Ops BY <1>1, <4>1 DEF Pushing, DataTypes, CallRecords
      <4>5. readyQ[s] \o <<call[u].op>> \in Seq(Ops) BY <1>4, <4>4
      <4>6. o \in Ops OBVIOUS
      <4> DEFINE q == readyQ[s] \o <<call[u].op>>
                 w == waitingQ[s]
      <4>7. q \in Seq(Ops) /\ w \in Seq(Ops) BY <1>4, <4>5
      <4>8. Accepted(s) = q \o w /\ Accepted(s)' = q \o Append(w, o) BY <4>2, <4>3
      <4> HIDE DEF q, w
      <4>9. q \o Append(w, o) = Append(q \o w, o) BY <4>6, <4>7, AppendLast
      <4> QED BY <4>8, <4>9
    <3>2. CASE \A u \in Threads : ~Pushing(u, s)
      <4>1. Accepted(s) = readyQ[s] \o waitingQ[s] BY <1>5, <3>2 DEF AcceptedIs
      <4>2. Accepted(s)' = readyQ[s] \o Append(waitingQ[s], o) BY <1>1, <1>5, <2>1, <2>2, <3>2 DEF AcceptedIs
      <4> DEFINE q == readyQ[s]
                 w == waitingQ[s]
      <4>3. q \in Seq(Ops) /\ w \in Seq(Ops) /\ o \in Ops BY <1>4
      <4> HIDE DEF q, w
      <4>4. q \o Append(w, o) = Append(q \o w, o) BY <4>3, AppendLast
      <4> QED BY <4>1, <4>2, <4>4 DEF q, w
    <3> QED BY <3>1, <3>2
  <2> QED BY <1>1, <1>3, <2>3, <2>4 DEF Serial!Accept
<1>7. CASE ~IsReady(s) /\ ready' = [ready EXCEPT ![s] = TRUE] /\ call' = [call EXCEPT ![t] = c] /\ UNCHANGED waitingQ
  <2>1. c.strand = s /\ c.at = "push" /\ c.op = o /\ c # NoCall
    BY StrandAssumption DEF StrandAssumption, CallRecords, Kinds
  <2> HIDE DEF c
  <2>2. call'[t] = c /\ \A u \in Threads : u # t => call'[u] = call[u] BY <1>1, <1>7 DEF DataTypes
  <2>3. ~ready[s] BY <1>7 DEF IsReady
  <2>4. \A u \in Threads : ~Submitting(u, s) BY <2>3 DEF Facts, RightsInv, Rights, ClearMeansNone
  <2>5. \A u \in Threads : ~Pushing(u, s) BY <2>4 DEF Submitting, Pushing
  <2>6. readyQ[s] = << >> /\ waitingQ[s] = << >> BY <2>3 DEF Facts, MannedInv, QueuedWhenReady
  <2>7. Accepted(s) = readyQ[s] \o waitingQ[s] BY <1>5, <2>5 DEF AcceptedIs
  <2>8. Accepted(s) = << >> BY <2>6, <2>7
  <2>9. Pushing(t, s)' BY <2>1, <2>2 DEF Pushing
  <2>10. Accepted(s)' = readyQ'[s] \o <<call'[t].op>> \o waitingQ'[s] BY <1>5, <2>9 DEF AcceptedIs
  <2>11. Accepted(s)' = << >> \o <<o>> \o << >> BY <1>1, <1>7, <2>1, <2>2, <2>6, <2>10
  <2>12. Accepted(s)' = Append(Accepted(s), o)
    <3>1. << >> \in Seq(Ops) /\ <<o>> \in Seq(Ops) OBVIOUS
    <3>2. << >> \o <<o>> = <<o>> /\ <<o>> \o << >> = <<o>> BY <3>1, ConcatEmptySeq
    <3>3. <<o>> = Append(<< >>, o) OBVIOUS
    <3> QED BY <2>8, <2>11, <3>2, <3>3
  <2>13. \A u \in Threads, z \in Strands : z # s => (Pushing(u, z)' <=> Pushing(u, z))
    BY <1>1, <2>1, <2>2 DEF Pushing
  <2>14. \A u \in Threads, z \in Strands : Pushing(u, z) => call'[u].op = call[u].op
    BY <1>1, <2>2 DEF Pushing
  <2>15. \A z \in Strands : z # s => Accepted(z)' = Accepted(z)
    BY <1>1, <1>7, <2>13, <2>14, AcceptedSame DEF Facts
  <2> QED BY <1>1, <1>3, <2>12, <2>15 DEF Serial!Accept
<1> QED BY <1>6, <1>7 DEF Accept

LEMMA PushReadyIs ==
  ASSUME Facts, Seen', NEW t \in Threads, PushReady(t)
  PROVE  UNCHANGED Serial!vars
<1>1. DataTypes /\ UNCHANGED <<waitingQ, stack, fresh>> BY DEF PushReady, TypeOK, Facts
<1>2. PICK s \in Strands : s = call[t].strand BY <1>1 DEF PushReady, DataTypes, CallRecords
<1>3. Pushing(t, s) /\ call[t] \in CallRecords BY <1>1, <1>2 DEF PushReady, Pushing, DataTypes
<1>4. call'[t].at = "submit" /\ \A u \in Threads : u # t => call'[u] = call[u]
  BY <1>1, <1>3 DEF PushReady, DataTypes, CallRecords
<1>5. \A u \in Threads : Pushing(u, s) => u = t
  BY <1>2, <1>3 DEF Facts, RightsInv, Rights, OneRight, Submitting, Pushing
<1>6. \A u \in Threads : ~Pushing(u, s)' BY <1>4, <1>5 DEF Pushing
<1>7. \A u \in Threads, z \in Strands : z # s => (Pushing(u, z)' <=> Pushing(u, z))
  BY <1>2, <1>4, <1>5 DEF Pushing
<1>8. \A u \in Threads, z \in Strands : z # s /\ Pushing(u, z) => call'[u].op = call[u].op
  BY <1>2, <1>4 DEF Pushing
<1>9. readyQ'[s] = Append(readyQ[s], call[t].op) /\ \A z \in Strands : z # s => readyQ'[z] = readyQ[z]
  BY <1>1, <1>2 DEF PushReady, DataTypes
<1>10. \A z \in Strands : z # s => Accepted(z)' = Accepted(z)
  BY <1>1, <1>7, <1>8, <1>9, AcceptedSame DEF Facts
<1>11. Accepted(s)' = Accepted(s)
  <2>1. AcceptedIs(s) /\ AcceptedIs(s)' BY DEF Facts, Seen
  <2>2. Accepted(s) = readyQ[s] \o <<call[t].op>> \o waitingQ[s] BY <1>3, <2>1 DEF AcceptedIs
  <2>3. Accepted(s)' = Append(readyQ[s], call[t].op) \o waitingQ[s] BY <1>1, <1>6, <1>9, <2>1 DEF AcceptedIs
  <2>4. readyQ[s] \in Seq(Ops) /\ waitingQ[s] \in Seq(Ops) BY <1>1 DEF DataTypes
  <2>5. call[t].op \in Ops BY <1>3 DEF CallRecords
  <2> QED BY <2>2, <2>3, <2>4, <2>5, AppendMoves
<1>12. \A u \in Threads, z \in Strands : InFunctionOf(u, z)' <=> InFunctionOf(u, z) BY <1>1 DEF InFunctionOf
<1>13. \A z \in Strands : ActiveIn(z)' = ActiveIn(z) BY <1>12, ActiveSame DEF Facts
<1> QED BY <1>1, <1>10, <1>11, <1>13, SerialStutter DEF SameFor

\* A step that leaves the queues and who pushes, and the functions threads are in.
LEMMA SerialKept ==
  ASSUME Facts, Seen', UNCHANGED <<readyQ, waitingQ, fresh>>,
         \A u \in Threads, z \in Strands : Pushing(u, z)' <=> Pushing(u, z),
         \A u \in Threads, z \in Strands : Pushing(u, z) => call'[u].op = call[u].op,
         \A u \in Threads, z \in Strands : InFunctionOf(u, z)' <=> InFunctionOf(u, z)
  PROVE  UNCHANGED Serial!vars
<1>1. \A z \in Strands : Accepted(z)' = Accepted(z) BY AcceptedSame DEF Facts
<1>2. \A z \in Strands : ActiveIn(z)' = ActiveIn(z) BY ActiveSame DEF Facts
<1> QED BY <1>1, <1>2, SerialStutter DEF SameFor

LEMMA SubmitIs ==
  ASSUME Facts, Seen', NEW t \in Threads, Submit(t)
  PROVE  UNCHANGED Serial!vars
<1>1. DataTypes /\ UNCHANGED <<ready, waitingQ, readyQ, fresh>> /\ call[t] # NoCall /\ call[t].at = "submit"
  BY DEF Submit, TypeOK, Facts
<1>2. PICK s \in Strands : s = call[t].strand BY <1>1 DEF DataTypes, CallRecords
<1> DEFINE f == Invoker(s)
<1>3. f \in Frames /\ f.op = NoOp BY DEF Invoker, Frames
<1>4. call'[t] = NoCall /\ \A u \in Threads : u # t => call'[u] = call[u] BY <1>1 DEF Submit, DataTypes
<1>5. \A u \in Threads, z \in Strands : Pushing(u, z)' <=> Pushing(u, z) BY <1>1, <1>4 DEF Pushing
<1>6. \A u \in Threads, z \in Strands : Pushing(u, z) => call'[u].op = call[u].op BY <1>1, <1>4 DEF Pushing
<1> HIDE DEF f
<1>7. CASE UNCHANGED stack
  <2>1. \A u \in Threads, z \in Strands : InFunctionOf(u, z)' <=> InFunctionOf(u, z) BY <1>7 DEF InFunctionOf
  <2> QED BY <1>1, <1>5, <1>6, <2>1, SerialKept
<1>8. CASE stack' = Pushed(t, f)
  <2>1. Pushes(t, f) BY <1>1, <1>3, <1>8, PushedShape
  <2>2. \A u \in Threads, z \in Strands : InFunctionOf(u, z)' <=> InFunctionOf(u, z) BY <1>1, <1>3, <2>1, PushIn
  <2> QED BY <1>1, <1>5, <1>6, <2>2, SerialKept
<1> QED BY <1>2, <1>7, <1>8 DEF Submit, f

LEMMA StartIs ==
  ASSUME Facts, Seen', NEW t \in Threads, NEW s \in Strands, Start(t, s)
  PROVE  UNCHANGED Serial!vars
<1> DEFINE f == Invoker(s)
<1>1. DataTypes /\ UNCHANGED <<waitingQ, readyQ, fresh, call>> /\ stack' = Pushed(t, f)
  BY DEF Start, TypeOK, Facts
<1>2. f \in Frames /\ f.op = NoOp BY DEF Invoker, Frames
<1> HIDE DEF f
<1>3. Pushes(t, f) BY <1>1, <1>2, PushedShape
<1>4. \A u \in Threads, z \in Strands : InFunctionOf(u, z)' <=> InFunctionOf(u, z) BY <1>1, <1>2, <1>3, PushIn
<1>5. \A u \in Threads, z \in Strands : Pushing(u, z)' <=> Pushing(u, z) BY <1>1 DEF Pushing
<1> QED BY <1>1, <1>4, <1>5, SerialKept

LEMMA RedeferIs ==
  ASSUME Facts, Seen', NEW t \in Threads, Redefer(t)
  PROVE  UNCHANGED Serial!vars
<1>1. DataTypes /\ StackOrder /\ UNCHANGED <<waitingQ, readyQ, fresh, call>> /\ stack' = Popped(t)
      /\ stack[t] # << >> /\ Top(t).op = NoOp
  BY DEF Redefer, InvokerAt, TypeOK, RightsInv, Facts
<1>2. Pops(t) BY <1>1, PoppedShape
<1>3. \A u \in Threads, z \in Strands : InFunctionOf(u, z)' <=> InFunctionOf(u, z) BY <1>1, <1>2, PopIn
<1>4. \A u \in Threads, z \in Strands : Pushing(u, z)' <=> Pushing(u, z) BY <1>1 DEF Pushing
<1> QED BY <1>1, <1>3, <1>4, SerialKept

\* While a thread is at an invoker of s, nobody is submitting to s and nobody
\* else is in its functions.
LEMMA AtInvoker ==
  ASSUME Facts, NEW t \in Threads, NEW s \in Strands, stack[t] # << >>, Top(t).strand = s, Top(t).at # "inline"
  PROVE  (\A u \in Threads : ~Pushing(u, s)) /\ (\A u \in Threads : InFunctionOf(u, s) => u = t)
<1>1. DataTypes /\ TypeOK /\ RightsInv BY DEF TypeOK, Facts
<1>2. Holds(t, s) BY <1>1, TopHolds
<1>3. \A u \in Threads : ~Submitting(u, s) BY <1>1, <1>2 DEF RightsInv, Rights, OneRight
<1>4. \A u \in Threads : Holds(u, s) => u = t BY <1>1, <1>2 DEF RightsInv, Rights, OneRight
<1>5. \A u \in Threads : ~Pushing(u, s) BY <1>3 DEF Submitting, Pushing
<1>6. \A u \in Threads : InFunctionOf(u, s) => u = t BY <1>1, <1>4, InMeansHolds
<1> QED BY <1>5, <1>6

LEMMA RunNextIs ==
  ASSUME Facts, Seen', NEW t \in Threads, RunNext(t)
  PROVE  \E s \in Strands : Serial!Begin(s, t)
<1> DEFINE f == [Top(t) EXCEPT !.op = Head(readyQ[Top(t).strand])]
<1>1. DataTypes /\ StackOrder /\ stack[t] # << >> /\ Top(t).at = "loop" /\ Top(t).op = NoOp
      /\ stack' = WithTop(t, f) /\ UNCHANGED <<waitingQ, call, fresh>>
  BY DEF RunNext, InvokerAt, TypeOK, RightsInv, Facts
<1>2. Top(t) \in Frames /\ Top(t).strand \in Strands BY <1>1, UnderShape DEF Frames
<1>3. PICK s \in Strands : s = Top(t).strand BY <1>2
<1>4. readyQ[s] # << >> /\ readyQ' = [readyQ EXCEPT ![s] = Tail(@)] BY <1>3 DEF RunNext
<1>5. readyQ[s] \in Seq(Ops) /\ waitingQ[s] \in Seq(Ops) BY <1>1 DEF DataTypes
<1>6. Head(readyQ[s]) \in Ops BY <1>4, <1>5
<1>7. f \in Frames /\ f.strand = s /\ f.op # NoOp
  BY <1>2, <1>3, <1>6, StrandAssumption DEF Frames, StrandAssumption
<1> HIDE DEF f
<1>8. Replaces(t, f) BY <1>1, <1>7, WithTopShape
<1>9. (\A u \in Threads : ~Pushing(u, s)) /\ (\A u \in Threads : InFunctionOf(u, s) => u = t)
  BY <1>1, <1>3, AtInvoker
<1>10. /\ \A u \in Threads, z \in Strands : ~(u = t /\ z = s) => (InFunctionOf(u, z)' <=> InFunctionOf(u, z))
       /\ InFunctionOf(t, s)' /\ ~InFunctionOf(t, s)
  BY <1>1, <1>3, <1>7, <1>8, ReplaceIn
<1>11. ActiveIn(s) = Idle BY <1>9, <1>10 DEF Facts, Seen, ActiveIs
<1>12. ActiveIn(s)' = t BY <1>10 DEF Seen, ActiveIs
<1>13. \A z \in Strands : z # s => ActiveIn(z)' = ActiveIn(z) BY <1>10, ActiveSame DEF Facts
<1>14. \A u \in Threads, z \in Strands : Pushing(u, z)' <=> Pushing(u, z) BY <1>1 DEF Pushing
<1>15. readyQ'[s] = Tail(readyQ[s]) /\ \A z \in Strands : z # s => readyQ'[z] = readyQ[z]
  BY <1>1, <1>4 DEF DataTypes
<1>16. \A z \in Strands : z # s => Accepted(z)' = Accepted(z)
  BY <1>1, <1>14, <1>15, AcceptedSame DEF Facts
<1>17. Accepted(s) = readyQ[s] \o waitingQ[s] /\ Accepted(s)' = Tail(readyQ[s]) \o waitingQ[s]
  <2>1. AcceptedIs(s) /\ AcceptedIs(s)' BY DEF Facts, Seen
  <2>2. Accepted(s) = readyQ[s] \o waitingQ[s] BY <1>9, <2>1 DEF AcceptedIs
  <2>3. Accepted(s)' = readyQ'[s] \o waitingQ'[s] BY <1>9, <1>14, <2>1 DEF AcceptedIs
  <2> QED BY <1>1, <1>15, <2>2, <2>3
<1>18. Accepted(s) # << >> /\ Accepted(s)' = Tail(Accepted(s)) BY <1>4, <1>5, <1>17, TailFirst
<1>19. Serial!Begin(s, t) BY <1>1, <1>11, <1>12, <1>13, <1>16, <1>18 DEF Serial!Begin
<1> QED BY <1>19

LEMMA FunctionOverIs ==
  ASSUME Facts, Seen', NEW t \in Threads, NEW place \in {"loop", "exit"}, FunctionOver(t, place)
  PROVE  UNCHANGED Serial!vars \/ \E s \in Strands : Serial!End(s)
<1> DEFINE f == FrameAfter(t, place)
<1>1. DataTypes /\ StackShape /\ StackOrder /\ stack[t] # << >> /\ InUserCode(t)
      /\ UNCHANGED <<waitingQ, readyQ, call, fresh>>
  BY DEF FunctionOver, TypeOK, RightsInv, Facts
<1>2. Top(t) \in Frames BY <1>1, UnderShape
<1>3. f \in Frames /\ f.strand = Top(t).strand /\ f.op = NoOp BY <1>2 DEF FrameAfter, Frames
<1>4. \A u \in Threads, z \in Strands : Pushing(u, z)' <=> Pushing(u, z) BY <1>1 DEF Pushing
<1>5. Top(t).op # NoOp BY <1>1 DEF InUserCode
<1> HIDE DEF f
<1>6. CASE Top(t).at = "inline" /\ stack' = Popped(t)
  <2>1. Pops(t) BY <1>1, <1>6, PoppedShape
  <2>2. \A i \in 1 .. Len(stack[t]) : UserFrame(stack[t][i]) BY <1>1, AllUserFrames
  <2>3. \A u \in Threads, z \in Strands : InFunctionOf(u, z)' <=> InFunctionOf(u, z)
    BY <1>1, <1>6, <2>1, <2>2, PopIn
  <2> QED BY <1>1, <1>4, <2>3, SerialKept
<1>7. CASE Top(t).at # "inline" /\ stack' = WithTop(t, f)
  <2>1. PICK s \in Strands : s = Top(t).strand BY <1>2 DEF Frames
  <2>2. Replaces(t, f) BY <1>1, <1>3, <1>7, WithTopShape
  <2>3. \A u \in Threads : InFunctionOf(u, s) => u = t BY <1>1, <1>7, <2>1, AtInvoker
  <2>4. /\ \A u \in Threads, z \in Strands : ~(u = t /\ z = s) => (InFunctionOf(u, z)' <=> InFunctionOf(u, z))
        /\ ~InFunctionOf(t, s)' /\ InFunctionOf(t, s)
    BY <1>1, <1>3, <1>5, <1>7, <2>1, <2>2, ReplaceIn
  <2>5. ActiveIn(s) = t BY <2>4 DEF Facts, Seen, ActiveIs
  <2>6. \A u \in Threads : ~InFunctionOf(u, s)' BY <2>3, <2>4
  <2>7. ActiveIn(s)' = Idle BY <2>6 DEF Seen, ActiveIs
  <2>8. \A z \in Strands : z # s => ActiveIn(z)' = ActiveIn(z) BY <2>4, ActiveSame DEF Facts
  <2>9. \A z \in Strands : Accepted(z)' = Accepted(z) BY <1>1, <1>4, AcceptedSame DEF Facts
  <2>10. t # Idle BY StrandAssumption DEF StrandAssumption
  <2>11. Serial!End(s) BY <1>1, <2>5, <2>7, <2>8, <2>9, <2>10 DEF Serial!End
  <2> QED BY <2>11
<1> QED BY <1>6, <1>7 DEF FunctionOver, f

LEMMA OnExitIs ==
  ASSUME Facts, Seen', NEW t \in Threads, OnExit(t)
  PROVE  UNCHANGED Serial!vars
<1> DEFINE f == [Top(t) EXCEPT !.at = "defer"]
<1>1. DataTypes /\ StackOrder /\ stack[t] # << >> /\ Top(t).op = NoOp /\ Top(t).at # "inline"
      /\ UNCHANGED <<call, fresh>>
  BY DEF OnExit, InvokerAt, TypeOK, RightsInv, Facts
<1>2. Top(t) \in Frames BY <1>1, UnderShape
<1>3. PICK s \in Strands : s = Top(t).strand BY <1>2 DEF Frames
<1>4. f \in Frames /\ f.strand = s /\ f.op = NoOp BY <1>1, <1>2, <1>3 DEF Frames
<1>5. /\ readyQ' = [readyQ EXCEPT ![s] = Spliced(s)] /\ waitingQ' = [waitingQ EXCEPT ![s] = << >>]
      /\ stack' = WithTop(t, f) \/ stack' = Popped(t)
  BY <1>3 DEF OnExit
<1> HIDE DEF f
<1>6. \A u \in Threads, z \in Strands : InFunctionOf(u, z)' <=> InFunctionOf(u, z)
  <2>1. CASE stack' = Popped(t)
    <3>1. Pops(t) BY <1>1, <2>1, PoppedShape
    <3> QED BY <1>1, <3>1, PopIn
  <2>2. CASE stack' = WithTop(t, f)
    <3>1. Replaces(t, f) BY <1>1, <1>4, <2>2, WithTopShape
    <3> QED BY <1>1, <1>3, <1>4, <3>1, ReplaceIn
  <2> QED BY <1>5, <2>1, <2>2
<1>7. \A z \in Strands : ActiveIn(z)' = ActiveIn(z) BY <1>6, ActiveSame DEF Facts
<1>8. \A u \in Threads, z \in Strands : Pushing(u, z)' <=> Pushing(u, z) BY <1>1 DEF Pushing
<1>9. \A u \in Threads : ~Pushing(u, s) BY <1>1, <1>3, AtInvoker
<1>10. \A z \in Strands : z # s => readyQ'[z] = readyQ[z] /\ waitingQ'[z] = waitingQ[z]
  BY <1>1, <1>5 DEF DataTypes
<1>11. \A z \in Strands : z # s => Accepted(z)' = Accepted(z)
  BY <1>1, <1>8, <1>10, AcceptedSame DEF Facts
<1>12. Accepted(s)' = Accepted(s)
  <2>1. AcceptedIs(s) /\ AcceptedIs(s)' BY DEF Facts, Seen
  <2>2. Accepted(s) = readyQ[s] \o waitingQ[s] BY <1>9, <2>1 DEF AcceptedIs
  <2>3. Accepted(s)' = readyQ'[s] \o waitingQ'[s] BY <1>8, <1>9, <2>1 DEF AcceptedIs
  <2>4. readyQ'[s] = readyQ[s] \o waitingQ[s] /\ waitingQ'[s] = << >> BY <1>1, <1>5 DEF DataTypes, Spliced
  <2>5. readyQ[s] \in Seq(Ops) /\ waitingQ[s] \in Seq(Ops) BY <1>1 DEF DataTypes
  <2>6. readyQ[s] \o waitingQ[s] \in Seq(Ops) BY <2>5
  <2>7. (readyQ[s] \o waitingQ[s]) \o << >> = readyQ[s] \o waitingQ[s] BY <2>6
  <2> QED BY <2>2, <2>3, <2>4, <2>7
<1> QED BY <1>1, <1>7, <1>11, <1>12, SerialStutter DEF SameFor

\* Functions given to a strand begin one at a time, in the order they were
\* accepted, whatever the threads, the exceptions and the re-deferred invokers
\* do; only a thread inside the strand runs one out of turn (bits/strand.h,
\* README.md: "Not concurrent with any other function object sharing the
\* strand, and in FIFO order").
THEOREM StrandIsSerialQueue == Spec => ImplementsSerialQueue
<1>1. Init /\ Seen => Serial!Init
  <2> SUFFICES ASSUME Init, Seen PROVE Serial!Init
    OBVIOUS
  <2>1. \A s \in Strands, t \in Threads : ~Pushing(t, s) /\ ~InFunctionOf(t, s)
    BY DEF Init, Pushing, InFunctionOf
  <2>2. \A s \in Strands : Accepted(s) = readyQ[s] \o waitingQ[s] BY <2>1 DEF Seen, AcceptedIs
  <2>3. \A s \in Strands : Accepted(s) = << >> BY <2>2 DEF Init
  <2>4. \A s \in Strands : ActiveIn(s) = Idle BY <2>1 DEF Seen, ActiveIs
  <2> QED BY <2>3, <2>4 DEF Init, Serial!Init
<1>2. Facts /\ Seen' /\ [Next]_vars => [Serial!Next]_(Serial!vars)
  <2> SUFFICES ASSUME Facts, Seen', [Next]_vars PROVE Serial!Next \/ UNCHANGED Serial!vars
    OBVIOUS
  <2>1. CASE UNCHANGED vars
    <3>1. \A u \in Threads, z \in Strands : InFunctionOf(u, z)' <=> InFunctionOf(u, z)
      BY <2>1 DEF vars, InFunctionOf
    <3>2. \A u \in Threads, z \in Strands : Pushing(u, z)' <=> Pushing(u, z) BY <2>1 DEF vars, Pushing
    <3>3. UNCHANGED <<readyQ, waitingQ, fresh, call>> BY <2>1 DEF vars
    <3> QED BY <3>1, <3>2, <3>3, SerialKept
  <2>2. ASSUME NEW t \in Threads, NEW s \in Strands, NEW o \in Ops,
               RunInside(t, s, o) \/ \E k \in Kinds : Accept(t, k, s, o)
        PROVE  Serial!Next
    BY <2>2, RunInsideIs, AcceptIs DEF Serial!Next
  <2>3. ASSUME NEW t \in Threads, NEW place \in {"loop", "exit"}, FunctionOver(t, place)
        PROVE  Serial!Next \/ UNCHANGED Serial!vars
    BY <2>3, FunctionOverIs DEF Serial!Next
  <2>4. ASSUME NEW t \in Threads, RunNext(t)
        PROVE  Serial!Next
    BY <2>4, RunNextIs DEF Serial!Next
  <2> QED BY <2>1, <2>2, <2>3, <2>4, PushReadyIs, SubmitIs, StartIs, RedeferIs, OnExitIs
          DEF Next, Step, Return, Throw
<1>3. TypeOK /\ RightsInv /\ MannedInv /\ Seen => Facts BY DEF Facts
<1> QED BY <1>1, <1>2, <1>3, StrandInvariant, AbstractionIs, PTL DEF Spec, ImplementsSerialQueue, Serial!Spec
=============================================================================
