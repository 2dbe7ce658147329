------------------------------- MODULE Strand -------------------------------
(***************************************************************************)
(* strand<Executor> (bits/strand.h): functions given to the same strand    *)
(* never run concurrently and run in the order they were accepted.  The    *)
(* strand keeps a ready flag, a waiting queue and a ready queue; the       *)
(* spinlock guards the flag and the waiting queue, while the ready queue   *)
(* is used without it by whoever set the flag.  An invoker, of which the   *)
(* strand has one under way whenever the flag is set, drains the ready     *)
(* queue in a thread of the inner executor.                                *)
(*                                                                         *)
(* The inner executor is any executor: it runs each invoker once, in any   *)
(* thread, and runs it before dispatch returns or later as it likes.       *)
(*                                                                         *)
(* stack[t] holds, innermost last, the strand functions that thread t is   *)
(* in.  A frame is an invoker's ("loop" while it drains the queue, "exit"  *)
(* when an exception unwinds it, "defer" when it has to be submitted       *)
(* again) or that of a function that dispatch called directly ("inline").  *)
(***************************************************************************)
EXTENDS Integers, Sequences, FiniteSets

CONSTANTS Threads, Strands, Ops, NoOp, NoCall, Idle

ASSUME StrandAssumption ==
  /\ NoOp \notin Ops
  /\ Idle \notin Threads
  /\ NoCall \notin [at : {"push", "submit"}, kind : {"dispatch", "post", "defer"},
                    strand : Strands, op : Ops]

VARIABLES ready,      \* _M_ready
          waitingQ,   \* _M_waiting_queue
          readyQ,     \* _M_ready_queue
          inner,      \* invokers of the strand queued in the inner executor
          stack,      \* per thread, see above
          call,       \* per thread: the submission it is half way through
          fresh,      \* functions not yet submitted
          done        \* functions that returned or threw

vars == <<ready, waitingQ, readyQ, inner, stack, call, fresh, done>>

Kinds  == {"dispatch", "post", "defer"}
Frames == [strand : Strands, at : {"loop", "exit", "defer", "inline"},
           op : Ops \cup {NoOp}]
CallRecords == [at : {"push", "submit"}, kind : Kinds, strand : Strands, op : Ops]

Init ==
  /\ ready = [s \in Strands |-> FALSE]
  /\ waitingQ = [s \in Strands |-> << >>]
  /\ readyQ = [s \in Strands |-> << >>]
  /\ inner = [s \in Strands |-> 0]
  /\ stack = [t \in Threads |-> << >>]
  /\ call = [t \in Threads |-> NoCall]
  /\ fresh = Ops
  /\ done = {}

Top(t)   == stack[t][Len(stack[t])]
Under(t) == SubSeq(stack[t], 1, Len(stack[t]) - 1)

\* The same stack with another innermost frame.
WithTop(t, frame) == [stack EXCEPT ![t] = Append(Under(t), frame)]
Pushed(t, frame)  == [stack EXCEPT ![t] = Append(@, frame)]
Popped(t)         == [stack EXCEPT ![t] = Under(t)]

Invoker(s) == [strand |-> s, at |-> "loop", op |-> NoOp]

\* Thread t is in user code: outside every strand, or in a function of one.
InUserCode(t) ==
  /\ call[t] = NoCall
  /\ stack[t] # << >> => Top(t).op # NoOp

\* __call_stack<__strand_impl>::_Contains
Contains(t, s) == \E i \in DOMAIN stack[t] : stack[t][i].strand = s

----------------------------------------------------------------------------
(* Submission.                                                             *)

\* dispatch from inside the strand: the function is called directly.
RunInside(t, s, o) ==
  /\ InUserCode(t) /\ Contains(t, s)
  /\ o \in fresh
  /\ fresh' = fresh \ {o}
  /\ stack' = Pushed(t, [strand |-> s, at |-> "inline", op |-> o])
  /\ UNCHANGED <<ready, waitingQ, readyQ, inner, call, done>>

IgnoresReady(s) == FALSE    \* mutant: the flag is not looked at
IsReady(s) == ready[s]

\* The critical section: join the waiting queue, or set the flag and go on
\* to schedule an invoker.
Accept(t, kind, s, o) ==
  /\ InUserCode(t)
  /\ kind = "dispatch" => ~Contains(t, s)
  /\ o \in fresh
  /\ fresh' = fresh \ {o}
  /\ \/ /\ IsReady(s)
        /\ waitingQ' = [waitingQ EXCEPT ![s] = Append(@, o)]
        /\ UNCHANGED <<ready, call>>
     \/ /\ ~IsReady(s)
        /\ ready' = [ready EXCEPT ![s] = TRUE]
        /\ call' = [call EXCEPT ![t] =
             [at |-> "push", kind |-> kind, strand |-> s, op |-> o]]
        /\ UNCHANGED waitingQ
  /\ UNCHANGED <<readyQ, inner, stack, done>>

\* Outside the critical section: the first function of the ready queue ...
PushReady(t) ==
  /\ call[t] # NoCall /\ call[t].at = "push"
  /\ readyQ' = [readyQ EXCEPT ![call[t].strand] = Append(@, call[t].op)]
  /\ call' = [call EXCEPT ![t].at = "submit"]
  /\ UNCHANGED <<ready, waitingQ, inner, stack, fresh, done>>

\* ... and the invoker, given to the inner executor; its dispatch may run it.
Submit(t) ==
  /\ call[t] # NoCall /\ call[t].at = "submit"
  /\ call' = [call EXCEPT ![t] = NoCall]
  /\ \/ /\ inner' = [inner EXCEPT ![call[t].strand] = @ + 1]
        /\ UNCHANGED stack
     \/ /\ call[t].kind = "dispatch"
        /\ stack' = Pushed(t, Invoker(call[t].strand))
        /\ UNCHANGED inner
  /\ UNCHANGED <<ready, waitingQ, readyQ, fresh, done>>

----------------------------------------------------------------------------
(* The invoker.                                                            *)

\* A thread of the inner executor takes up an invoker.
Start(t, s) ==
  /\ inner[s] > 0
  /\ stack[t] = << >> /\ call[t] = NoCall
  /\ inner' = [inner EXCEPT ![s] = @ - 1]
  /\ stack' = Pushed(t, Invoker(s))
  /\ UNCHANGED <<ready, waitingQ, readyQ, call, fresh, done>>

InvokerAt(t, place) ==
  /\ stack[t] # << >> /\ call[t] = NoCall
  /\ Top(t).at = place /\ Top(t).op = NoOp

RunNext(t) ==
  /\ InvokerAt(t, "loop")
  /\ LET s == Top(t).strand IN
       /\ readyQ[s] # << >>
       /\ stack' = WithTop(t, [Top(t) EXCEPT !.op = Head(readyQ[s])])
       /\ readyQ' = [readyQ EXCEPT ![s] = Tail(@)]
  /\ UNCHANGED <<ready, waitingQ, inner, call, fresh, done>>

FrameAfter(t, place) == [Top(t) EXCEPT !.at = place, !.op = NoOp]

\* The innermost function is over: back into the invoker, whose loop goes on
\* after a return and is left by an exception, or into the dispatch that
\* called it.
FunctionOver(t, place) ==
  /\ stack[t] # << >> /\ InUserCode(t)
  /\ done' = done \cup {Top(t).op}
  /\ stack' = IF Top(t).at = "inline" THEN Popped(t)
              ELSE WithTop(t, FrameAfter(t, place))
  /\ UNCHANGED <<ready, waitingQ, readyQ, inner, call, fresh>>

Return(t) == FunctionOver(t, "loop")
Throw(t)  == FunctionOver(t, "exit")

SplicedInFront(s) == waitingQ[s] \o readyQ[s]    \* mutant
Spliced(s) == readyQ[s] \o waitingQ[s]
NoneLeft(s) == FALSE    \* mutant: the flag is cleared whatever is left
More(s) == Spliced(s) # << >>

\* _On_exit's critical section: the waiting functions become ready, and the
\* flag is cleared if there are none.
OnExit(t) ==
  /\ stack[t] # << >>
  /\ InvokerAt(t, "exit") \/ (InvokerAt(t, "loop") /\ readyQ[Top(t).strand] = << >>)
  /\ LET s == Top(t).strand IN
       /\ readyQ' = [readyQ EXCEPT ![s] = Spliced(s)]
       /\ waitingQ' = [waitingQ EXCEPT ![s] = << >>]
       /\ ready' = [ready EXCEPT ![s] = More(s)]
       /\ stack' = IF More(s) THEN WithTop(t, [Top(t) EXCEPT !.at = "defer"])
                   ELSE Popped(t)
  /\ UNCHANGED <<inner, call, fresh, done>>

\* The invoker is deferred to the inner executor, and its frame is left.
Redefer(t) ==
  /\ InvokerAt(t, "defer")
  /\ inner' = [inner EXCEPT ![Top(t).strand] = @ + 1]
  /\ stack' = Popped(t)
  /\ UNCHANGED <<ready, waitingQ, readyQ, call, fresh, done>>

----------------------------------------------------------------------------
\* What a thread does without the program's choosing.
Step(t) ==
  \/ PushReady(t) \/ Submit(t)
  \/ RunNext(t) \/ Return(t) \/ OnExit(t) \/ Redefer(t)

Next ==
  \E t \in Threads :
    \/ \E s \in Strands, o \in Ops :
         RunInside(t, s, o) \/ \E kind \in Kinds : Accept(t, kind, s, o)
    \/ \E s \in Strands : Start(t, s)
    \/ Throw(t) \/ Step(t)

\* Functions end, and the inner executor runs what it was given.
Fairness ==
  /\ \A t \in Threads : WF_vars(Step(t))
  /\ \A s \in Strands : WF_vars(\E t \in Threads : Start(t, s))

Spec == Init /\ [][Next]_vars /\ Fairness

----------------------------------------------------------------------------
(* Properties.                                                             *)

InFunctionOf(t, s) == \E i \in DOMAIN stack[t] :
                        stack[t][i].strand = s /\ stack[t][i].op # NoOp

FlagTypes == ready \in [Strands -> BOOLEAN]

DataTypes ==
  /\ waitingQ \in [Strands -> Seq(Ops)]
  /\ readyQ \in [Strands -> Seq(Ops)]
  /\ inner \in [Strands -> Nat]
  /\ stack \in [Threads -> Seq(Frames)]
  /\ call \in [Threads -> CallRecords \cup {NoCall}]
  /\ fresh \subseteq Ops /\ done \subseteq Ops

UserFrame(f)    == f.op # NoOp /\ f.at \in {"loop", "inline"}
InvokerFrame(f) == f.op = NoOp /\ f.at # "inline"

StackShape ==
  \A t \in Threads : \A i \in DOMAIN stack[t] :
    \/ UserFrame(stack[t][i])
    \/ InvokerFrame(stack[t][i]) /\ i = Len(stack[t]) /\ call[t] = NoCall

\* The type of every variable; only the innermost frame of a stack can be
\* between two functions, and a thread half way through a submission is in
\* user code.
TypeOK == FlagTypes /\ DataTypes /\ StackShape

\* No two threads are in functions of the same strand (README.md: "Not
\* concurrent with any other function object sharing the strand").
MutualExclusion ==
  \A s \in Strands : \A t, u \in Threads :
    InFunctionOf(t, s) /\ InFunctionOf(u, s) => t = u

\* Who may touch the ready queue of s without the lock: a call that set the
\* flag, a queued invoker, a running invoker.
Owners(s) ==
  {<<"inner", i>> : i \in 1 .. inner[s]}
    \cup {<<"call", t>> : t \in {u \in Threads : call[u] # NoCall /\ call[u].strand = s}}
    \cup UNION {{<<t, i>> : i \in {j \in DOMAIN stack[t] :
                   stack[t][j].strand = s /\ stack[t][j].at # "inline"}} : t \in Threads}

\* The flag is set exactly while there is one such owner: so the ready queue
\* has a single user, and no accepted function is left without an invoker
\* on its way to it (strand.h:296 against :337 and the two-step submission
\* of :343-351).
OneInvoker ==
  \A s \in Strands :
    /\ Cardinality(Owners(s)) = IF ready[s] THEN 1 ELSE 0
    /\ waitingQ[s] \o readyQ[s] # << >> => ready[s]

\* The strand is a serial FIFO queue: functions begin in the order of the
\* critical sections that accepted them, across re-deferred invokers,
\* exceptions and the hand-over of the waiting queue (strand.h:295, :307-319).
Accepted(s) ==
  readyQ[s]
    \o (IF \E t \in Threads : call[t] # NoCall /\ call[t].strand = s /\ call[t].at = "push"
        THEN <<(CHOOSE c \in {call[t] : t \in Threads} \ {NoCall} :
                  c.strand = s /\ c.at = "push").op>>
        ELSE << >>)
    \o waitingQ[s]

ActiveIn(s) ==
  IF \E t \in Threads : InFunctionOf(t, s)
  THEN CHOOSE t \in Threads : InFunctionOf(t, s)
  ELSE Idle

Serial == INSTANCE SerialQueue WITH
  fifo <- [s \in Strands |-> Accepted(s)],
  active <- [s \in Strands |-> ActiveIn(s)]

ImplementsSerialQueue == Serial!Spec

\* Every accepted function is run, by some thread, whatever functions throw.
AcceptedRuns == \A o \in Ops : o \notin fresh ~> o \in done
=============================================================================
