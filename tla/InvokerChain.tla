---------------------------- MODULE InvokerChain ----------------------------
(***************************************************************************)
(* post, dispatch and defer of a chain of functions (bits/invoker.h,       *)
(* post.h, dispatch.h, defer.h, chain.h, the chaining of function_traits.h *)
(* and continuation.h, promise_handler.h).  A function without an executor *)
(* of its own runs on that of the next one that has one.  While a function *)
(* is waiting for its turn, an active invoker holds an executor_work for   *)
(* it, so that the loop it is to run on does not return; the work is given *)
(* back when the frame that handed the function over is left.              *)
(*                                                                         *)
(* A plain function's result goes to the next one.  A passing function     *)
(* takes a continuation<> instead, which it calls before it returns, or    *)
(* leaves to be called, or dropped, by another thread.  The last token may *)
(* be use_future.                                                          *)
(***************************************************************************)
EXTENDS Integers, Sequences, FiniteSets

CONSTANTS Loops,     \* loop_schedulers, each run by one thread
          MaxStages  \* functions in the chain

ASSUME ChainAssumption == Loops \cap {"system", "main", "promise", "inherit", "nowhere"} = {}

VARIABLES own,      \* per function: its executor, or "inherit"
          kind,     \* per function: "plain" or "passing"
          launched,
          item,     \* the function object in an executor's queue
          stack,    \* per thread: the functions it is in, the innermost last
          cont,     \* per passing function: who has its continuation
          passed,   \* the passing functions whose continuation has been called
          held,     \* the functions for which an executor_work is held
          up,       \* the loops whose run() has not returned
          future    \* the promise of a last token use_future

chainVars == <<own, kind, launched, item, stack, cont, passed, held, up, future>>

Stages  == DOMAIN own
Length  == Len(own)
Threads == Loops \cup {"system", "main"}
Nowhere == [on |-> "nowhere", stage |-> 0, catch |-> FALSE]

ChainStart(lengths) ==
  /\ \E n \in lengths :
       /\ own \in [1 .. n -> Loops \cup {"system", "promise", "inherit"}]
       /\ \A k \in 1 .. n - 1 : own[k] # "promise"
       /\ kind \in [1 .. n -> {"plain", "passing"}] /\ kind[n] = "plain"
  /\ launched = FALSE /\ item = Nowhere /\ stack = [t \in Threads |-> <<>>]
  /\ cont = [k \in Stages |-> "none"] /\ passed = {} /\ held = {}
  /\ up = Loops
  /\ future = IF own[Len(own)] = "promise" THEN "pending" ELSE "none"

----------------------------------------------------------------------------
(* Executors.                                                              *)

\* associated_executor of an invoker: the handler's, the tail's by default.
ExecutorOf(k) ==
  LET having == {j \in k .. Length : own[j] # "inherit"}
  IN IF having = {} THEN "system" ELSE own[CHOOSE j \in having : \A i \in having : j <= i]

\* The promise executor runs a function where the system executor would, and
\* catches what it throws.
ThreadOf(e) == IF e = "promise" THEN "system" ELSE e

Frame(k, e) == [stage |-> k, catch |-> e = "promise", phase |-> IF k = 0 THEN "more" ELSE "call"]
Push(s, k, e) == Append(s, Frame(k, e))
Enqueue(k, e) == item' = [on |-> ThreadOf(e), stage |-> k, catch |-> e = "promise"]

\* dispatch on e, called by thread t, whose stack has become s: at once if t
\* is the loop's thread, and always on the system executor.
Dispatch(t, s, k, e) ==
  IF e \in Loops /\ t # e
  THEN Enqueue(k, e) /\ stack' = [stack EXCEPT ![t] = s]
  ELSE stack' = [stack EXCEPT ![t] = Push(s, k, e)] /\ UNCHANGED item

----------------------------------------------------------------------------
(* The launch.                                                             *)

\* Without an executor the head runs where its functions say; with one, an
\* active invoker (stage 0) is called there, which dispatches the head.
Launch(e, k, inline) ==
  /\ ~launched /\ launched' = TRUE
  /\ held' = (k + 1) .. Length
  /\ IF inline THEN Dispatch("main", stack["main"], k, e) ELSE Enqueue(k, e) /\ UNCHANGED stack
  /\ UNCHANGED <<own, kind, cont, passed, up, future>>

PostHead      == Launch(ExecutorOf(1), 1, FALSE)
Post(e)       == Launch(e, 0, FALSE)
DispatchHead  == Launch(ExecutorOf(1), 1, TRUE)
DispatchTo(e) == Launch(e, 0, TRUE)
\* Nobody's turn is changed by deferring from outside.
DeferHead     == Launch(ExecutorOf(1), 1, FALSE)
Defer(e)      == Launch(e, 0, FALSE)

----------------------------------------------------------------------------
(* Threads.                                                                *)

Running(t) == stack[t] # <<>>
Top(t)     == stack[t][Len(stack[t])]
Under(t)   == SubSeq(stack[t], 1, Len(stack[t]) - 1)
Phase(t, phase) == Append(Under(t), [Top(t) EXCEPT !.phase = phase])

Begin(t) ==
  /\ item.on = t /\ ~Running(t) /\ (t \in Loops => t \in up)
  /\ stack' = [stack EXCEPT ![t] =
       Push(@, item.stage, IF item.catch THEN "promise" ELSE t)]
  /\ item' = Nowhere
  /\ UNCHANGED <<own, kind, launched, cont, passed, held, up, future>>

Settle(outcome) == future' = IF future = "pending" THEN outcome ELSE "error"

\* A plain function returns; the last one may be the promise's.
CallPlain(t) ==
  /\ Running(t) /\ Top(t).phase = "call" /\ kind[Top(t).stage] = "plain"
  /\ own[Top(t).stage] = "promise" => future = "pending"
  /\ stack' = [stack EXCEPT ![t] = Phase(t, IF Top(t).stage = Length THEN "leave" ELSE "more")]
  /\ IF own[Top(t).stage] = "promise" THEN Settle("value") ELSE UNCHANGED future
  /\ UNCHANGED <<own, kind, launched, item, cont, passed, held, up>>

\* A passing function gets the rest of the chain, and keeps it until it
\* returns or leaves it with somebody else.
CallPassing(t, keeper) ==
  /\ Running(t) /\ Top(t).phase = "call" /\ kind[Top(t).stage] = "passing"
  /\ cont' = [cont EXCEPT ![Top(t).stage] = keeper]
  /\ stack' = [stack EXCEPT ![t] = Phase(t, "inside")]
  /\ UNCHANGED <<own, kind, launched, item, passed, held, up, future>>

\* mutant: the work is given up before the next function is handed over
ReleaseFirst(t) ==
  /\ Running(t) /\ Top(t).phase = "more"
  /\ IF Top(t).stage + 1 \in held
     THEN /\ held' = held \ {Top(t).stage + 1} /\ UNCHANGED <<item, stack>>
     ELSE /\ Dispatch(t, Phase(t, "leave"), Top(t).stage + 1, ExecutorOf(Top(t).stage + 1))
          /\ UNCHANGED held
  /\ UNCHANGED <<own, kind, launched, cont, passed, up, future>>
\* The active invoker of the next function is called.
HandOver(t) ==
  /\ Running(t) /\ Top(t).phase = "more"
  /\ Dispatch(t, Phase(t, "leave"), Top(t).stage + 1, ExecutorOf(Top(t).stage + 1))
  /\ UNCHANGED <<own, kind, launched, cont, passed, held, up, future>>

\* A continuation is called, by the function it was given to or by the client.
CallContinuation(t, k) ==
  /\ k \notin passed /\ passed' = passed \cup {k}
  /\ \/ cont[k] = "function" /\ Running(t) /\ Top(t).stage = k
     \/ cont[k] = "client" /\ t = "main" /\ ~Running(t)
  /\ Dispatch(t, stack[t], k + 1, ExecutorOf(k + 1))
  /\ UNCHANGED <<own, kind, launched, cont, held, up, future>>

\* What goes with a continuation, or with the frame of a plain function: the
\* work of the next one, and the rest of the chain if it was not handed over.
Goes(k, handed) == IF handed THEN {k + 1} ELSE (k + 1) .. Length

DropContinuation(k) ==
  /\ cont[k] = "client" /\ ~Running("main")
  /\ cont' = [cont EXCEPT ![k] = "gone"]
  /\ held' = held \ Goes(k, k \in passed)
  /\ UNCHANGED <<own, kind, launched, item, stack, passed, up, future>>

\* What a frame that is left, or unwound, takes with it.
Takes(f) ==
  IF f.stage \in Stages /\ cont[f.stage] \in {"client", "gone"} THEN {}
  ELSE Goes(f.stage, f.phase = "leave" \/ f.stage \in passed)

Loses(frames) == [k \in Stages |->
  IF cont[k] = "function" /\ \E f \in frames : f.stage = k THEN "gone" ELSE cont[k]]

\* The frame of a function is left; stage 0 is the active invoker of a launch.
Return(t) ==
  /\ Running(t) /\ Top(t).phase \in {"leave", "inside"}
  /\ held' = held \ Takes(Top(t))
  /\ cont' = Loses({Top(t)})
  /\ stack' = [stack EXCEPT ![t] = Under(t)]
  /\ UNCHANGED <<own, kind, launched, item, passed, up, future>>

\* mutant: what is caught is stored and thrown again
StoresAndThrows(n) ==
  IF n = 0 THEN UNCHANGED future ELSE IF n = 1 THEN Settle("exception") ELSE future' = "error"
\* What n promise executors on the way do with an exception: the innermost
\* stores it.
Catch(n) == IF n = 0 THEN UNCHANGED future ELSE Settle("exception")

\* A function throws: through the functions below it, up to a promise
\* executor, or out of run() or the launch.  A promise that is settled already
\* throws too, out of the executors that would catch it.  (What comes out of a
\* thread of the system executor ends the program; here the others go on.)
Throw(t) ==
  /\ Running(t) /\ Top(t).phase \in {"call", "inside"}
  /\ own[Top(t).stage] = "promise" => future # "pending"
  /\ LET s       == stack[t]
         catches == {i \in 1 .. Len(s) : s[i].catch}
         to      == IF catches = {} \/ future \in {"value", "exception", "error"} THEN 0
                    ELSE (CHOOSE i \in catches : \A j \in catches : j <= i) - 1
         lost    == {s[i] : i \in to + 1 .. Len(s)}
     IN /\ stack' = [stack EXCEPT ![t] = SubSeq(s, 1, to)]
        /\ held' = held \ UNION {Takes(f) : f \in lost}
        /\ cont' = Loses(lost)
        /\ Catch(Cardinality(catches))
  /\ UNCHANGED <<own, kind, launched, item, passed, up>>

\* run() returns when the loop has no work: operations queued or running, and
\* what the invokers hold.  It is called once the chain has been launched.
Busy(l) == item.on = l \/ Running(l) \/ \E k \in held : ExecutorOf(k) = l

LoopReturns(l) ==
  /\ l \in up /\ launched /\ ~Busy(l)
  /\ up' = up \ {l}
  /\ UNCHANGED <<own, kind, launched, item, stack, cont, passed, held, future>>

\* What threads do without anybody's calling them.
ChainGoes ==
  \/ \E t \in Threads :
       \/ Begin(t) \/ CallPlain(t) \/ HandOver(t) \/ Return(t) \/ Throw(t)
       \/ \E keeper \in {"function", "client"} : CallPassing(t, keeper)
  \/ \E l \in Loops : LoopReturns(l)

ChainNext ==
  \/ ChainGoes
  \/ PostHead \/ DispatchHead \/ DeferHead
  \/ \E e \in Loops \cup {"system"} : Post(e) \/ DispatchTo(e) \/ Defer(e)
  \/ \E t \in Threads, k \in Stages : CallContinuation(t, k)
  \/ \E k \in Stages : DropContinuation(k)

ChainSpec == ChainStart(Nat \ {0}) /\ [][ChainNext]_chainVars

----------------------------------------------------------------------------
(* Properties.                                                             *)

ChainTypeOK ==
  /\ own \in Seq(Loops \cup {"system", "promise", "inherit"})
  /\ kind \in [Stages -> {"plain", "passing"}]
  /\ launched \in BOOLEAN
  /\ item \in [on : Threads \cup {"nowhere"}, stage : 0 .. Length, catch : BOOLEAN]
  /\ stack \in [Threads -> Seq([stage : 0 .. Length, catch : BOOLEAN,
                                phase : {"call", "more", "inside", "leave"}])]
  /\ cont \in [Stages -> {"none", "function", "client", "gone"}]
  /\ passed \subseteq Stages /\ held \subseteq Stages /\ up \subseteq Loops
  /\ future \in {"none", "pending", "value", "exception", "error"}

\* No function of a chain is handed to a loop that has returned, whichever
\* threads the functions before it ran on, whether they threw, and however long
\* a continuation was kept (invoker.h:35-50, 218-221; continuation.h:225-235).
NeverStranded ==
  /\ item.on \in Loops => item.on \in up
  /\ \A k \in held : ExecutorOf(k) \in Loops => ExecutorOf(k) \in up

\* The promise is settled once, unless a function throws after the continuation
\* it was given has settled it (promise_handler.h:44): then the exception
\* handler itself throws.
SettledOnce == future = "error" => passed # {}

\* Both: what runs of a chain has a loop to run in, and its outcome is told once
\* (invoker.h:35-50, promise_handler.h:36-51).
ChainSound == NeverStranded /\ SettledOnce

Over == launched /\ item = Nowhere /\ held = {} /\ \A t \in Threads : ~Running(t)
=============================================================================
