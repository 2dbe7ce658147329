------------------------------ MODULE Pipeline ------------------------------
(***************************************************************************)
(* The pipeline of examples/executor/pipeline.cpp.  Each function runs on  *)
(* a thread of its own, made by a thread_executor, or on a pool that it is *)
(* wrapped with.  Between two of them is a queue that the first fills and  *)
(* stops and the second empties.  main launches them from the first to the *)
(* last, whose end makes its future ready, and leaves.                     *)
(***************************************************************************)
EXTENDS Integers, Sequences

CONSTANTS MaxFunctions,
          Pooled,      \* the functions that are wrapped with a pool
          Lines        \* lines of input

ASSUME PipelineAssumption == MaxFunctions \in Nat /\ Lines \in Nat

VARIABLES functions,   \* how many there are
          function,    \* what becomes of each
          unread,      \* lines not yet read
          line,        \* per function: the line it has, or 0
          between,     \* queue_ behind each function
          stops,       \* functions behind which stop_ is set
          popping,     \* functions that wait in pop
          bag,         \* thread_bag::threads_: functions whose threads are in it
          made,        \* a function whose thread main has yet to add, or 0
          written,     \* what the last function has written
          filtered,    \* lines that a function has kept to itself
          maker        \* main: "launching", "waiting", "leaving" or "left"

pipeVars == <<functions, function, unread, line, between, stops, popping, bag, made,
              written, filtered, maker>>

Functions == 1 .. functions

PipeStart(counts) ==
  /\ functions \in counts
  /\ function = [k \in 1 .. MaxFunctions |-> "new"]
  /\ unread = [n \in 1 .. Lines |-> n] /\ line = [k \in 1 .. MaxFunctions |-> 0]
  /\ between = [k \in 1 .. MaxFunctions |-> <<>>] /\ stops = {} /\ popping = {}
  /\ bag = {} /\ made = 0 /\ written = <<>> /\ filtered = {} /\ maker = "launching"

Becomes(k, state) == function' = [function EXCEPT ![k] = state]

----------------------------------------------------------------------------
(* main: pipeline(...) and the future.                                     *)

\* The executor that is associated with the function, or a thread_executor: its
\* post makes the thread, and adds it to the bag afterwards.
PostFunctionOn(k) ==
  IF k \in Pooled
  THEN Becomes(k, "posted") /\ UNCHANGED made
  ELSE Becomes(k, "running") /\ made' = k

LaunchNext(k) ==
  /\ maker = "launching" /\ made = 0
  /\ function[k] = "new" /\ \A j \in 1 .. k - 1 : function[j] # "new"
  /\ PostFunctionOn(k)
  /\ UNCHANGED <<functions, unread, line, between, stops, popping, bag, written, filtered, maker>>

\* The overloads of pipeline: with the queue behind the function, if it has one.
LaunchFirst       == LaunchNext(1)
LaunchBetween(k)  == 1 < k /\ k < functions /\ LaunchNext(k)
LaunchLast        == LaunchNext(functions)

AddThread ==
  /\ made # 0 /\ bag' = bag \cup {made} /\ made' = 0
  /\ UNCHANGED <<functions, function, unread, line, between, stops, popping, written, filtered, maker>>

AwaitFuture ==
  /\ \/ maker = "launching" /\ made = 0 /\ function[functions] # "new" /\ maker' = "waiting"
     \/ maker = "waiting" /\ function[functions] = "ended" /\ maker' = "leaving"
  /\ UNCHANGED <<functions, function, unread, line, between, stops, popping, bag, made, written, filtered>>

\* The pool is destroyed, then the system's context, which shuts down the bag.
JoinThreads ==
  /\ maker = "leaving"
  /\ \A k \in bag \cup {j \in Functions : j \in Pooled} : function[k] = "ended"
  /\ maker' = "left"
  /\ UNCHANGED <<functions, function, unread, line, between, stops, popping, bag, made, written, filtered>>

----------------------------------------------------------------------------
(* The queues, with mutex_ held.                                           *)

PushLine(k, x) ==
  /\ between' = [between EXCEPT ![k] = Append(@, x)] /\ popping' = popping \ {k + 1}

\* mutant: pop looks at stop_ first
StopFirst(k) == k \in stops
NoMore(k) == between[k] = <<>> /\ k \in stops

\* Once pop has nothing more to return the function returns too.
Pop(k) ==
  /\ k > 1 /\ k \in Functions /\ function[k] = "running" /\ line[k] = 0 /\ k \notin popping
  /\ \/ NoMore(k - 1) /\ Becomes(k, "returned") /\ UNCHANGED <<line, between, popping>>
     \/ /\ ~NoMore(k - 1) /\ between[k - 1] # <<>>
        /\ line' = [line EXCEPT ![k] = Head(between[k - 1])]
        /\ between' = [between EXCEPT ![k - 1] = Tail(@)]
        /\ UNCHANGED <<function, popping>>
     \/ /\ ~NoMore(k - 1) /\ between[k - 1] = <<>>
        /\ popping' = popping \cup {k} /\ UNCHANGED <<function, line, between>>
  /\ UNCHANGED <<functions, unread, stops, bag, made, written, filtered, maker>>

----------------------------------------------------------------------------
(* The functions.                                                          *)

RunPosted(k) ==
  /\ function[k] = "posted" /\ Becomes(k, "running")
  /\ UNCHANGED <<functions, unread, line, between, stops, popping, bag, made, written, filtered, maker>>

Reader ==
  /\ function[1] = "running"
  /\ IF unread = <<>>
     THEN Becomes(1, "returned") /\ UNCHANGED <<unread, between, popping>>
     ELSE PushLine(1, Head(unread)) /\ unread' = Tail(unread) /\ UNCHANGED function
  /\ UNCHANGED <<functions, line, stops, bag, made, written, filtered, maker>>

\* filter, which may keep a line, and upper.
Filter(k) ==
  /\ 1 < k /\ k < functions /\ line[k] # 0
  /\ line' = [line EXCEPT ![k] = 0]
  /\ \/ PushLine(k, line[k]) /\ UNCHANGED filtered
     \/ filtered' = filtered \cup {line[k]} /\ UNCHANGED <<between, popping>>
  /\ UNCHANGED <<functions, function, unread, stops, bag, made, written, maker>>

Writer ==
  /\ line[functions] # 0
  /\ written' = Append(written, line[functions]) /\ line' = [line EXCEPT ![functions] = 0]
  /\ UNCHANGED <<functions, function, unread, between, stops, popping, bag, made, filtered, maker>>

\* Behind the last function there is no queue but the future.
StopQueue(k) ==
  /\ function[k] = "returned" /\ Becomes(k, "ended")
  /\ stops' = stops \cup {k} /\ popping' = popping \ {k + 1}
  /\ UNCHANGED <<functions, unread, line, between, bag, made, written, filtered, maker>>

PipeNext ==
  \/ AddThread \/ AwaitFuture \/ JoinThreads \/ Reader \/ Writer
  \/ LaunchFirst \/ LaunchLast
  \/ \E k \in Functions : LaunchBetween(k) \/ Pop(k) \/ RunPosted(k) \/ Filter(k) \/ StopQueue(k)

PipeSpec == PipeStart(2 .. MaxFunctions) /\ [][PipeNext]_pipeVars

----------------------------------------------------------------------------
(* Properties.                                                             *)

PipeTypeOK ==
  /\ functions \in 2 .. MaxFunctions
  /\ function \in [1 .. MaxFunctions -> {"new", "posted", "running", "returned", "ended"}]
  /\ unread \in Seq(1 .. Lines) /\ line \in [1 .. MaxFunctions -> 0 .. Lines]
  /\ between \in [1 .. MaxFunctions -> Seq(1 .. Lines)]
  /\ stops \subseteq Functions /\ popping \subseteq Functions /\ bag \subseteq Functions
  /\ made \in 0 .. MaxFunctions /\ written \in Seq(1 .. Lines) /\ filtered \subseteq 1 .. Lines
  /\ maker \in {"launching", "waiting", "leaving", "left"}

\* What is in the hands of function k and in front of it, and behind the last.
AtFunction(k) ==
  IF k > functions THEN written
  ELSE (IF line[k] = 0 THEN <<>> ELSE <<line[k]>>) \o (IF k = 1 THEN unread ELSE between[k - 1])

InOrder ==
  \A j, k \in 1 .. functions + 1 :
    \A x \in 1 .. Len(AtFunction(j)), y \in 1 .. Len(AtFunction(k)) :
      k < j \/ (k = j /\ x < y) => AtFunction(j)[x] < AtFunction(k)[y]

Somewhere(n) == \E k \in 1 .. functions + 1 : \E x \in 1 .. Len(AtFunction(k)) : AtFunction(k)[x] = n

\* Every line that was read, and that no function kept, is written or on its way
\* to the writer, once and in the order of the input; and nothing is on its way
\* when the future is ready, by when every thread has been started and is joined
\* by the bag, which is what main and the end of the process rely on
\* (pipeline.cpp:42, 74-75, 161-173, 207-211).
LinesInOrder ==
  /\ InOrder /\ \A n \in 1 .. Lines : Somewhere(n) <=> n \notin filtered
  /\ function[functions] = "ended" => \A k \in Functions : AtFunction(k) = <<>>
  /\ maker = "left" => \A k \in Functions : function[k] = "ended"
=============================================================================
