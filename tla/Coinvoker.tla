----------------------------- MODULE Coinvoker -----------------------------
(***************************************************************************)
(* copost, codispatch and codefer (bits/coinvoker.h, copost.h,             *)
(* codispatch.h, codefer.h): a call with several heads and one tail.  The  *)
(* launcher makes the tail and one function object per head, each of which *)
(* points to the tail, and hands the heads to their executors one by one;  *)
(* the tail is deleted by whoever brings its counter to zero.              *)
(*                                                                         *)
(* A head ends in one of two ways: with a value, in two steps (the value   *)
(* is stored, then the counter goes down), or by being destroyed, because  *)
(* its executor was, because its function threw, or because the launcher   *)
(* could not hand it over.  Heads end on different threads.                *)
(***************************************************************************)
EXTENDS Integers, FiniteSets

CONSTANTS MaxHeads,   \* a call has up to MaxHeads heads
          Wrap        \* size_t has this many values

ASSUME CoinvokerAssumption == MaxHeads \in Nat /\ Wrap \in Nat /\ Wrap > MaxHeads

VARIABLES call,       \* "copost", "codispatch" or "codefer"
          head,       \* what becomes of each head
          value,      \* the results that have been set
          launch,     \* the launcher's thread
          handed,     \* heads handed over so far
          inline,     \* the head the launcher's thread is running, or 0
          pending,    \* __coinvoker_tail::_M_pending
          tail,       \* who owns the tail: "launcher", "heads", or "freed"
          join,       \* the tail's invoker: "waiting", "called" or "dropped"
          incomplete  \* the tail was called without a value: the assert at :58

coinvokerVars ==
  <<call, head, value, launch, handed, inline, pending, tail, join, incomplete>>

Heads == DOMAIN head
Calls == {"copost", "codispatch", "codefer"}

\* A head that is built but not handed over, with its executor, running, past
\* _Set_value with the counter still to go down, or gone.
HeadStates == {"built", "queued", "running", "set", "value", "dropped"}
PointsToTail(h)  == head[h] \in {"built", "queued", "running", "set"}

CoStart(sizes, calls) ==
  /\ call \in calls
  /\ \E n \in sizes : head = [h \in 1 .. n |-> "built"]
  /\ value = {} /\ launch = "primed" /\ handed = 0 /\ inline = 0
  /\ pending = 0 /\ tail = "launcher" /\ join = "waiting" /\ incomplete = FALSE

CoinvokerInit == CoStart(0 .. MaxHeads, Calls)

----------------------------------------------------------------------------
(* The tail.                                                               *)

\* _Dispatch asks every result for its value and calls the invoker; the tail
\* is deleted on the way out.
DispatchTail(values) ==
  /\ join' = "called" /\ tail' = "freed"
  /\ incomplete' = (values # Heads)

CountDown(k) == (pending - k) % Wrap

ReleaseHead(h) ==
  /\ pending' = CountDown(1)
  /\ IF pending = 1 THEN tail' = "freed" /\ join' = "dropped" ELSE UNCHANGED <<tail, join>>

LastOfOne(h) == CountDown(1) = 1    \* mutant: compares the value after
IsLast(h) == pending = 1

Complete(h) ==
  /\ pending' = CountDown(1)
  /\ IF IsLast(h) THEN DispatchTail(value) ELSE UNCHANGED <<tail, join, incomplete>>

----------------------------------------------------------------------------
(* The launcher.                                                           *)

\* A head's constructor throws: those already built are destroyed and count
\* down from zero, the launcher's unique_ptr deletes the tail.
CoLaunchFails ==
  /\ launch = "primed"
  /\ \E k \in 0 .. Cardinality(Heads) : pending' = CountDown(k)
  /\ head' = [h \in Heads |-> "dropped"]
  /\ tail' = "freed" /\ join' = "dropped" /\ launch' = "thrown"
  /\ UNCHANGED <<call, value, handed, inline, incomplete>>

\* mutant: the counter starts at the heads already handed over
PrimeLate ==
  /\ launch = "primed" /\ Heads # {}
  /\ pending' = 1 /\ tail' = "heads" /\ launch' = "handing"
  /\ UNCHANGED <<call, head, value, handed, inline, join, incomplete>>
Prime ==
  /\ launch = "primed" /\ launch' = "handing"
  /\ \/ /\ Heads # {}
        /\ pending' = Cardinality(Heads) /\ tail' = "heads"
        /\ UNCHANGED <<join, incomplete>>
     \/ Heads = {} /\ DispatchTail({}) /\ UNCHANGED pending
  /\ UNCHANGED <<call, head, value, handed, inline>>

\* The head the launcher is about to hand over.
HandsOver(h) == launch = "handing" /\ inline = 0 /\ h = handed + 1 /\ h \in Heads

QueueHead(h) ==
  /\ head' = [head EXCEPT ![h] = "queued"] /\ handed' = h
  /\ UNCHANGED <<call, value, launch, inline, pending, tail, join, incomplete>>

CoPost(h)  == call = "copost" /\ HandsOver(h) /\ QueueHead(h)
CoDefer(h) == call = "codefer" /\ HandsOver(h) /\ QueueHead(h)

\* The executor may run the head inside the call.
CoDispatch(h) ==
  /\ call = "codispatch" /\ HandsOver(h)
  /\ \/ QueueHead(h)
     \/ /\ head' = [head EXCEPT ![h] = "running"] /\ handed' = h /\ inline' = h
        /\ UNCHANGED <<call, value, launch, pending, tail, join, incomplete>>

\* The executor throws: the head and those after it are destroyed.
HandOverFails(h) ==
  /\ HandsOver(h)
  /\ launch' = "unwinding"
  /\ UNCHANGED <<call, head, value, handed, inline, pending, tail, join, incomplete>>

UnwindHead(h) ==
  /\ launch = "unwinding" /\ head[h] = "built"
  /\ head' = [head EXCEPT ![h] = "dropped"]
  /\ ReleaseHead(h)
  /\ UNCHANGED <<call, value, launch, handed, inline, incomplete>>

CoLaunchEnds ==
  /\ \/ launch = "handing" /\ inline = 0 /\ handed = Cardinality(Heads) /\ launch' = "returned"
     \/ launch = "unwinding" /\ (\A h \in Heads : head[h] # "built") /\ launch' = "thrown"
  /\ UNCHANGED <<call, head, value, handed, inline, pending, tail, join, incomplete>>

----------------------------------------------------------------------------
(* A head.                                                                 *)

BeginHead(h) ==
  /\ head[h] = "queued" /\ head' = [head EXCEPT ![h] = "running"]
  /\ UNCHANGED <<call, value, launch, handed, inline, pending, tail, join, incomplete>>

\* The executor is destroyed with the head still in its queue.
DiscardHead(h) ==
  /\ head[h] = "queued" /\ head' = [head EXCEPT ![h] = "dropped"]
  /\ ReleaseHead(h)
  /\ UNCHANGED <<call, value, launch, handed, inline, incomplete>>

\* The head's function throws; inside the call the launcher unwinds too.
ThrowHead(h) ==
  /\ head[h] = "running" /\ head' = [head EXCEPT ![h] = "dropped"]
  /\ ReleaseHead(h)
  /\ IF inline = h THEN inline' = 0 /\ launch' = "unwinding" ELSE UNCHANGED <<inline, launch>>
  /\ UNCHANGED <<call, value, handed, incomplete>>

SetResult(h) ==
  /\ head[h] = "running" /\ head' = [head EXCEPT ![h] = "set"]
  /\ value' = value \cup {h}
  /\ UNCHANGED <<call, launch, handed, inline, pending, tail, join, incomplete>>

EndWithValue(h) ==
  /\ head[h] = "set" /\ head' = [head EXCEPT ![h] = "value"]
  /\ Complete(h)
  /\ inline' = IF inline = h THEN 0 ELSE inline
  /\ UNCHANGED <<call, value, launch, handed>>

CoinvokerNext ==
  \/ CoLaunchFails \/ Prime \/ CoLaunchEnds
  \/ \E h \in Heads :
       \/ CoPost(h) \/ CoDispatch(h) \/ CoDefer(h) \/ HandOverFails(h) \/ UnwindHead(h)
       \/ BeginHead(h) \/ DiscardHead(h) \/ ThrowHead(h) \/ SetResult(h) \/ EndWithValue(h)

CoinvokerSpec == CoinvokerInit /\ [][CoinvokerNext]_coinvokerVars

----------------------------------------------------------------------------
(* Properties.                                                             *)

CoinvokerTypeOK ==
  /\ call \in Calls
  /\ head \in UNION {[1 .. n -> HeadStates] : n \in 0 .. MaxHeads}
  /\ value \subseteq Heads
  /\ launch \in {"primed", "handing", "unwinding", "returned", "thrown"}
  /\ handed \in 0 .. MaxHeads /\ inline \in 0 .. MaxHeads
  /\ pending \in 0 .. Wrap - 1
  /\ tail \in {"launcher", "heads", "freed"}
  /\ join \in {"waiting", "called", "dropped"}
  /\ incomplete \in BOOLEAN

\* The counter is the number of heads that still point to the tail, whatever
\* threads end them and however far the launcher has come, so that the tail is
\* deleted once and by the last of them (coinvoker.h:83-114): none is left
\* behind with a pointer to it, and it is not leaked.
PendingCountsHeads ==
  /\ tail = "heads" => pending = Cardinality({h \in Heads : PointsToTail(h)}) /\ pending > 0
  /\ tail = "freed" => \A h \in Heads : ~PointsToTail(h)

\* Unless a head that was dropped is followed by one that ends last with a
\* value, the calls are a fork and a join: the tail is called once, by the
\* last head, with all the values (coinvoker.h:101-132).  (The assert of
\* _Get_value, coinvoker.h:58, is what the exempted step fails.)
Promised == INSTANCE ForkJoin WITH
  ended <- [h \in Heads |-> IF head[h] \in {"value", "dropped"} THEN head[h] ELSE "no"]

ImplementsForkJoin ==
  Promised!Init /\ [][Promised!Next \/ incomplete']_(Promised!vars)

\* What the assertion of _Get_value says (coinvoker.h:58): when the tail is
\* called, every head has stored its value.
EveryValueIsThere == ~incomplete
=============================================================================
