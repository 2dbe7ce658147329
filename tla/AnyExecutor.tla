----------------------------- MODULE AnyExecutor -----------------------------
(***************************************************************************)
(* The polymorphic executor (bits/executor.h) and the executor_work made   *)
(* of one (bits/executor_work.h).  An executor points to an implementation *)
(* object: one shared by all system executors, one shared by all empty     *)
(* executors, or a counted one that holds a copy of the target.  Copies    *)
(* share the object; the last one to go deletes it, on any thread.         *)
(***************************************************************************)
EXTENDS Integers, FiniteSets

CONSTANTS Holders,  \* variables of type executor or executor_work
          Objects,  \* memory for implementation objects
          Targets,  \* executors to be wrapped, the system executor apart
          Submitted \* functions to be dispatched, posted or deferred

ASSUME ExecutorAssumption ==
  /\ IsFiniteSet(Holders)
  /\ Objects \cap {"system", "bad", "none"} = {}
  /\ Targets \cap {"system", "none", "deleted", "made", "thrown", "called", "destroyed"} = {}

VARIABLES impl,     \* per holder: an object, "system", "bad" or "none" (not alive)
          owns,     \* per holder: it is an executor_work that owns_work()
          old,      \* per holder: the __tmp of an assignment under way
          target,   \* per object: what it holds, or "deleted"
          refs,     \* per object: _M_ref_count
          work,     \* per target: units of work started and not finished
          fate,     \* per function: "made", where it has been sent, or what became of it
          wrapped,  \* functions for which a block is allocated
          budget    \* operations that clients are still to make

executorVars == <<impl, owns, old, target, refs, work, fate, wrapped, budget>>
sendVars == <<fate, wrapped>>

Shared == {"system", "bad"}
Alive(h) == impl[h] # "none"
Rests(h) == old[h] = "none"

ExecutorStart(budgets) ==
  /\ impl = [h \in Holders |-> "none"] /\ owns = [h \in Holders |-> FALSE]
  /\ old = [h \in Holders |-> "none"]
  /\ target = [o \in Objects |-> "deleted"] /\ refs = [o \in Objects |-> 0]
  /\ work = [e \in Targets |-> 0] /\ budget \in budgets
  /\ fate = [f \in Submitted |-> "made"] /\ wrapped = {}

----------------------------------------------------------------------------
(* Implementation objects.                                                 *)

Spend == budget > 0 /\ budget' = budget - 1

\* An executor of type e is wrapped.
Create(e, o) ==
  IF e = "system"
  THEN o = "system" /\ UNCHANGED <<target, refs>>
  ELSE /\ o \in Objects /\ target[o] = "deleted"
       /\ target' = [target EXCEPT ![o] = e] /\ refs' = [refs EXCEPT ![o] = 1]

NotCounted(o) == UNCHANGED refs    \* mutant: a copy is not counted
Clone(o) ==
  IF o \in Shared THEN UNCHANGED refs ELSE refs' = [refs EXCEPT ![o] = @ + 1]

Destroy(o) ==
  IF o \in Shared
  THEN UNCHANGED <<target, refs>>
  ELSE /\ refs' = [refs EXCEPT ![o] = @ - 1]
       /\ target' = [target EXCEPT ![o] = IF refs[o] = 1 THEN "deleted" ELSE @]

\* on_work_started and on_work_finished: nothing for the system executor, nor
\* for an empty one.
CountWork(o, n) ==
  IF o \in Shared THEN UNCHANGED work ELSE work' = [work EXCEPT ![target[o]] = @ + n]

----------------------------------------------------------------------------
(* executor.                                                               *)

\* Holders that nothing else is done to, as the client must see to.
Free(h)  == ~Alive(h)
Plain(h) == Alive(h) /\ Rests(h) /\ ~owns[h]

DefaultConstruct(h) ==
  /\ Free(h) /\ Spend
  /\ impl' = [impl EXCEPT ![h] = "bad"]
  /\ UNCHANGED <<owns, old, target, refs, work, sendVars>>

WrapConstruct(h, e, o) ==
  /\ Free(h) /\ Spend /\ Create(e, o)
  /\ impl' = [impl EXCEPT ![h] = o]
  /\ UNCHANGED <<owns, old, work, sendVars>>

CopyConstruct(h, g) ==
  /\ Free(h) /\ Alive(g) /\ Rests(g) /\ Spend
  /\ Clone(impl[g])
  /\ impl' = [impl EXCEPT ![h] = impl[g]]
  /\ UNCHANGED <<owns, old, target, work, sendVars>>

MoveConstruct(h, g) ==
  /\ Free(h) /\ Plain(g) /\ Spend
  /\ impl' = [impl EXCEPT ![h] = impl[g], ![g] = "bad"]
  /\ UNCHANGED <<owns, old, target, refs, work, sendVars>>

CopyAssign(h, g) ==
  /\ Plain(h) /\ Alive(g) /\ Rests(g) /\ Spend
  /\ old' = [old EXCEPT ![h] = impl[h]]
  /\ Clone(impl[g])
  /\ impl' = [impl EXCEPT ![h] = impl[g]]
  /\ UNCHANGED <<owns, target, work, sendVars>>

WrapAssign(h, e, o) ==
  /\ Plain(h) /\ Spend /\ Create(e, o)
  /\ old' = [old EXCEPT ![h] = impl[h]]
  /\ impl' = [impl EXCEPT ![h] = o]
  /\ UNCHANGED <<owns, work, sendVars>>

\* The source is emptied last: after an assignment to itself it is empty too.
MoveAssign(h, g) ==
  /\ Plain(h) /\ Plain(g) /\ Spend
  /\ Destroy(impl[h])
  /\ impl' = [[impl EXCEPT ![h] = impl[g]] EXCEPT ![g] = "bad"]
  /\ UNCHANGED <<owns, old, work, sendVars>>

NullAssign(h) ==
  /\ Plain(h) /\ Spend
  /\ Destroy(impl[h])
  /\ impl' = [impl EXCEPT ![h] = "bad"]
  /\ UNCHANGED <<owns, old, work, sendVars>>

\* The last step of an assignment.
DestroyOld(h) ==
  /\ old[h] # "none"
  /\ Destroy(old[h])
  /\ old' = [old EXCEPT ![h] = "none"]
  /\ UNCHANGED <<impl, owns, work, budget, sendVars>>

----------------------------------------------------------------------------
(* dispatch, post and defer.                                               *)

Unsent(h, f) ==
  /\ Alive(h) /\ Rests(h) /\ fate[f] = "made" /\ Spend
  /\ UNCHANGED <<impl, owns, old, target, refs, work>>

\* The function is put into a block of memory, and the pointer to it moved to the
\* target; what is empty throws bad_executor, and the pointer takes the function
\* with it.
SendTo(o, f) ==
  IF o = "bad"
  THEN fate' = [fate EXCEPT ![f] = "thrown"] /\ UNCHANGED wrapped
  ELSE /\ fate' = [fate EXCEPT ![f] = IF o = "system" THEN "system" ELSE target[o]]
       /\ wrapped' = wrapped \cup {f}

\* To the system executor it goes as it is, and is called at once.
DispatchOn(h, f) ==
  /\ Unsent(h, f)
  /\ IF impl[h] = "system"
     THEN fate' = [fate EXCEPT ![f] = "called"] /\ UNCHANGED wrapped
     ELSE SendTo(impl[h], f)
PostOn(h, f)  == Unsent(h, f) /\ SendTo(impl[h], f)
DeferOn(h, f) == Unsent(h, f) /\ SendTo(impl[h], f)

\* The target calls it, once its block has been freed, or destroys it uncalled;
\* either way the executor that it came through may be gone.
CallSent(f) ==
  /\ f \in wrapped /\ wrapped' = wrapped \ {f} /\ fate' = [fate EXCEPT ![f] = "called"]
  /\ UNCHANGED <<impl, owns, old, target, refs, work, budget>>

DestroySent(f) ==
  /\ f \in wrapped /\ wrapped' = wrapped \ {f} /\ fate' = [fate EXCEPT ![f] = "destroyed"]
  /\ UNCHANGED <<impl, owns, old, target, refs, work, budget>>

----------------------------------------------------------------------------
(* executor_work, and the destructors of both.                             *)

\* From an executor, or a copy of another work object.
StartWork(h, g) ==
  /\ Free(h) /\ Alive(g) /\ Rests(g) /\ Spend
  /\ Clone(impl[g]) /\ CountWork(impl[g], 1)
  /\ impl' = [impl EXCEPT ![h] = impl[g]] /\ owns' = [owns EXCEPT ![h] = TRUE]
  /\ UNCHANGED <<old, target, sendVars>>

MoveWork(h, g) ==
  /\ Free(h) /\ Alive(g) /\ owns[g] /\ Spend
  /\ impl' = [impl EXCEPT ![h] = impl[g], ![g] = "bad"]
  /\ owns' = [owns EXCEPT ![h] = TRUE, ![g] = FALSE]
  /\ UNCHANGED <<old, target, refs, work, sendVars>>

ResetWork(h) ==
  /\ Alive(h) /\ owns[h] /\ Spend
  /\ CountWork(impl[h], -1)
  /\ owns' = [owns EXCEPT ![h] = FALSE]
  /\ UNCHANGED <<impl, old, target, refs, sendVars>>

\* mutant: a work object that still owns work goes without giving it up
JustDestruct(h) ==
  /\ Alive(h) /\ Rests(h) /\ Destroy(impl[h])
  /\ impl' = [impl EXCEPT ![h] = "none"] /\ owns' = [owns EXCEPT ![h] = FALSE]
  /\ UNCHANGED <<old, work, budget, sendVars>>
Destruct(h) ==
  /\ Alive(h) /\ Rests(h)
  /\ IF owns[h] THEN CountWork(impl[h], -1) ELSE UNCHANGED work
  /\ Destroy(impl[h])
  /\ impl' = [impl EXCEPT ![h] = "none"] /\ owns' = [owns EXCEPT ![h] = FALSE]
  /\ UNCHANGED <<old, budget, sendVars>>

ExecutorNext ==
  \/ \E f \in Submitted : CallSent(f) \/ DestroySent(f)
  \/ \E h \in Holders :
       \/ DefaultConstruct(h) \/ NullAssign(h) \/ DestroyOld(h) \/ ResetWork(h) \/ Destruct(h)
       \/ \E e \in Targets \cup {"system"}, o \in Objects \cup {"system"} :
            WrapConstruct(h, e, o) \/ WrapAssign(h, e, o)
       \/ \E g \in Holders :
            \/ CopyConstruct(h, g) \/ MoveConstruct(h, g) \/ CopyAssign(h, g) \/ MoveAssign(h, g)
            \/ StartWork(h, g) \/ MoveWork(h, g)
       \/ \E f \in Submitted : DispatchOn(h, f) \/ PostOn(h, f) \/ DeferOn(h, f)

ExecutorSpec == ExecutorStart(Nat) /\ [][ExecutorNext]_executorVars

----------------------------------------------------------------------------
(* Properties.                                                             *)

ExecutorTypeOK ==
  /\ impl \in [Holders -> Objects \cup Shared \cup {"none"}]
  /\ old \in [Holders -> Objects \cup Shared \cup {"none"}]
  /\ owns \in [Holders -> BOOLEAN]
  /\ target \in [Objects -> Targets \cup {"deleted"}]
  /\ refs \in [Objects -> Nat] /\ work \in [Targets -> Int] /\ budget \in Nat
  /\ fate \in [Submitted -> Targets \cup {"made", "system", "thrown", "called", "destroyed"}]
  /\ wrapped \subseteq Submitted

\* An object is counted once for every holder that points to it, an assignment
\* under way included, and is deleted exactly when none is left: no holder ever
\* uses a deleted one, whatever is copied, moved and assigned, to itself too
\* (executor.h:119-135, 364-433).  And a target has one unit of work for every
\* work object on it, although the object is reached through other copies when
\* the unit is given back (executor_work.h:22-73).  And a function has its block
\* of memory just as long as a target is to call it (executor.h:42-92).
SharesExact ==
  /\ \A o \in Objects :
       /\ refs[o] = Cardinality({h \in Holders : impl[h] = o}) + Cardinality({h \in Holders : old[h] = o})
       /\ target[o] = "deleted" <=> refs[o] = 0
  /\ \A e \in Targets :
       work[e] = Cardinality({h \in Holders : owns[h] /\ impl[h] \in Objects /\ target[impl[h]] = e})
  /\ \A f \in Submitted : f \in wrapped <=> fate[f] \in Targets \cup {"system"}
=============================================================================
