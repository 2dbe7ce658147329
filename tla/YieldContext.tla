---------------------------- MODULE YieldContext ----------------------------
(***************************************************************************)
(* A stackful coroutine (bits/yield_context.h, over Boost.Coroutine).  The *)
(* coroutine calls an asynchronous operation, whose result lives in its    *)
(* frame, and gets the result; the handler of the operation stores the     *)
(* result, on any thread, perhaps inside the call.  A flag, set by both    *)
(* with test_and_set, tells who comes second: the coroutine then does not  *)
(* stop, or the handler resumes it, once the thread that it ran on has     *)
(* left it and cleared its spin lock.  Handlers, and the threads that run  *)
(* the coroutine, share its ownership; the coroutine itself does not.      *)
(***************************************************************************)
EXTENDS Integers

CONSTANTS YieldThreads, MaxYields

ASSUME YieldAssumption == "nobody" \notin YieldThreads /\ MaxYields \in Nat

VARIABLES yieldState,    \* "unborn", "running", "suspended", "ended" or "destroyed"
          yieldAt,       \* where a running coroutine is
          yields,        \* operations called so far
          ready,         \* _M_ready of the operation's result
          result,        \* "none", "value" or "error"
          yieldHandler,  \* the operation's handler: how far, and on which thread
          inside,        \* the thread that the coroutine runs on, or ran until now
          lock,          \* _M_lock of the callee
          leaving        \* threads that have left it and still own a share

yieldVars == <<yieldState, yieldAt, yields, ready, result, yieldHandler, inside, lock, leaving>>

NoHandler == [at |-> "none", on |-> "nobody"]

YieldStart(states) ==
  /\ yieldState \in states /\ yieldAt = "work" /\ yields = 0
  /\ ready = FALSE /\ result = "none" /\ yieldHandler = NoHandler
  /\ inside = "nobody" /\ lock = FALSE /\ leaving = {}

\* The handler is being called in place, within the call of the operation.
InPlace == yieldHandler.on = inside
Body(at) == yieldState = "running" /\ yieldAt = at /\ ~InPlace

\* The last owner of a coroutine that is waiting destroys it.
Own(handler, in, out) ==
  yieldState' = IF yieldState = "suspended" /\ handler = NoHandler /\ in = "nobody" /\ out = {}
                THEN "destroyed" ELSE yieldState

----------------------------------------------------------------------------
(* The coroutine.                                                          *)

\* __yield_context_launcher, and the entry point.
YieldLaunch(t) ==
  /\ yieldState = "unborn" /\ yieldState' = "running"
  /\ inside' = t /\ lock' = TRUE
  /\ UNCHANGED <<yieldAt, yields, ready, result, yieldHandler, leaving>>

\* The operation is started: the handler is made and points to a new result.
YieldCall ==
  /\ Body("work") /\ yields < MaxYields /\ yields' = yields + 1
  /\ ready' = FALSE /\ result' = "none"
  /\ yieldHandler' = [at |-> "pending", on |-> "nobody"]
  /\ yieldAt' = "called"
  /\ UNCHANGED <<yieldState, inside, lock, leaving>>

YieldGet ==
  /\ Body("called") /\ ready' = TRUE
  /\ yieldAt' = IF ready THEN "take" ELSE "suspending"
  /\ UNCHANGED <<yieldState, yields, result, yieldHandler, inside, lock, leaving>>

YieldSuspend ==
  /\ Body("suspending") /\ yieldState' = "suspended"
  /\ UNCHANGED <<yieldAt, yields, ready, result, yieldHandler, inside, lock, leaving>>

\* _Get: the value, or the error thrown into the coroutine.
YieldTake ==
  /\ Body("take") /\ yieldAt' = "work"
  /\ UNCHANGED <<yieldState, yields, ready, result, yieldHandler, inside, lock, leaving>>

\* The function returns and its continuation is called, or it throws.
YieldEnd ==
  /\ Body("work") \/ (Body("take") /\ result = "error")
  /\ yieldState' = "ended"
  /\ UNCHANGED <<yieldAt, yields, ready, result, yieldHandler, inside, lock, leaving>>

----------------------------------------------------------------------------
(* The threads that run it, and the handler.                               *)

\* mutant: the lock is not cleared
YieldKeepsLock ==
  /\ inside # "nobody" /\ yieldState \in {"suspended", "ended"}
  /\ inside' = "nobody" /\ leaving' = leaving \cup {inside}
  /\ UNCHANGED <<yieldState, yieldAt, yields, ready, result, yieldHandler, lock>>
\* _M_coro() has returned; the lock is cleared first.
YieldLeave ==
  /\ inside # "nobody" /\ yieldState \in {"suspended", "ended"}
  /\ lock' = FALSE /\ inside' = "nobody" /\ leaving' = leaving \cup {inside}
  /\ UNCHANGED <<yieldState, yieldAt, yields, ready, result, yieldHandler>>

YieldRelease(t) ==
  /\ t \in leaving /\ leaving' = leaving \ {t}
  /\ Own(yieldHandler, inside, leaving')
  /\ UNCHANGED <<yieldAt, yields, ready, result, yieldHandler, inside, lock>>

\* A thread that may run the handler: any that is not in the coroutine, or
\* the one that is calling the operation.
MayCall(t) ==
  /\ yieldHandler.at = "pending" /\ t \notin leaving
  /\ t = inside => yieldAt = "called" /\ yieldState = "running"

YieldStore(t, r) ==
  /\ MayCall(t)
  /\ result' = r /\ yieldHandler' = [at |-> "stored", on |-> t]
  /\ UNCHANGED <<yieldState, yieldAt, yields, ready, inside, lock, leaving>>

\* The three handlers: an error_code, unless the context was given a place for
\* it, or an exception_ptr may say that the operation failed.
YieldValue(t)     == YieldStore(t, "value")
YieldCode(t)      == \E r \in {"value", "error"} : YieldStore(t, r)
YieldException(t) == \E r \in {"value", "error"} : YieldStore(t, r)

YieldTest ==
  /\ yieldHandler.at = "stored"
  /\ IF ready
     THEN yieldHandler' = [yieldHandler EXCEPT !.at = "locking"] /\ UNCHANGED ready
     ELSE yieldHandler' = NoHandler /\ ready' = TRUE
  /\ UNCHANGED <<yieldState, yieldAt, yields, result, inside, lock, leaving>>

AnyTime == TRUE   \* mutant: no lock
Unlocked == ~lock

\* _Lock_guard, then _M_coro(): the coroutine goes on, in get().
YieldResume ==
  /\ yieldHandler.at = "locking" /\ Unlocked
  /\ lock' = TRUE /\ inside' = yieldHandler.on
  /\ yieldState' = "running" /\ yieldAt' = "take"
  /\ yieldHandler' = NoHandler
  /\ UNCHANGED <<yields, ready, result, leaving>>

\* The operation is dropped: its executor goes, or its function throws.
YieldDrop(t) ==
  /\ MayCall(t)
  /\ yieldHandler' = NoHandler
  /\ Own(NoHandler, inside, leaving)
  /\ UNCHANGED <<yieldAt, yields, ready, result, inside, lock, leaving>>

\* What the coroutine and a handler that has been called do.
YieldGoes ==
  \/ YieldGet \/ YieldSuspend \/ YieldTake \/ YieldLeave \/ YieldTest \/ YieldResume
  \/ \E t \in YieldThreads : YieldRelease(t)

YieldNext ==
  \/ YieldGoes \/ YieldCall \/ YieldEnd
  \/ \E t \in YieldThreads :
       \/ YieldLaunch(t) \/ YieldDrop(t)
       \/ YieldValue(t) \/ YieldCode(t) \/ YieldException(t)

YieldSpec == YieldStart({"unborn"}) /\ [][YieldNext]_yieldVars

----------------------------------------------------------------------------
(* Properties.                                                             *)

YieldTypeOK ==
  /\ yieldState \in {"unborn", "running", "suspended", "ended", "destroyed"}
  /\ yieldAt \in {"work", "called", "suspending", "take"} /\ yields \in 0 .. MaxYields
  /\ ready \in BOOLEAN /\ lock \in BOOLEAN /\ result \in {"none", "value", "error"}
  /\ yieldHandler \in [at : {"none", "pending", "stored", "locking"}, on : YieldThreads \cup {"nobody"}]
  /\ inside \in YieldThreads \cup {"nobody"} /\ leaving \subseteq YieldThreads

\* A thread enters the coroutine only when it is suspended and the thread that
\* ran it has left its stack; a handler stores a result only in a frame that is
\* there, of a coroutine that is in the operation the handler belongs to
\* (yield_context.h:132-140, 237-242).
ResumedOnlySuspended ==
  [][/\ inside' \notin {inside, "nobody"} => inside = "nobody" /\ yieldState \in {"unborn", "suspended"}
     /\ yieldHandler'.at = "stored" => yieldState \in {"running", "suspended"}
                                        /\ yieldAt \in {"called", "suspending"}]_yieldVars

\* Whoever comes first, handler or coroutine, the coroutine goes on once for
\* every answer and not without one (yield_context.h:135, 239).
YieldPromise == INSTANCE Coroutine WITH
  mode   <- IF yieldState \in {"ended", "destroyed"} THEN "ended"
            ELSE IF yieldAt = "work" THEN "running" ELSE "waiting",
  answer <- IF yieldState \in {"ended", "destroyed"} \/ yieldAt = "work" THEN "none"
            ELSE IF result # "none" THEN "given"
            ELSE IF yieldHandler.at = "pending" THEN "pending" ELSE "lost"

YieldImplementsCoroutine == YieldPromise!Init /\ [][YieldPromise!Next]_(YieldPromise!vars)
=============================================================================
