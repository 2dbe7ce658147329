---------------------------- MODULE AwaitContext ----------------------------
(***************************************************************************)
(* A stackless coroutine (bits/await_context.h): a function that is called *)
(* again for every step and jumps to the await expression it left at.  An  *)
(* await expression notes the point to resume at, then starts its          *)
(* operation and says where the value is to go, in either order, and then  *)
(* the function is left.  The handler of the operation stores the value    *)
(* and resumes the function, on any thread, perhaps before it was left: a  *)
(* count of invocations makes the thread in the function go round again.   *)
(***************************************************************************)
EXTENDS Integers

CONSTANTS AwaitThreads, MaxAwaits

ASSUME AwaitAssumption == "nobody" \notin AwaitThreads /\ MaxAwaits \in Nat

VARIABLES awaitAt,       \* "unborn", or where the function is; "out" when it has been left
          point,         \* __coroutine::_M_value: the await to resume at, or -1
          modified,      \* __coroutine_ref::_M_modified
          invocations,   \* _M_invocations
          inBody,        \* the threads in the function
          awaits,        \* operations awaited so far
          form,          \* the current one's result: "void", "value" or "ignored"
          todo,          \* what the await expression has still to do
          destination,   \* _M_result_value: the await whose variable it points to, or 0
          exception,     \* _M_ex is set
          awaitHandler,  \* the operation's handler: how far, and on which thread
          landed         \* where the value went: "none", "right", "early" or "stray"

awaitVars == <<awaitAt, point, modified, invocations, inBody, awaits, form, todo,
               destination, exception, awaitHandler, landed>>

Unhandled == [at |-> "none", on |-> "nobody"]

AwaitStart(states) ==
  /\ awaitAt \in states /\ point = 0 /\ modified = FALSE /\ invocations = 0 /\ inBody = {}
  /\ awaits = 0 /\ form = "void" /\ todo = {} /\ destination = 0 /\ exception = FALSE
  /\ awaitHandler = Unhandled /\ landed = "none"

\* Thread t is in the function, and not in a handler called in place.
At(t, where) == t \in inBody /\ awaitAt = where /\ awaitHandler.on # t

----------------------------------------------------------------------------
(* Invocations.                                                            *)

\* mutant: whoever comes goes in
AlwaysEnters(t) ==
  /\ invocations' = invocations + 1 /\ inBody' = inBody \cup {t} /\ awaitAt' = "enter"
\* _Resume and the first test of _Invoke.
Invoke(t) ==
  /\ invocations' = invocations + 1
  /\ IF invocations = 0
     THEN inBody' = inBody \cup {t} /\ awaitAt' = "enter"
     ELSE UNCHANGED <<inBody, awaitAt>>

AwaitLaunch(t) ==
  /\ awaitAt = "unborn" /\ Invoke(t)
  /\ UNCHANGED <<point, modified, awaits, form, todo, destination, exception, awaitHandler, landed>>

JustLeaves(t) ==    \* mutant: the count is not looked at
  /\ At(t, "left") /\ invocations' = invocations - 1
  /\ inBody' = inBody \ {t} /\ awaitAt' = "out"
  /\ UNCHANGED <<point, modified, awaits, form, todo, destination, exception, awaitHandler, landed>>
\* The function has returned without being complete: once more if it was
\* resumed meanwhile.
GoesRound(t) ==
  /\ At(t, "left") /\ invocations' = invocations - 1
  /\ IF invocations' # 0
     THEN awaitAt' = "enter" /\ UNCHANGED inBody
     ELSE awaitAt' = "out" /\ inBody' = inBody \ {t}
  /\ UNCHANGED <<point, modified, awaits, form, todo, destination, exception, awaitHandler, landed>>

----------------------------------------------------------------------------
(* The function.                                                           *)

\* reenter: the start, or the await it was left at, where an exception stored
\* for it is thrown.
Reenter(t) ==
  /\ At(t, "enter") /\ modified' = FALSE
  /\ \/ awaitAt' = IF point # 0 /\ exception THEN "throwing" ELSE "work"
     \/ point # 0 /\ exception /\ awaitAt' = "work"   \* caught in the function
  /\ UNCHANGED <<point, invocations, inBody, awaits, form, todo, destination, exception,
                 awaitHandler, landed>>

\* await: the point to resume at is set first.  The operation has no value, or
\* one that is assigned to a variable, or one that nobody wants.
Await(t, what) ==
  /\ At(t, "work") /\ awaits < MaxAwaits /\ awaits' = awaits + 1
  /\ point' = awaits' /\ modified' = TRUE /\ form' = what /\ landed' = "none"
  /\ todo' = IF what = "value" THEN {"start", "destination"} ELSE {"start"}
  /\ awaitAt' = "await"
  /\ UNCHANGED <<invocations, inBody, destination, exception, awaitHandler>>

StartOperation(t) ==
  /\ At(t, "await") /\ "start" \in todo /\ todo' = todo \ {"start"}
  /\ awaitHandler' = [at |-> "pending", on |-> "nobody"]
  /\ UNCHANGED <<awaitAt, point, modified, invocations, inBody, awaits, form,
                 destination, exception, landed>>

Unset(t) == todo' = todo \ {"destination"} /\ UNCHANGED destination    \* mutant
SetDestination(t) ==
  todo' = todo \ {"destination"} /\ destination' = awaits

Assign(t) ==
  /\ At(t, "await") /\ "destination" \in todo
  /\ SetDestination(t)
  /\ UNCHANGED <<awaitAt, point, modified, invocations, inBody, awaits, form,
                 exception, awaitHandler, landed>>

\* The await expression is over, and the function is left.
Leave(t) ==
  /\ At(t, "await") /\ todo = {} /\ awaitAt' = "left"
  /\ UNCHANGED <<point, modified, invocations, inBody, awaits, form, todo,
                 destination, exception, awaitHandler, landed>>

\* Its end, at which the continuation is called, or an exception out of it, be it
\* that the operation could not be started: the
\* destructor of __coroutine_ref sees whether the point was set, the count
\* stays, and nobody goes in again.
Finish(t) ==
  /\ At(t, "work") \/ At(t, "throwing") \/ (At(t, "await") /\ "start" \in todo)
  /\ awaitAt' = "over" /\ inBody' = inBody \ {t}
  /\ point' = IF modified THEN point ELSE -1
  /\ UNCHANGED <<modified, invocations, awaits, form, todo, destination, exception,
                 awaitHandler, landed>>

----------------------------------------------------------------------------
(* The handler.                                                            *)

MayHandle(t) ==
  /\ awaitHandler.at = "pending"
  /\ t \in inBody => awaitAt = "await"

\* The value goes where _M_result_value points, whatever the operation.
StoreValue(t, error) ==
  /\ MayHandle(t)
  /\ exception' = (exception \/ error)
  /\ landed' = IF form = "void" THEN landed
               ELSE IF "destination" \in todo THEN "early"
               ELSE IF destination = awaits THEN "right" ELSE "stray"
  /\ awaitHandler' = [at |-> "stored", on |-> t]
  /\ UNCHANGED <<awaitAt, point, modified, invocations, inBody, awaits, form, todo, destination>>

\* The three handlers: an error_code, unless the context was given a place for
\* it, or an exception_ptr may say that the operation failed.
HandleValue(t)     == StoreValue(t, FALSE)
HandleCode(t)      == \E error \in BOOLEAN : StoreValue(t, error)
HandleException(t) == \E error \in BOOLEAN : StoreValue(t, error)

ResumeByHandler(t) ==
  /\ awaitHandler = [at |-> "stored", on |-> t]
  /\ awaitHandler' = Unhandled /\ Invoke(t)
  /\ UNCHANGED <<point, modified, awaits, form, todo, destination, exception, landed>>

\* The operation is dropped.  If its function threw, the wrapper of its
\* executor stores the exception, which nobody is woken up for.
DropOperation(t, threw) ==
  /\ MayHandle(t)
  /\ awaitHandler' = Unhandled
  /\ exception' = (exception \/ threw)
  /\ UNCHANGED <<awaitAt, point, modified, invocations, inBody, awaits, form, todo,
                 destination, landed>>

\* What the function and a handler that has been called do.
AwaitGoes ==
  \E t \in AwaitThreads :
    \/ Reenter(t) \/ StartOperation(t) \/ Assign(t) \/ Leave(t) \/ GoesRound(t) \/ Finish(t)
    \/ ResumeByHandler(t)

AwaitNext ==
  \/ AwaitGoes
  \/ \E t \in AwaitThreads :
    \/ AwaitLaunch(t)
    \/ \E what \in {"void", "value", "ignored"} : Await(t, what)
    \/ HandleValue(t) \/ HandleCode(t) \/ HandleException(t)
    \/ \E threw \in BOOLEAN : DropOperation(t, threw)

AwaitSpec == AwaitStart({"unborn"}) /\ [][AwaitNext]_awaitVars

----------------------------------------------------------------------------
(* Properties.                                                             *)

AwaitTypeOK ==
  /\ awaitAt \in {"unborn", "enter", "throwing", "work", "await", "left", "out", "over"}
  /\ point \in -1 .. MaxAwaits /\ modified \in BOOLEAN /\ invocations \in 0 .. MaxAwaits + 1
  /\ inBody \subseteq AwaitThreads /\ awaits \in 0 .. MaxAwaits
  /\ form \in {"void", "value", "ignored"} /\ todo \subseteq {"start", "destination"}
  /\ destination \in 0 .. MaxAwaits /\ exception \in BOOLEAN
  /\ awaitHandler \in [at : {"none", "pending", "stored"}, on : AwaitThreads \cup {"nobody"}]
  /\ landed \in {"none", "right", "early", "stray"}

\* The function is never in two threads at once, and never in one with nobody
\* counted (await_context.h:200, 207, 216, 223).
OneInBody ==
  /\ \A t, u \in inBody : t = u
  /\ inBody # {} => invocations > 0

\* A value that is awaited is in its variable when the function goes on, unless
\* the operation was answered before the await expression had said where the
\* value goes (await_context.h:95-99, 150).
ValueLands ==
  form = "value" => landed # "stray"

\* One thread at a time, and with its value (await_context.h:95-99, 150, 200-223).
AwaitSound == OneInBody /\ ValueLands

\* Resumed within the await expression, after it, or never, the function goes
\* on once for every answer and not without one (await_context.h:198-228).
AwaitPromise == INSTANCE Coroutine WITH
  mode   <- IF awaitAt = "over" THEN "ended"
            ELSE IF awaitAt \in {"unborn", "work"} \/ point = 0 THEN "running" ELSE "waiting",
  answer <- IF awaitAt \in {"unborn", "work", "over"} \/ point = 0 THEN "none"
            ELSE IF awaitHandler.at = "pending" \/ "start" \in todo THEN "pending"
            ELSE IF awaitHandler.at = "stored" \/ invocations = 2 \/ awaitAt \in {"enter", "throwing"}
            THEN "given" ELSE "lost"

AwaitImplementsCoroutine == AwaitPromise!Init /\ [][AwaitPromise!Next]_(AwaitPromise!vars)
=============================================================================
