--------------------------- MODULE ServiceRegistry ---------------------------
(***************************************************************************)
(* The services of an execution context (bits/execution_context.h): a      *)
(* list that grows at its front, guarded by a mutex that is not held while *)
(* a service is constructed, so that a constructor may use other services  *)
(* (a timer service uses the reactor), nor while the context calls into    *)
(* its services.  The list is a sequence here, the oldest service first;   *)
(* the pointer __first that a call reads is the length it had.             *)
(***************************************************************************)
EXTENDS Integers, Sequences

CONSTANTS Callers,  \* threads that call the context
          Keys,     \* types of services
          Uses,     \* Uses[k]: the services that the constructor of k asks for
          MaxCalls  \* calls made from outside, by all the threads together

ASSUME UsesAssumption == Uses \in [Keys -> SUBSET Keys] /\ MaxCalls \in Nat

VARIABLES list,      \* the services: [key, maker, late (made during shutdown), shut]
          frames,    \* per caller: its calls, the innermost last
          got,       \* the services that calls have returned: <<key, maker>>
          calls,     \* calls made so far
          prepared,  \* positions that were told of a fork to come, not of its end
          notice,    \* the notification under way: its event, who is to be told yet,
                     \* and how many services there were before the fork
          phase,     \* "up", "shutdown", "destroy" or "gone"
          passes,    \* shutdown passes to come: a context derived may make its own
          first,     \* what the pass under way, or the last, began with
          at         \* the service the pass has come to

registryVars == <<list, frames, got, calls, prepared, notice, phase, passes, first, at>>

Quiet == [event |-> "none", left |-> <<>>, size |-> 0]

RegistryInit ==
  /\ list = <<>> /\ frames = [t \in Callers |-> <<>>] /\ got = {}
  /\ calls = 0 /\ prepared = {} /\ notice = Quiet
  /\ phase = "up" /\ passes \in {1, 2} /\ first = 0 /\ at = 0

----------------------------------------------------------------------------
(* use_service and make_service.                                           *)

Last(t)      == frames[t][Len(frames[t])]
Below(t)     == SubSeq(frames[t], 1, Len(frames[t]) - 1)
In(key, lo, hi) == {i \in lo .. hi : list[i].key = key}

Idle == \A t \in Callers : frames[t] = <<>>

\* The first thing a call does: it takes __first under the lock.
Entered(op, key) == [op |-> op, key |-> key, first |-> Len(list), stage |-> "look", needs |-> Uses[key]]

\* From outside; while the context shuts down, from a service's
\* shutdown_service, on the thread of the destructor.
Call(t, op, key) ==
  /\ frames[t] = <<>> /\ calls < MaxCalls /\ calls' = calls + 1
  /\ phase = "up" \/ (phase = "shutdown" /\ at < first /\ Idle)
  /\ frames' = [frames EXCEPT ![t] = <<Entered(op, key)>>]
  /\ UNCHANGED <<list, got, prepared, notice, phase, passes, first, at>>

\* The call ends: use_service with the service, make_service with an exception,
\* which goes through the constructors that are on the stack.
Found(t, i) ==
  IF Last(t).op = "use"
  THEN /\ frames' = [frames EXCEPT ![t] = Below(t)]
       /\ got' = got \cup {<<list[i].key, list[i].maker>>}
  ELSE frames' = [frames EXCEPT ![t] = <<>>] /\ UNCHANGED got

\* The list from __first on needs no lock: it only grows in front of it.
Look(t) ==
  /\ frames[t] # <<>> /\ Last(t).stage = "look"
  /\ LET there == In(Last(t).key, 1, Last(t).first)
     IN IF there # {}
        THEN \E i \in there : Found(t, i)
        ELSE /\ frames' = [frames EXCEPT ![t][Len(frames[t])].stage = "make"]
             /\ UNCHANGED got
  /\ UNCHANGED <<list, calls, prepared, notice, phase, passes, first, at>>

\* The constructor asks for another service.
Construct(t, key) ==
  /\ frames[t] # <<>> /\ Last(t).stage = "make" /\ key \in Last(t).needs
  /\ frames' = [frames EXCEPT ![t] =
       Below(t) \o <<[Last(t) EXCEPT !.needs = @ \ {key}], Entered("use", key)>>]
  /\ UNCHANGED <<list, got, calls, prepared, notice, phase, passes, first, at>>

\* A constructor throws, or there is none to call (bad_cast).
CreationFails(t) ==
  /\ frames[t] # <<>> /\ Last(t).stage = "make"
  /\ frames' = [frames EXCEPT ![t] = <<>>]
  /\ UNCHANGED <<list, got, calls, prepared, notice, phase, passes, first, at>>

AnyInFront(t) == {}    \* mutant: no second look
\* A service of that type that another thread has added in the meantime.
InFront(t) == In(Last(t).key, Last(t).first + 1, Len(list))

Oldest(s) == <<s>> \o list    \* mutant: registers behind the others
Newest(s) == Append(list, s)

\* The constructor has returned.  Under the lock: if there is a duplicate now,
\* the new one is deleted, else the context takes it.
Register(t) ==
  /\ frames[t] # <<>> /\ Last(t).stage = "make" /\ Last(t).needs = {}
  /\ IF InFront(t) # {}
     THEN (\E i \in InFront(t) : Found(t, i)) /\ UNCHANGED list
     ELSE /\ list' = Newest([key |-> Last(t).key, maker |-> t,
                              late |-> phase = "shutdown", shut |-> FALSE])
          /\ got' = got \cup {<<Last(t).key, t>>}
          /\ frames' = [frames EXCEPT ![t] = Below(t)]
  /\ UNCHANGED <<calls, prepared, notice, phase, passes, first, at>>

----------------------------------------------------------------------------
(* notify_fork: the services are copied under the lock and told without    *)
(* it, the newest first before the fork, the oldest first after it.        *)

Copy == [i \in 1 .. Len(list) |-> Len(list) + 1 - i]
Backwards(s) == [i \in 1 .. Len(s) |-> s[Len(s) + 1 - i]]

Order(event) == IF event = "prepare" THEN Copy ELSE Backwards(Copy)

\* A fork is announced, and its end announced after the announcement is through.
NotifyFork(event) ==
  /\ phase = "up" /\ notice.left = <<>>
  /\ event = "prepare" <=> notice.event # "prepare"
  /\ notice' = [event |-> event, left |-> Order(event),
                 size |-> IF event = "prepare" THEN Len(list) ELSE notice.size]
  /\ UNCHANGED <<list, frames, got, calls, prepared, phase, passes, first, at>>

Tell ==
  /\ notice.left # <<>>
  /\ notice' = [notice EXCEPT !.left = Tail(@)]
  /\ LET i == Head(notice.left)
     IN prepared' = IF notice.event = "prepare" THEN prepared \cup {i} ELSE prepared \ {i}
  /\ UNCHANGED <<list, frames, got, calls, phase, passes, first, at>>

----------------------------------------------------------------------------
(* The destructors: shutdown_context, once or twice, then destroy_context. *)

\* Nobody else uses the context any more.
ShutdownContext ==
  /\ \/ phase = "up" /\ notice.left = <<>> /\ notice.event # "prepare"
     \/ phase = "shutdown" /\ at = 0
  /\ Idle /\ passes > 0
  /\ phase' = "shutdown" /\ passes' = passes - 1
  /\ first' = Len(list) /\ at' = Len(list)
  /\ UNCHANGED <<list, frames, got, calls, prepared, notice>>

ShutdownService ==
  /\ list' = [list EXCEPT ![at].shut = TRUE] /\ at' = at - 1

ShutdownStep ==
  /\ phase = "shutdown" /\ at > 0 /\ Idle
  /\ ShutdownService
  /\ UNCHANGED <<frames, got, calls, prepared, notice, phase, passes, first>>

DestroyContext ==
  /\ phase = "shutdown" /\ at = 0 /\ passes = 0 /\ Idle
  /\ phase' = "destroy"
  /\ UNCHANGED <<list, frames, got, calls, prepared, notice, passes, first, at>>

DestroyStep ==
  /\ phase = "destroy"
  /\ IF list = <<>>
     THEN phase' = "gone" /\ UNCHANGED list
     ELSE list' = SubSeq(list, 1, Len(list) - 1) /\ UNCHANGED phase
  /\ UNCHANGED <<frames, got, calls, prepared, notice, passes, first, at>>

RegistryNext ==
  \/ \E t \in Callers :
       \/ \E key \in Keys, op \in {"use", "make"} : Call(t, op, key)
       \/ \E key \in Keys : Construct(t, key)
       \/ Look(t) \/ CreationFails(t) \/ Register(t)
  \/ \E event \in {"prepare", "parent", "child"} : NotifyFork(event)
  \/ Tell \/ ShutdownContext \/ ShutdownStep \/ DestroyContext \/ DestroyStep

RegistrySpec == RegistryInit /\ [][RegistryNext]_registryVars

----------------------------------------------------------------------------
(* Properties.                                                             *)

CallFrame == [op : {"use", "make"}, key : Keys, first : Nat, stage : {"look", "make"}, needs : SUBSET Keys]

RegistryTypeOK ==
  /\ list \in Seq([key : Keys, maker : Callers, late : BOOLEAN, shut : BOOLEAN])
  /\ frames \in [Callers -> Seq(CallFrame)]
  /\ got \subseteq Keys \X Callers
  /\ calls \in 0 .. MaxCalls
  /\ notice.event \in {"none", "prepare", "parent", "child"}
  /\ phase \in {"up", "shutdown", "destroy", "gone"}
  /\ passes \in 0 .. 2 /\ first \in Nat /\ at \in 0 .. first

\* However the constructions of several threads overlap, a context has one
\* service of a type and every caller gets that one
\* (execution_context.h:159-188).
OneService ==
  /\ \A i, j \in 1 .. Len(list) : list[i].key = list[j].key => i = j
  /\ \A g, h \in got : g[1] = h[1] => g[2] = h[2]

\* A service is older than those whose constructors asked for it: it is told of
\* a fork after them and of its end before them, it is shut down after them,
\* except after those made during the shutdown, and destroyed after them; and
\* none that a shutdown pass began with is destroyed without having been shut
\* down (execution_context.h:35-89, 186).
UsersGoFirst ==
  /\ \A i \in 1 .. Len(list) : \A key \in Uses[list[i].key] :
       \E j \in In(key, 1, i - 1) :
         /\ list[j].shut => list[i].shut \/ list[i].late
         /\ j \in prepared => i \in prepared \/ i > notice.size
  /\ phase = "destroy" => \A i \in 1 .. Len(list) : list[i].shut \/ i > first

\* A context keeps its services: one of a type, and in their order, whichever
\* threads ask, however it is forked and when it ends (execution_context.h:35-188).
ServicesKept == OneService /\ UsersGoFirst
=============================================================================
