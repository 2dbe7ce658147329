---------------------------- MODULE Continuation ----------------------------
(***************************************************************************)
(* The polymorphic continuation (bits/continuation.h).  A variable of type *)
(* continuation<Signature> is empty or owns an object that holds a callable*)
(* of that signature; one of type continuation<> owns an object of any     *)
(* signature, and is turned into one with a signature by a cast, which may *)
(* not succeed.  Variables are moved, never copied.                        *)
(***************************************************************************)
EXTENDS Integers

CONSTANTS Continuations, \* variables
          Signatures,
          TypeOf,        \* per variable: its signature, or "any"
          Impls          \* memory for implementation objects

ASSUME ContinuationAssumption ==
  /\ "null" \notin Impls /\ "none" \notin Impls
  /\ "free" \notin Signatures /\ "any" \notin Signatures
  /\ TypeOf \in [Continuations -> Signatures \cup {"any"}]

VARIABLES owned,   \* per variable: an object, "null", or "none" (not alive)
          holds,   \* per object: the signature of what it holds, or "free"
          spent,   \* objects whose callable has been moved into a call
          thrown,  \* calls that threw bad_continuation
          steps    \* operations that clients are still to make

continuationVars == <<owned, holds, spent, thrown, steps>>

ContinuationStart(budgets) ==
  /\ owned = [c \in Continuations |-> "none"] /\ holds = [o \in Impls |-> "free"]
  /\ spent = {} /\ thrown = 0 /\ steps \in budgets

----------------------------------------------------------------------------
(* The unique_ptr _M_impl.                                                 *)

\* c takes what d owns; what c owned is deleted.  To move a variable into itself
\* leaves it as it is.
TakesOver(c, d) ==
  /\ owned' = [[owned EXCEPT ![d] = "null"] EXCEPT ![c] = owned[d]]
  /\ IF c # d /\ owned[c] \in Impls
     THEN holds' = [holds EXCEPT ![owned[c]] = "free"] /\ spent' = spent \ {owned[c]}
     ELSE UNCHANGED <<holds, spent>>

\* c is to own x, which nobody owns, or nothing.
Resets(c, x) ==
  /\ owned' = [owned EXCEPT ![c] = x]
  /\ holds' = [o \in Impls |-> IF o = x THEN TypeOf[c] ELSE IF o = owned[c] THEN "free" ELSE holds[o]]
  /\ spent' = spent \ {owned[c]}

Client == steps > 0 /\ steps' = steps - 1
Unmade(c) == owned[c] = "none"
Made(c)   == owned[c] # "none"
Typed(c)  == TypeOf[c] # "any"
Unused(o) == o \in Impls /\ holds[o] = "free"

----------------------------------------------------------------------------
(* Constructors, assignments and the destructor.                           *)

ConstructEmpty(c) == Unmade(c) /\ Typed(c) /\ Client /\ Resets(c, "null") /\ UNCHANGED thrown
ConstructAnyEmpty(c) == Unmade(c) /\ ~Typed(c) /\ Client /\ Resets(c, "null") /\ UNCHANGED thrown

\* From one of its own type.
ConstructMoved(c, d) ==
  Unmade(c) /\ Made(d) /\ TypeOf[c] = TypeOf[d] /\ Typed(c) /\ Client /\ TakesOver(c, d) /\ UNCHANGED thrown
ConstructAnyMoved(c, d) == Unmade(c) /\ Made(d) /\ ~Typed(c) /\ Client /\ TakesOver(c, d) /\ UNCHANGED thrown

ConstructWrapped(c, o) == Unmade(c) /\ Typed(c) /\ Unused(o) /\ Client /\ Resets(c, o) /\ UNCHANGED thrown

AssignMoved(c, d) ==
  Made(c) /\ Made(d) /\ TypeOf[c] = TypeOf[d] /\ Typed(c) /\ Client /\ TakesOver(c, d) /\ UNCHANGED thrown
AssignAnyMoved(c, d) == Made(c) /\ Made(d) /\ ~Typed(c) /\ Client /\ TakesOver(c, d) /\ UNCHANGED thrown

AssignNull(c)    == Made(c) /\ Typed(c) /\ Client /\ Resets(c, "null") /\ UNCHANGED thrown
AssignAnyNull(c) == Made(c) /\ ~Typed(c) /\ Client /\ Resets(c, "null") /\ UNCHANGED thrown

AssignWrapped(c, o) == Made(c) /\ Typed(c) /\ Unused(o) /\ Client /\ Resets(c, o) /\ UNCHANGED thrown

DestroyContinuation(c)    == Made(c) /\ Typed(c) /\ Resets(c, "none") /\ UNCHANGED <<thrown, steps>>
DestroyAnyContinuation(c) == Made(c) /\ ~Typed(c) /\ Resets(c, "none") /\ UNCHANGED <<thrown, steps>>

----------------------------------------------------------------------------
(* Calls and casts.                                                        *)

\* The callable is moved from, the object stays with its variable.
CallMade(c) ==
  /\ Made(c) /\ Typed(c) /\ Client
  /\ IF owned[c] = "null"
     THEN thrown' = thrown + 1 /\ UNCHANGED spent
     ELSE spent' = spent \cup {owned[c]} /\ UNCHANGED thrown
  /\ UNCHANGED <<owned, holds>>

\* A client must know what d owns, if anything.
StaticCast(c, d) ==
  /\ Unmade(c) /\ Typed(c) /\ Made(d) /\ ~Typed(d)
  /\ owned[d] # "null" => holds[owned[d]] = TypeOf[c]
  /\ Client /\ TakesOver(c, d) /\ UNCHANGED thrown

\* mutant: a continuation is cast to any signature
Casts(c, d) == owned[d] # "null"
Fits(c, d) == owned[d] # "null" /\ holds[owned[d]] = TypeOf[c]

DynamicCast(c, d) ==
  /\ Unmade(c) /\ Typed(c) /\ Made(d) /\ ~Typed(d) /\ Client
  /\ IF Fits(c, d) THEN TakesOver(c, d) ELSE Resets(c, "null")
  /\ UNCHANGED thrown

\* The token of an operation called with a continuation<>.
ContinuationHandler(c, d) == DynamicCast(c, d)

ContinuationNext ==
  \E c \in Continuations :
    \/ ConstructEmpty(c) \/ ConstructAnyEmpty(c) \/ AssignNull(c) \/ AssignAnyNull(c)
    \/ DestroyContinuation(c) \/ DestroyAnyContinuation(c) \/ CallMade(c)
    \/ \E o \in Impls : ConstructWrapped(c, o) \/ AssignWrapped(c, o)
    \/ \E d \in Continuations :
         \/ ConstructMoved(c, d) \/ ConstructAnyMoved(c, d) \/ AssignMoved(c, d) \/ AssignAnyMoved(c, d)
         \/ StaticCast(c, d) \/ ContinuationHandler(c, d)

ContinuationSpec == ContinuationStart(Nat) /\ [][ContinuationNext]_continuationVars

----------------------------------------------------------------------------
(* Properties.                                                             *)

ContinuationTypeOK ==
  /\ owned \in [Continuations -> Impls \cup {"null", "none"}]
  /\ holds \in [Impls -> Signatures \cup {"free"}]
  /\ spent \subseteq Impls /\ thrown \in Nat /\ steps \in Nat

\* Whatever is moved, assigned and cast, to itself too, every object has one
\* owner until it is deleted, and none after; and a variable with a signature
\* never owns an object of another (continuation.h:126-184, 281-335, 384-396).
OwnedOnce ==
  /\ \A o \in Impls : holds[o] # "free" <=> \E c \in Continuations : owned[c] = o
  /\ \A c, d \in Continuations : owned[c] = owned[d] /\ owned[c] \in Impls => c = d
  /\ \A c \in Continuations : owned[c] \in Impls /\ Typed(c) => holds[owned[c]] = TypeOf[c]
=============================================================================
