---------------------------- MODULE StrandService ----------------------------
(***************************************************************************)
(* Who owns a strand, and the service that knows all strands of a context  *)
(* (bits/strand.h).  Strands that are copies of each other share an        *)
(* implementation, which goes with the last of them.  Functions that a     *)
(* strand keeps may own strands, even that one, and keep it alive.  The    *)
(* service links the implementations, under a mutex that the constructor   *)
(* and the destructor of each take; its shutdown takes their functions     *)
(* under the mutex and destroys them when it has released it.              *)
(*                                                                         *)
(* While a strand has functions its invoker owns it too, until the executor*)
(* discards what it has queued: as a thread_pool does, before the services *)
(* of its context shut down.  Clients submit nothing from then on, and have*)
(* no use of a strand when its context is gone.                            *)
(***************************************************************************)
EXTENDS Integers, Sequences, FiniteSets

CONSTANTS StrandVars,      \* variables of type strand
          StrandImpls,     \* memory for implementations
          StrandFunctions

ASSUME StrandImplsAssumption == IsFiniteSet(StrandImpls) /\ {"null", "none"} \cap StrandImpls = {}

VARIABLES refers,   \* per variable: its implementation, or "none"
          firstImpl,\* _M_first, or "null"
          nextImpl, \* per implementation: _M_next
          prevImpl, \* per implementation: _M_prev
          live,     \* implementations that exist
          keeps,    \* per implementation: the functions in its two queues
          captures, \* per function: the implementation of a strand it owns, or "none"
          offered,  \* functions that have been accepted
          taken,    \* functions that are being destroyed
          service,  \* "up", "quiet" (no more invokers), "locked", "unlocked" or "gone"
          position  \* where the shutdown has come to

strandVars == <<refers, firstImpl, nextImpl, prevImpl, live, keeps, captures, offered,
                taken, service, position>>

StrandsStart ==
  /\ refers = [v \in StrandVars |-> "none"] /\ firstImpl = "null"
  /\ nextImpl = [i \in StrandImpls |-> "null"] /\ prevImpl = [i \in StrandImpls |-> "null"]
  /\ live = {} /\ keeps = [i \in StrandImpls |-> {}]
  /\ captures = [f \in StrandFunctions |-> "none"] /\ offered = {} /\ taken = {}
  /\ service = "up" /\ position = "null"

KeptAnywhere == (UNION {keeps[i] : i \in live}) \cup taken
Invoked(i) == service = "up" /\ keeps[i] # {}
Unowned(i) == ~Invoked(i) /\ i \notin {refers[v] : v \in StrandVars} \cup {captures[f] : f \in KeptAnywhere}

\* _M_mutex
MutexFree == service \notin {"locked", "gone"}

----------------------------------------------------------------------------
(* Implementations.                                                        *)

\* In front of the list.
Link(i) ==
  /\ MutexFree /\ i \in StrandImpls \ live /\ live' = live \cup {i}
  /\ nextImpl' = [nextImpl EXCEPT ![i] = firstImpl] /\ firstImpl' = i
  /\ prevImpl' = [j \in StrandImpls |-> IF j = i THEN "null" ELSE IF j = firstImpl THEN i ELSE prevImpl[j]]

\* mutant: the one behind goes on pointing to it
NextStays(i) == UNCHANGED prevImpl
RelinkNext(i) == prevImpl' = [j \in StrandImpls |-> IF j = nextImpl[i] THEN prevImpl[i] ELSE prevImpl[j]]

\* With the last owner goes the implementation, and with it its functions.
Unlink(i) ==
  /\ i \in live /\ Unowned(i) /\ MutexFree
  /\ firstImpl' = IF firstImpl = i THEN nextImpl[i] ELSE firstImpl
  /\ nextImpl' = [j \in StrandImpls |-> IF j = prevImpl[i] THEN nextImpl[i] ELSE nextImpl[j]]
  /\ RelinkNext(i)
  /\ live' = live \ {i} /\ keeps' = [keeps EXCEPT ![i] = {}] /\ taken' = taken \cup keeps[i]
  /\ UNCHANGED <<refers, captures, offered, service, position>>

----------------------------------------------------------------------------
(* strand.                                                                 *)

ConstructStrand(v, i) ==
  /\ service = "up" /\ refers[v] = "none" /\ Link(i)
  /\ refers' = [refers EXCEPT ![v] = i]
  /\ UNCHANGED <<keeps, captures, offered, taken, service, position>>

SetStrand(v, i) ==
  /\ refers' = [refers EXCEPT ![v] = i]
  /\ UNCHANGED <<firstImpl, nextImpl, prevImpl, live, keeps, captures, offered, taken, service, position>>

\* One that is empty is as one that is still to be constructed.
MayUseStrand(u) == service # "gone" /\ refers[u] # "none"
TakeStrand(v, u) ==
  /\ refers' = [refers EXCEPT ![v] = refers[u], ![u] = "none"]
  /\ UNCHANGED <<firstImpl, nextImpl, prevImpl, live, keeps, captures, offered, taken, service, position>>

CopyStrand(v, u)       == MayUseStrand(u) /\ refers[v] = "none" /\ SetStrand(v, refers[u])
MoveStrand(v, u)       == MayUseStrand(u) /\ refers[v] = "none" /\ TakeStrand(v, u)
AssignStrand(v, u)     == MayUseStrand(u) /\ refers[v] # "none" /\ SetStrand(v, refers[u])
MoveAssignStrand(v, u) == MayUseStrand(u) /\ refers[v] # "none" /\ v # u /\ TakeStrand(v, u)
DestroyStrand(v) == MayUseStrand(v) /\ SetStrand(v, "none")

\* A function is accepted, and has a copy of one of the client's strands.
KeepFunction(v, f, i) ==
  /\ service = "up" /\ refers[v] # "none" /\ f \notin offered
  /\ i \in {refers[u] : u \in StrandVars}
  /\ offered' = offered \cup {f} /\ captures' = [captures EXCEPT ![f] = i]
  /\ keeps' = [keeps EXCEPT ![refers[v]] = @ \cup {f}]
  /\ UNCHANGED <<refers, firstImpl, nextImpl, prevImpl, live, taken, service, position>>

\* It is run, after which it goes as any does that is destroyed.
CompleteFunction(i, f) ==
  /\ service = "up" /\ i \in live /\ f \in keeps[i]
  /\ keeps' = [keeps EXCEPT ![i] = @ \ {f}] /\ taken' = taken \cup {f}
  /\ UNCHANGED <<refers, firstImpl, nextImpl, prevImpl, live, captures, offered, service, position>>

DestroyTaken(f) ==
  /\ f \in taken /\ MutexFree
  /\ taken' = taken \ {f}
  /\ UNCHANGED <<refers, firstImpl, nextImpl, prevImpl, live, keeps, captures, offered, service, position>>

----------------------------------------------------------------------------
(* The end of the context.                                                 *)

DiscardInvokers ==
  /\ service = "up" /\ taken = {} /\ service' = "quiet"
  /\ UNCHANGED <<refers, firstImpl, nextImpl, prevImpl, live, keeps, captures, offered, taken, position>>

\* What was destroyed with the invokers is gone.
LockService ==
  /\ service = "quiet" /\ taken = {} /\ \A i \in live : ~Unowned(i)
  /\ service' = "locked" /\ position' = firstImpl
  /\ UNCHANGED <<refers, firstImpl, nextImpl, prevImpl, live, keeps, captures, offered, taken>>

TakeFunctions ==
  /\ service = "locked"
  /\ IF position = "null"
     THEN service' = "unlocked" /\ UNCHANGED <<keeps, taken, position>>
     ELSE /\ taken' = taken \cup keeps[position] /\ keeps' = [keeps EXCEPT ![position] = {}]
          /\ position' = nextImpl[position] /\ UNCHANGED service
  /\ UNCHANGED <<refers, firstImpl, nextImpl, prevImpl, live, captures, offered>>

\* What the shutdown destroys is destroyed when it returns.
DestroyService ==
  /\ service = "unlocked" /\ taken = {} /\ \A i \in live : ~Unowned(i)
  /\ service' = "gone"
  /\ UNCHANGED <<refers, firstImpl, nextImpl, prevImpl, live, keeps, captures, offered, taken, position>>

StrandsNext ==
  \/ DiscardInvokers \/ LockService \/ TakeFunctions \/ DestroyService
  \/ \E i \in StrandImpls : Unlink(i) \/ \E f \in StrandFunctions : CompleteFunction(i, f)
  \/ \E f \in StrandFunctions : DestroyTaken(f)
  \/ \E v \in StrandVars :
       \/ DestroyStrand(v)
       \/ \E i \in StrandImpls :
            ConstructStrand(v, i) \/ \E f \in StrandFunctions : KeepFunction(v, f, i)
       \/ \E u \in StrandVars : CopyStrand(v, u) \/ MoveStrand(v, u)
                              \/ AssignStrand(v, u) \/ MoveAssignStrand(v, u)

StrandsSpec == StrandsStart /\ [][StrandsNext]_strandVars

----------------------------------------------------------------------------
(* Properties.                                                             *)

StrandsTypeOK ==
  /\ refers \in [StrandVars -> StrandImpls \cup {"none"}]
  /\ firstImpl \in StrandImpls \cup {"null"} /\ live \subseteq StrandImpls
  /\ keeps \in [StrandImpls -> SUBSET StrandFunctions] /\ taken \subseteq offered
  /\ service \in {"up", "quiet", "locked", "unlocked", "gone"}

\* The list, from _M_first on, is that.
ListIs(order) ==
  LET n == Cardinality(live)
  IN  /\ {order[k] : k \in 1 .. n} = live
      /\ firstImpl = IF n = 0 THEN "null" ELSE order[1]
      /\ \A k \in 1 .. n :
           /\ nextImpl[order[k]] = IF k = n THEN "null" ELSE order[k + 1]
           /\ prevImpl[order[k]] = IF k = 1 THEN "null" ELSE order[k - 1]

\* The list has every implementation once, linked both ways, whichever goes from
\* the middle of it and whoever destroys it: so the shutdown gets them all.  Then
\* no function is left anywhere, and what is still there of the strands when the
\* service goes, whose mutex their destructors take, is there for a client's
\* variable and not because strands are kept by functions of each other
\* (strand.h:81-126).
StrandsListed ==
  /\ \E order \in [1 .. Cardinality(live) -> live] : ListIs(order)
  /\ service = "gone" =>
       \A i \in live : keeps[i] = {} /\ \E v \in StrandVars : refers[v] = i
=============================================================================
