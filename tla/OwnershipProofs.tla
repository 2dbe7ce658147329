--------------------------- MODULE OwnershipProofs ---------------------------
(***************************************************************************)
(* What owns what, and how long it is there.                               *)
(*                                                                         *)
(* Memory has one owner, and is what its owner takes it for.  Recycled     *)
(* blocks are large enough, for any number of threads and blocks, any      *)
(* sizes of objects and any width of the capacity byte; continuations own  *)
(* what they were made with, for any number of variables, objects and      *)
(* signatures; objects that executors share are counted exactly, for any   *)
(* number of holders, objects, targets and functions.                      *)
(*                                                                         *)
(* The services of an execution context.  A join waits for timed calls, and*)
(* a pool's timers go before the services they call, for any number of     *)
(* timed calls.  What a call of use_service got is what every call gets,   *)
(* until the context goes, and services are shut down and destroyed before *)
(* those they use, for any services, threads and ways to use each other.   *)
(* The service of strands knows all strands there are, however many.       *)
(***************************************************************************)
EXTENDS BlockRecycler, Continuation, AnyExecutor, TimedCall, ServiceRegistry, StrandService,
        SequenceTheorems, FiniteSetTheorems, TLAPS

----------------------------------------------------------------------------
(* Recycled blocks.                                                        *)

\* BlockFits in three parts.  A block in use has a size, and one whose capacity
\* its byte cannot tell is used for what it was allocated for.
InUse ==
  \A b \in Blocks : object[b].life # "none" =>
    /\ object[b].size \in Sizes /\ capacity[b] >= object[b].size /\ byte[b].at = object[b].size
    /\ byte[b].value = IF capacity[b] <= ByteMax THEN capacity[b] ELSE 0
    /\ capacity[b] > ByteMax => capacity[b] = object[b].size

KeptIdle ==
  \A b \in Blocks, t \in RecyclingThreads : memory[t] = b \/ next[t] = b =>
    object[b].life = "none" /\ byte[b].value = capacity[b] /\ byte[b].at = 0 /\ capacity[b] > 0

KeptOnce ==
  \A t, u \in RecyclingThreads :
    /\ memory[t] # "null" => memory[t] # next[u] /\ (t # u => memory[t] # memory[u])
    /\ next[t] # "null" => memory[t] # "null" /\ (t # u => next[t] # next[u])

RecyclerInv == RecyclerTypeOK /\ InUse /\ KeptIdle /\ KeptOnce

LEMMA SizesAreNumbers ==
  /\ \A n \in Sizes : n \in Nat /\ n > 0
  /\ \A n \in Sizes \cup {0} : n \in Nat
<1>1. ASSUME NEW n \in Sizes PROVE n \in Nat /\ n > 0
  <2>1. n \in Nat \ {0} BY <1>1, RecyclerAssumption
  <2> QED BY <2>1
<1> QED BY <1>1

LEMMA InvImpliesFits == RecyclerInv => BlockFits
<1> SUFFICES ASSUME RecyclerInv PROVE BlockFits OBVIOUS
<1>1. ASSUME NEW b \in Blocks, object[b].life # "none"
      PROVE  /\ capacity[b] >= object[b].size /\ byte[b].at = object[b].size
             /\ byte[b].value = IF capacity[b] <= ByteMax THEN capacity[b] ELSE 0
  BY <1>1 DEF RecyclerInv, InUse
<1>2. ASSUME NEW b \in Blocks, Kept(b) # {}
      PROVE  object[b].life = "none" /\ byte[b] = [value |-> capacity[b], at |-> 0] /\ capacity[b] > 0
  <2>1. PICK t \in RecyclingThreads : memory[t] = b \/ next[t] = b
    BY <1>2 DEF Kept
  <2>2. object[b].life = "none" /\ byte[b].value = capacity[b] /\ byte[b].at = 0 /\ capacity[b] > 0
    BY <2>1 DEF RecyclerInv, KeptIdle
  <2>3. byte[b] \in [value : 0 .. ByteMax, at : Nat] BY DEF RecyclerInv, RecyclerTypeOK
  <2> QED BY <2>2, <2>3
<1>3. KeptOnce BY DEF RecyclerInv
<1> QED BY <1>1, <1>2, <1>3 DEF BlockFits, KeptOnce

----------------------------------------------------------------------------
(* _Allocate.                                                              *)

LEMMA ShiftShape ==
  ASSUME RecyclerTypeOK, NEW t \in RecyclingThreads, Shift(t)
  PROVE  /\ memory' \in [RecyclingThreads -> Blocks \cup {"null"}]
         /\ next' \in [RecyclingThreads -> Blocks \cup {"null"}]
         /\ \A u \in RecyclingThreads : memory'[u] = IF u = t THEN next[t] ELSE memory[u]
         /\ \A u \in RecyclingThreads : next'[u] = IF u = t THEN "null" ELSE next[u]
  BY DEF RecyclerTypeOK, Shift

LEMMA PlaceShape ==
  ASSUME RecyclerTypeOK, NEW b \in Blocks, NEW size \in Sizes, NEW value \in 0 .. ByteMax,
         Place(b, size, value)
  PROVE  /\ byte' \in [Blocks -> [value : 0 .. ByteMax, at : Nat]]
         /\ object' \in [Blocks -> [life : {"none", "raw", "held"}, size : Sizes \cup {0}]]
         /\ \A c \in Blocks : byte'[c] = IF c = b THEN [value |-> value, at |-> size] ELSE byte[c]
         /\ \A c \in Blocks : object'[c] = IF c = b THEN [life |-> "raw", size |-> size] ELSE object[c]
<1>1. size \in Nat BY RecyclerAssumption
<1> QED BY <1>1 DEF RecyclerTypeOK, Place

\* After a shift no thread keeps the block that was in front, and every other
\* block is kept as it was, if at all.
LEMMA ShiftKeeps ==
  ASSUME RecyclerTypeOK, KeptOnce, NEW t \in RecyclingThreads, Shift(t)
  PROVE  /\ KeptOnce'
         /\ \A u \in RecyclingThreads, b \in Blocks : memory'[u] = b \/ next'[u] = b =>
              /\ b # memory[t]
              /\ \E v \in RecyclingThreads : memory[v] = b \/ next[v] = b
<1>1. /\ \A u \in RecyclingThreads : memory'[u] = IF u = t THEN next[t] ELSE memory[u]
      /\ \A u \in RecyclingThreads : next'[u] = IF u = t THEN "null" ELSE next[u]
  BY ShiftShape
<1>2. KeptOnce'
  BY <1>1 DEF KeptOnce
<1>3. ASSUME NEW u \in RecyclingThreads, NEW b \in Blocks, memory'[u] = b \/ next'[u] = b
      PROVE  b # memory[t] /\ \E v \in RecyclingThreads : memory[v] = b \/ next[v] = b
  <2>1. b # "null" BY RecyclerAssumption
  <2>2. CASE memory'[u] = b /\ u = t
    BY <2>1, <2>2, <1>1 DEF KeptOnce
  <2>3. CASE memory'[u] = b /\ u # t
    BY <2>1, <2>3, <1>1 DEF KeptOnce
  <2>4. CASE next'[u] = b
    BY <2>1, <2>4, <1>1 DEF KeptOnce
  <2> QED BY <1>3, <2>2, <2>3, <2>4
<1> QED BY <1>2, <1>3

LEMMA ReuseStep ==
  ASSUME RecyclerInv, NEW t \in RecyclingThreads, NEW size \in Sizes, Reuse(t, size)
  PROVE  RecyclerInv'
<1> DEFINE b == memory[t]
<1> USE RecyclerAssumption
<1>1. b \in Blocks /\ capacity' = capacity /\ Shift(t) /\ Place(b, size, byte[b].value) /\ byte[b].value >= size
  BY DEF RecyclerInv, RecyclerTypeOK, Reuse, BigEnough
<1>2. byte[b].value \in 0 .. ByteMax /\ byte[b].value = capacity[b]
  BY <1>1 DEF RecyclerInv, RecyclerTypeOK, KeptIdle
<1>3. /\ byte' \in [Blocks -> [value : 0 .. ByteMax, at : Nat]]
      /\ object' \in [Blocks -> [life : {"none", "raw", "held"}, size : Sizes \cup {0}]]
      /\ \A c \in Blocks : byte'[c] = IF c = b THEN [value |-> byte[b].value, at |-> size] ELSE byte[c]
      /\ \A c \in Blocks : object'[c] = IF c = b THEN [life |-> "raw", size |-> size] ELSE object[c]
  BY <1>1, <1>2, PlaceShape DEF RecyclerInv
<1>4. RecyclerTypeOK' BY <1>1, <1>3, ShiftShape DEF RecyclerInv, RecyclerTypeOK
<1>5. /\ KeptOnce'
      /\ \A u \in RecyclingThreads, c \in Blocks : memory'[u] = c \/ next'[u] = c =>
           c # b /\ \E v \in RecyclingThreads : memory[v] = c \/ next[v] = c
  BY <1>1, ShiftKeeps DEF RecyclerInv
<1> HIDE DEF b
<1>6. InUse'
  <2> SUFFICES ASSUME NEW c \in Blocks, object'[c].life # "none"
               PROVE  /\ object'[c].size \in Sizes /\ capacity'[c] >= object'[c].size
                      /\ byte'[c].at = object'[c].size
                      /\ byte'[c].value = IF capacity'[c] <= ByteMax THEN capacity'[c] ELSE 0
                      /\ capacity'[c] > ByteMax => capacity'[c] = object'[c].size
    BY DEF InUse
  <2>1. CASE c = b BY <2>1, <1>1, <1>2, <1>3
  <2>2. CASE c # b BY <2>2, <1>1, <1>3 DEF RecyclerInv, InUse
  <2> QED BY <2>1, <2>2
<1>7. KeptIdle' BY <1>1, <1>3, <1>5 DEF RecyclerInv, KeptIdle
<1> QED BY <1>4, <1>5, <1>6, <1>7 DEF RecyclerInv

\* A block of no capacity is in no use and nobody keeps it.
LEMMA FreeIsIdle ==
  ASSUME RecyclerInv, NEW b \in Blocks, capacity[b] = 0
  PROVE  object[b].life = "none" /\ \A t \in RecyclingThreads : memory[t] # b /\ next[t] # b
<1>1. object[b].life = "none"
  <2> SUFFICES ASSUME object[b].life # "none" PROVE FALSE OBVIOUS
  <2>1. object[b].size \in Sizes /\ 0 >= object[b].size BY DEF RecyclerInv, InUse
  <2>2. object[b].size \in Nat /\ object[b].size > 0 BY <2>1, SizesAreNumbers
  <2> QED BY <2>1, <2>2
<1>2. \A t \in RecyclingThreads : memory[t] # b /\ next[t] # b
  BY DEF RecyclerInv, KeptIdle
<1> QED BY <1>1, <1>2

LEMMA NewStep ==
  ASSUME RecyclerInv, NEW t \in RecyclingThreads, NEW size \in Sizes, New(t, size)
  PROVE  RecyclerInv'
<1> USE RecyclerAssumption
<1> DEFINE left == [c \in Blocks |-> IF c = memory[t] THEN 0 ELSE capacity[c]]
<1>1. Shift(t) BY DEF New
<1>2. /\ KeptOnce'
      /\ \A u \in RecyclingThreads, c \in Blocks : memory'[u] = c \/ next'[u] = c =>
           c # memory[t] /\ \E v \in RecyclingThreads : memory[v] = c \/ next[v] = c
  BY <1>1, ShiftKeeps DEF RecyclerInv
<1>3. \A c \in Blocks : c = memory[t] => object[c].life = "none"
  BY DEF RecyclerInv, KeptIdle
<1>4. left \in [Blocks -> Sizes \cup {0}] BY DEF RecyclerInv, RecyclerTypeOK
<1>5. ASSUME NEW b \in Blocks, left[b] = 0, capacity' = [left EXCEPT ![b] = size],
             Place(b, size, IF size <= ByteMax THEN size ELSE 0)
      PROVE  RecyclerInv'
  <2>1. (IF size <= ByteMax THEN size ELSE 0) \in 0 .. ByteMax OBVIOUS
  <2>2. /\ byte' \in [Blocks -> [value : 0 .. ByteMax, at : Nat]]
        /\ object' \in [Blocks -> [life : {"none", "raw", "held"}, size : Sizes \cup {0}]]
        /\ \A c \in Blocks : byte'[c] = IF c = b
             THEN [value |-> IF size <= ByteMax THEN size ELSE 0, at |-> size] ELSE byte[c]
        /\ \A c \in Blocks : object'[c] = IF c = b THEN [life |-> "raw", size |-> size] ELSE object[c]
    BY <1>5, <2>1, PlaceShape DEF RecyclerInv
  <2>3. /\ capacity' \in [Blocks -> Sizes \cup {0}]
        /\ \A c \in Blocks : capacity'[c] =
             IF c = b THEN size ELSE IF c = memory[t] THEN 0 ELSE capacity[c]
    BY <1>4, <1>5
  <2>4. \A u \in RecyclingThreads : memory'[u] # b /\ next'[u] # b
    <3>1. CASE b = memory[t] BY <3>1, <1>2
    <3>2. CASE b # memory[t]
      <4>1. capacity[b] = 0 BY <3>2, <1>5
      <4> QED BY <4>1, <1>2, FreeIsIdle
    <3> QED BY <3>1, <3>2
  <2> HIDE DEF left
  <2>5. RecyclerTypeOK' BY <1>1, <2>2, <2>3, ShiftShape DEF RecyclerInv, RecyclerTypeOK
  <2>6. InUse'
    <3> SUFFICES ASSUME NEW c \in Blocks, object'[c].life # "none"
                 PROVE  /\ object'[c].size \in Sizes /\ capacity'[c] >= object'[c].size
                        /\ byte'[c].at = object'[c].size
                        /\ byte'[c].value = IF capacity'[c] <= ByteMax THEN capacity'[c] ELSE 0
                        /\ capacity'[c] > ByteMax => capacity'[c] = object'[c].size
      BY DEF InUse
    <3>1. CASE c = b BY <3>1, <2>2, <2>3
    <3>2. CASE c # b
      <4>1. object[c].life # "none" /\ c # memory[t] BY <3>2, <2>2, <1>3
      <4> QED BY <3>2, <4>1, <2>2, <2>3 DEF RecyclerInv, InUse
    <3> QED BY <3>1, <3>2
  <2>7. KeptIdle' BY <1>2, <2>2, <2>3, <2>4 DEF RecyclerInv, KeptIdle
  <2> QED BY <1>2, <2>5, <2>6, <2>7 DEF RecyclerInv
<1>6. CASE capacity' = left /\ UNCHANGED <<byte, object>>
  <2>1. \A c \in Blocks : capacity'[c] = IF c = memory[t] THEN 0 ELSE capacity[c] BY <1>6
  <2>2. RecyclerTypeOK' BY <1>1, <1>4, <1>6, ShiftShape DEF RecyclerInv, RecyclerTypeOK
  <2> HIDE DEF left
  <2>3. InUse' BY <1>3, <1>6, <2>1 DEF RecyclerInv, InUse
  <2>4. KeptIdle' BY <1>2, <1>6, <2>1 DEF RecyclerInv, KeptIdle
  <2> QED BY <1>2, <2>2, <2>3, <2>4 DEF RecyclerInv
<1> QED BY <1>5, <1>6 DEF New

----------------------------------------------------------------------------
(* _Deallocate, and the rest.                                              *)

LEMMA DeallocateStep ==
  ASSUME RecyclerInv, NEW t \in RecyclingThreads, NEW b \in Blocks, object[b].life # "none",
         Deallocate(t, b)
  PROVE  RecyclerInv'
<1> USE RecyclerAssumption
<1>1. /\ object' \in [Blocks -> [life : {"none", "raw", "held"}, size : Sizes \cup {0}]]
      /\ \A c \in Blocks : object'[c] = IF c = b THEN NoObject ELSE object[c]
  BY DEF RecyclerInv, RecyclerTypeOK, Deallocate, NoObject
<1>2. \A u \in RecyclingThreads : memory[u] # b /\ next[u] # b
  BY DEF RecyclerInv, KeptIdle
<1>3. NoObject.life = "none" BY DEF NoObject
<1>4. CASE object[b].size > ByteMax \/ (memory[t] # "null" /\ next[t] # "null")
  <2>1. capacity' = [capacity EXCEPT ![b] = 0] /\ byte' = byte /\ memory' = memory /\ next' = next
    BY <1>4 DEF Deallocate
  <2>2. /\ capacity' \in [Blocks -> Sizes \cup {0}]
        /\ \A c \in Blocks : capacity'[c] = IF c = b THEN 0 ELSE capacity[c]
    BY <2>1 DEF RecyclerInv, RecyclerTypeOK
  <2>3. RecyclerTypeOK' BY <1>1, <2>1, <2>2 DEF RecyclerInv, RecyclerTypeOK
  <2>4. InUse' BY <1>1, <1>3, <2>1, <2>2 DEF RecyclerInv, InUse
  <2>5. KeptIdle' BY <1>1, <1>2, <2>1, <2>2 DEF RecyclerInv, KeptIdle
  <2>6. KeptOnce' BY <2>1 DEF RecyclerInv, KeptOnce
  <2> QED BY <2>3, <2>4, <2>5, <2>6 DEF RecyclerInv
<1>5. CASE ~(object[b].size > ByteMax \/ (memory[t] # "null" /\ next[t] # "null"))
  <2>1. /\ capacity' = capacity /\ byte' = [byte EXCEPT ![b].at = 0]
        /\ IF memory[t] = "null" THEN memory' = [memory EXCEPT ![t] = b] /\ next' = next
                                 ELSE next' = [next EXCEPT ![t] = b] /\ memory' = memory
    BY <1>5 DEF Deallocate, KeepByte
  <2>2. /\ byte' \in [Blocks -> [value : 0 .. ByteMax, at : Nat]]
        /\ \A c \in Blocks : c # b => byte'[c] = byte[c]
        /\ byte'[b].value = byte[b].value /\ byte'[b].at = 0
    BY <2>1 DEF RecyclerInv, RecyclerTypeOK
  <2>3. byte[b].value = capacity[b] /\ capacity[b] > 0
    <3> DEFINE size == object[b].size
    <3>1. ByteMax \in Nat BY RecyclerAssumption
    <3>2. size \in Sizes /\ capacity[b] >= size BY DEF RecyclerInv, InUse
    <3>3. capacity[b] \in Sizes \cup {0} BY DEF RecyclerInv, RecyclerTypeOK
    <3>4. ~(size > ByteMax) BY <1>5
    <3>5. capacity[b] > ByteMax => capacity[b] = size BY DEF RecyclerInv, InUse
    <3>6. byte[b].value = IF capacity[b] <= ByteMax THEN capacity[b] ELSE 0 BY DEF RecyclerInv, InUse
    <3> HIDE DEF size
    <3>7. size \in Nat /\ size > 0 /\ capacity[b] \in Nat BY <3>2, <3>3, SizesAreNumbers
    <3> QED BY <3>1, <3>2, <3>4, <3>5, <3>6, <3>7
  <2>4. /\ memory' \in [RecyclingThreads -> Blocks \cup {"null"}]
        /\ next' \in [RecyclingThreads -> Blocks \cup {"null"}]
    BY <2>1 DEF RecyclerInv, RecyclerTypeOK
  <2>5. RecyclerTypeOK' BY <1>1, <2>1, <2>2, <2>4 DEF RecyclerInv, RecyclerTypeOK
  <2>6. InUse' BY <1>1, <1>3, <2>1, <2>2 DEF RecyclerInv, InUse
  <2>7. CASE memory[t] = "null"
    <3>1. /\ \A u \in RecyclingThreads : memory'[u] = IF u = t THEN b ELSE memory[u]
          /\ next' = next
      BY <2>1, <2>7 DEF RecyclerInv, RecyclerTypeOK
    <3>2. KeptIdle' BY <1>1, <1>3, <2>1, <2>2, <2>3, <3>1 DEF RecyclerInv, KeptIdle
    <3>3. KeptOnce'
      <4>1. b # "null" OBVIOUS
      <4>2. next[t] = "null" BY <2>7 DEF RecyclerInv, KeptOnce
      <4> QED BY <1>2, <3>1, <4>1, <4>2 DEF RecyclerInv, KeptOnce
    <3> QED BY <2>5, <2>6, <3>2, <3>3 DEF RecyclerInv
  <2>8. CASE memory[t] # "null"
    <3>1. /\ \A u \in RecyclingThreads : next'[u] = IF u = t THEN b ELSE next[u]
          /\ memory' = memory /\ next[t] = "null"
      BY <1>5, <2>1, <2>8 DEF RecyclerInv, RecyclerTypeOK
    <3>2. KeptIdle' BY <1>1, <1>3, <2>1, <2>2, <2>3, <3>1 DEF RecyclerInv, KeptIdle
    <3>3. KeptOnce' BY <1>2, <2>8, <3>1 DEF RecyclerInv, KeptOnce
    <3> QED BY <2>5, <2>6, <3>2, <3>3 DEF RecyclerInv
  <2> QED BY <2>7, <2>8
<1> QED BY <1>4, <1>5

LEMMA ConstructedStep ==
  ASSUME RecyclerInv, NEW b \in Blocks, Constructed(b)
  PROVE  RecyclerInv'
<1>1. /\ object' \in [Blocks -> [life : {"none", "raw", "held"}, size : Sizes \cup {0}]]
      /\ \A c \in Blocks : object'[c].size = object[c].size
      /\ \A c \in Blocks : object'[c].life = "none" <=> object[c].life = "none"
      /\ capacity' = capacity /\ byte' = byte /\ memory' = memory /\ next' = next
  BY DEF RecyclerInv, RecyclerTypeOK, Constructed
<1> QED BY <1>1 DEF RecyclerInv, RecyclerTypeOK, InUse, KeptIdle, KeptOnce

LEMMA ThreadEndsStep ==
  ASSUME RecyclerInv, NEW t \in RecyclingThreads, ThreadEnds(t)
  PROVE  RecyclerInv'
<1> USE RecyclerAssumption
<1>1. /\ memory' \in [RecyclingThreads -> Blocks \cup {"null"}]
      /\ next' \in [RecyclingThreads -> Blocks \cup {"null"}]
      /\ \A u \in RecyclingThreads : memory'[u] = IF u = t THEN "null" ELSE memory[u]
      /\ \A u \in RecyclingThreads : next'[u] = IF u = t THEN "null" ELSE next[u]
      /\ capacity' = capacity /\ byte' = byte /\ object' = object
  BY DEF RecyclerInv, RecyclerTypeOK, ThreadEnds
<1>2. RecyclerTypeOK' /\ InUse' BY <1>1 DEF RecyclerInv, RecyclerTypeOK, InUse
<1>3. KeptIdle' BY <1>1 DEF RecyclerInv, KeptIdle
<1>4. KeptOnce' BY <1>1 DEF RecyclerInv, KeptOnce
<1> QED BY <1>2, <1>3, <1>4 DEF RecyclerInv

----------------------------------------------------------------------------
LEMMA RecyclerInvariant == RecyclerSpec => []RecyclerInv
<1>1. RecyclerStart => RecyclerInv
  BY RecyclerAssumption
  DEF RecyclerStart, RecyclerInv, RecyclerTypeOK, InUse, KeptIdle, KeptOnce, NoObject
<1>2. ASSUME RecyclerInv, [RecyclerNext]_recyclerVars PROVE RecyclerInv'
  <2>1. ASSUME NEW t \in RecyclingThreads, NEW size \in Sizes, Allocate(t, size) PROVE RecyclerInv'
    BY <1>2, <2>1, ReuseStep, NewStep DEF Allocate
  <2>2. ASSUME NEW t \in RecyclingThreads, NEW b \in Blocks,
               ConstructorThrows(t, b) \/ InvokeFunction(t, b) \/ DestroyFunction(t, b)
        PROVE  RecyclerInv'
    BY <1>2, <2>2, DeallocateStep DEF ConstructorThrows, InvokeFunction, DestroyFunction
  <2>3. CASE UNCHANGED recyclerVars
    BY <1>2, <2>3 DEF recyclerVars, RecyclerInv, RecyclerTypeOK, InUse, KeptIdle, KeptOnce
  <2> QED BY <1>2, <2>1, <2>2, <2>3, ConstructedStep, ThreadEndsStep DEF RecyclerNext
<1> QED BY <1>1, <1>2, PTL DEF RecyclerSpec

\* Wherever blocks are allocated, freed and used again, an object fits its
\* block, and a block that is kept is in nobody's use and in one place only
\* (small_block_recycler.h:47-109).
THEOREM BlocksFit == RecyclerSpec => []BlockFits
<1>1. RecyclerInv => BlockFits BY InvImpliesFits
<1> QED BY <1>1, RecyclerInvariant, PTL

LEMMA RecyclerTypes == RecyclerSpec => []RecyclerTypeOK
<1>1. RecyclerInv => RecyclerTypeOK BY DEF RecyclerInv
<1> QED BY <1>1, RecyclerInvariant, PTL

----------------------------------------------------------------------------
(* Continuations.                                                          *)

\* The invariant is its own strengthening, given the types.
OwnerInv == ContinuationTypeOK /\ OwnedOnce

\* Only a variable that may own the object takes it over.
MayTake(c, d) ==
  /\ owned[d] # "none"
  /\ owned[d] \in Impls /\ Typed(c) => holds[owned[d]] = TypeOf[c]

\* What a variable is reset to: nothing, or a new object of its signature.
MayReset(c, x) == x \in {"null", "none"} \/ (x \in Impls /\ holds[x] = "free" /\ Typed(c))

----------------------------------------------------------------------------
(* The two ways in which variables change hands.                           *)

LEMMA ResetKeepsTypes ==
  ASSUME OwnerInv, NEW c \in Continuations, NEW x, MayReset(c, x), Resets(c, x)
  PROVE  /\ owned' \in [Continuations -> Impls \cup {"null", "none"}]
         /\ holds' \in [Impls -> Signatures \cup {"free"}]
         /\ spent' \subseteq Impls
  BY ContinuationAssumption
  DEF OwnerInv, ContinuationTypeOK, MayReset, Resets, Typed

LEMMA ResetKeepsOwners ==
  ASSUME OwnerInv, NEW c \in Continuations, NEW x, MayReset(c, x), Resets(c, x)
  PROVE  OwnedOnce'
<1> USE ContinuationAssumption
<1>1. /\ \A e \in Continuations : owned'[e] = IF e = c THEN x ELSE owned[e]
      /\ \A o \in Impls : holds'[o] = IF o = x THEN TypeOf[c] ELSE IF o = owned[c] THEN "free" ELSE holds[o]
  BY DEF OwnerInv, ContinuationTypeOK, Resets
<1>2. x \in Impls => \A e \in Continuations : owned[e] # x
  BY DEF OwnerInv, OwnedOnce, MayReset
<1>3. ASSUME NEW o \in Impls
      PROVE  holds'[o] # "free" <=> \E e \in Continuations : owned'[e] = o
  <2>1. CASE o = x
    BY <2>1, <1>1 DEF MayReset, Typed
  <2>2. CASE o # x /\ o = owned[c]
    BY <2>2, <1>1 DEF OwnerInv, OwnedOnce
  <2>3. CASE o # x /\ o # owned[c]
    BY <2>3, <1>1 DEF OwnerInv, OwnedOnce
  <2> QED BY <2>1, <2>2, <2>3
<1>4. ASSUME NEW e \in Continuations, NEW f \in Continuations, owned'[e] = owned'[f], owned'[e] \in Impls
      PROVE  e = f
  BY <1>1, <1>2, <1>4 DEF OwnerInv, OwnedOnce
<1>5. ASSUME NEW e \in Continuations, owned'[e] \in Impls, Typed(e)
      PROVE  holds'[owned'[e]] = TypeOf[e]
  <2>1. CASE e = c BY <2>1, <1>1, <1>5
  <2>2. CASE e # c
    BY <2>2, <1>1, <1>2, <1>5 DEF OwnerInv, OwnedOnce
  <2> QED BY <2>1, <2>2
<1> QED BY <1>3, <1>4, <1>5 DEF OwnedOnce, Typed

LEMMA TakeKeepsTypes ==
  ASSUME OwnerInv, NEW c \in Continuations, NEW d \in Continuations, MayTake(c, d), TakesOver(c, d)
  PROVE  /\ owned' \in [Continuations -> Impls \cup {"null", "none"}]
         /\ holds' \in [Impls -> Signatures \cup {"free"}]
         /\ spent' \subseteq Impls
<1>1. owned' \in [Continuations -> Impls \cup {"null", "none"}]
  BY DEF OwnerInv, ContinuationTypeOK, TakesOver
<1>2. holds' \in [Impls -> Signatures \cup {"free"}] /\ spent' \subseteq Impls
  BY DEF OwnerInv, ContinuationTypeOK, TakesOver
<1> QED BY <1>1, <1>2

LEMMA TakeKeepsOwners ==
  ASSUME OwnerInv, NEW c \in Continuations, NEW d \in Continuations, MayTake(c, d), TakesOver(c, d)
  PROVE  OwnedOnce'
<1> USE ContinuationAssumption
<1>1. \A e \in Continuations :
        owned'[e] = IF e = c THEN owned[d] ELSE IF e = d THEN "null" ELSE owned[e]
  BY DEF OwnerInv, ContinuationTypeOK, TakesOver
<1>2. \A o \in Impls : holds'[o] = IF c # d /\ o = owned[c] THEN "free" ELSE holds[o]
  BY DEF OwnerInv, ContinuationTypeOK, TakesOver
<1>3. ASSUME NEW o \in Impls
      PROVE  holds'[o] # "free" <=> \E e \in Continuations : owned'[e] = o
  <2>1. CASE c = d
    BY <2>1, <1>1, <1>2 DEF OwnerInv, OwnedOnce
  <2>2. CASE c # d /\ o = owned[c]
    <3>1. owned[d] # o /\ \A e \in Continuations : e # c => owned[e] # o
      BY <2>2 DEF OwnerInv, OwnedOnce
    <3> QED BY <2>2, <3>1, <1>1, <1>2
  <2>3. CASE c # d /\ o # owned[c]
    <3>1. holds'[o] = holds[o] BY <2>3, <1>2
    <3>2. (\E e \in Continuations : owned'[e] = o) <=> \E e \in Continuations : owned[e] = o
      <4>1. ASSUME NEW e \in Continuations, owned'[e] = o PROVE \E f \in Continuations : owned[f] = o
        BY <4>1, <1>1
      <4>2. ASSUME NEW e \in Continuations, owned[e] = o PROVE \E f \in Continuations : owned'[f] = o
        <5>1. CASE e = d BY <5>1, <4>2, <1>1
        <5>2. CASE e # d
          <6>1. e # c BY <4>2, <2>3
          <6> QED BY <6>1, <5>2, <4>2, <1>1
        <5> QED BY <5>1, <5>2
      <4> QED BY <4>1, <4>2
    <3> QED BY <3>1, <3>2 DEF OwnerInv, OwnedOnce
  <2> QED BY <2>1, <2>2, <2>3
<1>4. ASSUME NEW e \in Continuations, NEW f \in Continuations, owned'[e] = owned'[f], owned'[e] \in Impls
      PROVE  e = f
  BY <1>1, <1>4 DEF OwnerInv, OwnedOnce
<1>5. ASSUME NEW e \in Continuations, owned'[e] \in Impls, Typed(e)
      PROVE  holds'[owned'[e]] = TypeOf[e]
  <2>1. CASE e = c
    <3>1. owned'[e] = owned[d] /\ holds[owned[d]] = TypeOf[e]
      BY <2>1, <1>1, <1>5 DEF MayTake
    <3>2. c # d => owned[d] # owned[c]
      BY <3>1, <1>5 DEF OwnerInv, OwnedOnce
    <3> QED BY <3>1, <3>2, <1>2, <1>5
  <2>2. CASE e # c
    <3>1. e # d BY <2>2, <1>1, <1>5
    <3>2. owned'[e] = owned[e] /\ owned[e] # owned[c]
      BY <2>2, <3>1, <1>1, <1>5 DEF OwnerInv, OwnedOnce
    <3> QED BY <3>2, <1>2, <1>5 DEF OwnerInv, OwnedOnce
  <2> QED BY <2>1, <2>2
<1> QED BY <1>3, <1>4, <1>5 DEF OwnedOnce, Typed

----------------------------------------------------------------------------
(* The operations.                                                         *)

LEMMA ClientCounts ==
  ASSUME ContinuationTypeOK, Client
  PROVE  steps' \in Nat
  BY DEF ContinuationTypeOK, Client

LEMMA ResetsKeepInv ==
  ASSUME OwnerInv, NEW c \in Continuations, NEW x, MayReset(c, x), Resets(c, x),
         thrown' \in Nat, steps' \in Nat
  PROVE  OwnerInv'
  BY ResetKeepsTypes, ResetKeepsOwners DEF OwnerInv, ContinuationTypeOK

LEMMA TakesKeepInv ==
  ASSUME OwnerInv, NEW c \in Continuations, NEW d \in Continuations, MayTake(c, d), TakesOver(c, d),
         thrown' \in Nat, steps' \in Nat
  PROVE  OwnerInv'
  BY TakeKeepsTypes, TakeKeepsOwners DEF OwnerInv, ContinuationTypeOK

\* The operations that make a variable own a new object, or nothing.
LEMMA ResettingSteps ==
  ASSUME OwnerInv, NEW c \in Continuations,
         \/ ConstructEmpty(c) \/ ConstructAnyEmpty(c) \/ AssignNull(c) \/ AssignAnyNull(c)
         \/ DestroyContinuation(c) \/ DestroyAnyContinuation(c)
         \/ \E o \in Impls : ConstructWrapped(c, o) \/ AssignWrapped(c, o)
  PROVE  OwnerInv'
<1>1. thrown' \in Nat /\ steps' \in Nat
  BY ClientCounts DEF OwnerInv, ContinuationTypeOK, ConstructEmpty, ConstructAnyEmpty, AssignNull,
     AssignAnyNull, DestroyContinuation, DestroyAnyContinuation, ConstructWrapped, AssignWrapped
<1>2. \E x : MayReset(c, x) /\ Resets(c, x)
  <2>1. CASE ConstructEmpty(c) \/ ConstructAnyEmpty(c) \/ AssignNull(c) \/ AssignAnyNull(c)
    <3>1. MayReset(c, "null") /\ Resets(c, "null")
      BY <2>1 DEF ConstructEmpty, ConstructAnyEmpty, AssignNull, AssignAnyNull, MayReset
    <3> QED BY <3>1
  <2>2. CASE DestroyContinuation(c) \/ DestroyAnyContinuation(c)
    <3>1. MayReset(c, "none") /\ Resets(c, "none")
      BY <2>2 DEF DestroyContinuation, DestroyAnyContinuation, MayReset
    <3> QED BY <3>1
  <2>3. ASSUME NEW o \in Impls, ConstructWrapped(c, o) \/ AssignWrapped(c, o)
        PROVE  \E x : MayReset(c, x) /\ Resets(c, x)
    <3>1. MayReset(c, o) /\ Resets(c, o)
      BY <2>3 DEF ConstructWrapped, AssignWrapped, MayReset, Unused
    <3> QED BY <3>1
  <2> QED BY <2>1, <2>2, <2>3
<1>3. PICK x : MayReset(c, x) /\ Resets(c, x) BY <1>2
<1> QED BY <1>1, <1>3, ResetsKeepInv

\* Those that move from another variable, of the same type or by a cast.
LEMMA TakingSteps ==
  ASSUME OwnerInv, NEW c \in Continuations, NEW d \in Continuations,
         \/ ConstructMoved(c, d) \/ ConstructAnyMoved(c, d) \/ AssignMoved(c, d) \/ AssignAnyMoved(c, d)
         \/ StaticCast(c, d)
  PROVE  OwnerInv'
<1>1. thrown' \in Nat /\ steps' \in Nat
  BY ClientCounts DEF OwnerInv, ContinuationTypeOK, ConstructMoved, ConstructAnyMoved, AssignMoved,
     AssignAnyMoved, StaticCast
<1>2. TakesOver(c, d) /\ owned[d] # "none"
  BY DEF ConstructMoved, ConstructAnyMoved, AssignMoved, AssignAnyMoved, StaticCast, Made
<1>3. owned[d] \in Impls /\ Typed(c) => holds[owned[d]] = TypeOf[c]
  <2>1. CASE ConstructMoved(c, d) \/ AssignMoved(c, d)
    BY <2>1 DEF ConstructMoved, AssignMoved, OwnerInv, OwnedOnce, Typed
  <2>2. CASE ConstructAnyMoved(c, d) \/ AssignAnyMoved(c, d)
    BY <2>2 DEF ConstructAnyMoved, AssignAnyMoved
  <2>3. CASE StaticCast(c, d)
    BY <2>3, ContinuationAssumption DEF StaticCast
  <2> QED BY <2>1, <2>2, <2>3
<1> QED BY <1>1, <1>2, <1>3, TakesKeepInv DEF MayTake

LEMMA CastStep ==
  ASSUME OwnerInv, NEW c \in Continuations, NEW d \in Continuations, ContinuationHandler(c, d)
  PROVE  OwnerInv'
<1>1. thrown' \in Nat /\ steps' \in Nat
  BY ClientCounts DEF OwnerInv, ContinuationTypeOK, ContinuationHandler, DynamicCast
<1>2. CASE Fits(c, d)
  <2>1. TakesOver(c, d) /\ MayTake(c, d)
    BY <1>2 DEF ContinuationHandler, DynamicCast, MayTake, Fits, Made
  <2> QED BY <1>1, <2>1, TakesKeepInv
<1>3. CASE ~Fits(c, d)
  <2>1. Resets(c, "null") /\ MayReset(c, "null")
    BY <1>3 DEF ContinuationHandler, DynamicCast, MayReset
  <2> QED BY <1>1, <2>1, ResetsKeepInv
<1> QED BY <1>2, <1>3

LEMMA CallStep ==
  ASSUME OwnerInv, NEW c \in Continuations, CallMade(c)
  PROVE  OwnerInv'
<1>1. steps' \in Nat BY ClientCounts DEF OwnerInv, CallMade
<1>2. thrown' \in Nat /\ spent' \subseteq Impls
  BY DEF OwnerInv, ContinuationTypeOK, CallMade, Made
<1>3. owned' = owned /\ holds' = holds BY DEF CallMade
<1> QED BY <1>1, <1>2, <1>3 DEF OwnerInv, ContinuationTypeOK, OwnedOnce, Typed

----------------------------------------------------------------------------
LEMMA OwnerInvariant == ContinuationSpec => []OwnerInv
<1>1. ContinuationStart(Nat) => OwnerInv
  BY ContinuationAssumption DEF ContinuationStart, OwnerInv, ContinuationTypeOK, OwnedOnce
<1>2. ASSUME OwnerInv, [ContinuationNext]_continuationVars PROVE OwnerInv'
  <2>1. CASE ContinuationNext
    <3>1. PICK c \in Continuations :
            \/ ConstructEmpty(c) \/ ConstructAnyEmpty(c) \/ AssignNull(c) \/ AssignAnyNull(c)
            \/ DestroyContinuation(c) \/ DestroyAnyContinuation(c) \/ CallMade(c)
            \/ \E o \in Impls : ConstructWrapped(c, o) \/ AssignWrapped(c, o)
            \/ \E d \in Continuations :
                 \/ ConstructMoved(c, d) \/ ConstructAnyMoved(c, d) \/ AssignMoved(c, d) \/ AssignAnyMoved(c, d)
                 \/ StaticCast(c, d) \/ ContinuationHandler(c, d)
      BY <2>1 DEF ContinuationNext
    <3> QED BY <1>2, <3>1, ResettingSteps, TakingSteps, CastStep, CallStep
  <2>2. CASE UNCHANGED continuationVars
    BY <1>2, <2>2 DEF OwnerInv, ContinuationTypeOK, OwnedOnce, Typed, continuationVars
  <2> QED BY <1>2, <2>1, <2>2
<1> QED BY <1>1, <1>2, PTL DEF ContinuationSpec

\* Every object that a continuation was made with has one owner until it is
\* deleted, and a variable of one signature owns none of another, through any
\* sequence of constructions, moves, assignments and casts
\* (continuation.h:126-184, 281-335, 384-396).
THEOREM OwnersAreUnique == ContinuationSpec => []OwnedOnce
<1>1. OwnerInv => OwnedOnce BY DEF OwnerInv
<1> QED BY <1>1, OwnerInvariant, PTL

LEMMA ContinuationTypes == ContinuationSpec => []ContinuationTypeOK
<1>1. OwnerInv => ContinuationTypeOK BY DEF OwnerInv
<1> QED BY <1>1, OwnerInvariant, PTL

----------------------------------------------------------------------------
(* Shared executors.                                                       *)

\* Holders whose pointer p is to o, an object; how many, as current and as old
\* implementation.
PointingTo(p, o) == {h \in Holders : p[h] = o}
Pointers(o) == Cardinality(PointingTo(impl, o)) + Cardinality(PointingTo(old, o))

Working(e) == {h \in Holders : owns[h] /\ impl[h] \in Objects /\ target[impl[h]] = e}

References ==
  \A o \in Objects : refs[o] = Pointers(o) /\ (target[o] = "deleted" <=> refs[o] = 0)
WorkCounts == \A e \in Targets : work[e] = Cardinality(Working(e))
Blocked == \A f \in Submitted : f \in wrapped <=> fate[f] \in Targets \cup {"system"}

\* What is not alive owns no work.
OwnersLive == \A h \in Holders : owns[h] => Alive(h)

PointerTypes ==
  /\ impl \in [Holders -> Objects \cup Shared \cup {"none"}]
  /\ old \in [Holders -> Objects \cup Shared \cup {"none"}]
ObjectTypes ==
  target \in [Objects -> Targets \cup {"deleted"}] /\ refs \in [Objects -> Nat]
WorkTypes == owns \in [Holders -> BOOLEAN] /\ work \in [Targets -> Int]
SendTypes ==
  /\ fate \in [Submitted -> Targets \cup {"made", "system", "thrown", "called", "destroyed"}]
  /\ wrapped \subseteq Submitted

SharesInv ==
  /\ PointerTypes /\ ObjectTypes /\ WorkTypes /\ SendTypes
  /\ References /\ WorkCounts /\ OwnersLive /\ Blocked

----------------------------------------------------------------------------
(* Counting.                                                               *)

LEMMA HoldersCount ==
  ASSUME NEW S \in SUBSET Holders
  PROVE  /\ IsFiniteSet(S) /\ Cardinality(S) \in Nat /\ (Cardinality(S) = 0 <=> S = {})
         /\ \A h \in Holders : /\ h \notin S => Cardinality(S \cup {h}) = Cardinality(S) + 1
                               /\ h \in S => Cardinality(S \ {h}) = Cardinality(S) - 1
<1>1. IsFiniteSet(S) BY ExecutorAssumption, FS_Subset
<1>2. Cardinality(S) \in Nat /\ (Cardinality(S) = 0 <=> S = {}) BY <1>1, FS_CardinalityType, FS_EmptySet
<1>3. ASSUME NEW h \in Holders
      PROVE  /\ h \notin S => Cardinality(S \cup {h}) = Cardinality(S) + 1
             /\ h \in S => Cardinality(S \ {h}) = Cardinality(S) - 1
  BY <1>1, FS_AddElement, FS_RemoveElement
<1> QED BY <1>1, <1>2, <1>3

LEMMA AtCount ==
  ASSUME NEW p, NEW o
  PROVE  /\ Cardinality(PointingTo(p, o)) \in Nat
         /\ \A h \in Holders : p[h] = o => Cardinality(PointingTo(p, o)) > 0
<1>1. PointingTo(p, o) \in SUBSET Holders BY DEF PointingTo
<1>2. Cardinality(PointingTo(p, o)) \in Nat /\ (Cardinality(PointingTo(p, o)) = 0 <=> PointingTo(p, o) = {}) BY <1>1, HoldersCount
<1>3. \A h \in Holders : p[h] = o => h \in PointingTo(p, o) BY DEF PointingTo
<1> QED BY <1>2, <1>3

Is(x, o) == IF x = o THEN 1 ELSE 0

\* One pointer changes.
AllBut(h, p, q) == \A k \in Holders : k # h => q[k] = p[k]

LEMMA OneMoves ==
  ASSUME NEW p, NEW q, NEW h \in Holders, NEW o, AllBut(h, p, q)
  PROVE  Cardinality(PointingTo(q, o)) = Cardinality(PointingTo(p, o)) + Is(q[h], o) - Is(p[h], o)
<1> DEFINE others == {k \in Holders : k # h /\ p[k] = o}
<1>1. others \in SUBSET Holders /\ h \notin others OBVIOUS
<1>2. Cardinality(others) \in Nat /\ Cardinality(others \cup {h}) = Cardinality(others) + 1
  BY <1>1, HoldersCount
<1>3. PointingTo(p, o) = IF p[h] = o THEN others \cup {h} ELSE others BY DEF PointingTo
<1>4. PointingTo(q, o) = IF q[h] = o THEN others \cup {h} ELSE others BY DEF PointingTo, AllBut
<1> HIDE DEF others
<1> QED BY <1>2, <1>3, <1>4 DEF Is

\* The pointers of two holders, or of one.
AllButTwo(h, g, p, q) == \A k \in Holders : k # h /\ k # g => q[k] = p[k]

Moved(h, g, o) ==
  Is(impl'[h], o) - Is(impl[h], o) + Is(old'[h], o) - Is(old[h], o)
    + (IF g = h THEN 0 ELSE Is(impl'[g], o) - Is(impl[g], o))

LEMMA PointersMove ==
  ASSUME PointerTypes, NEW h \in Holders, NEW g \in Holders, NEW o,
         AllButTwo(h, g, impl, impl'), AllBut(h, old, old')
  PROVE  Pointers(o)' = Pointers(o) + Moved(h, g, o)
<1> DEFINE mid == [k \in Holders |-> IF k = h THEN impl'[h] ELSE impl[k]]
<1>1. Pointers(o)' = Cardinality(PointingTo(impl', o)) + Cardinality(PointingTo(old', o)) BY DEF Pointers, PointingTo
<1>2. Cardinality(PointingTo(impl, o)) \in Nat /\ Cardinality(PointingTo(old, o)) \in Nat BY AtCount
<1>3. Cardinality(PointingTo(old', o)) = Cardinality(PointingTo(old, o)) + Is(old'[h], o) - Is(old[h], o)
  BY OneMoves
<1>4. Cardinality(PointingTo(mid, o)) = Cardinality(PointingTo(impl, o)) + Is(impl'[h], o) - Is(impl[h], o)
  <2>1. mid[h] = impl'[h] /\ AllBut(h, impl, mid) BY DEF AllBut
  <2> HIDE DEF mid
  <2> QED BY <2>1, OneMoves
<1>5. Cardinality(PointingTo(impl', o)) = Cardinality(PointingTo(mid, o)) + (IF g = h THEN 0 ELSE Is(impl'[g], o) - Is(impl[g], o))
  <2>1. AllBut(g, mid, impl') /\ (g = h => impl'[g] = mid[g]) /\ (g # h => mid[g] = impl[g])
    BY DEF AllBut, AllButTwo
  <2>2. Cardinality(PointingTo(mid, o)) \in Nat BY AtCount
  <2> HIDE DEF mid
  <2>3. Cardinality(PointingTo(impl', o)) = Cardinality(PointingTo(mid, o)) + Is(impl'[g], o) - Is(mid[g], o)
    BY <2>1, OneMoves
  <2> QED BY <2>1, <2>2, <2>3 DEF Is
<1> HIDE DEF mid
<1>6. Is(impl'[h], o) \in Int /\ Is(impl[h], o) \in Int /\ Is(old'[h], o) \in Int /\ Is(old[h], o) \in Int
      /\ (IF g = h THEN 0 ELSE Is(impl'[g], o) - Is(impl[g], o)) \in Int
  BY DEF Is
<1> QED BY <1>1, <1>2, <1>3, <1>4, <1>5, <1>6 DEF Pointers, Moved

LEMMA Pointed ==
  ASSUME NEW h \in Holders, NEW o
  PROVE  /\ Pointers(o) \in Nat
         /\ impl[h] = o \/ old[h] = o => Pointers(o) > 0
<1>1. Cardinality(PointingTo(impl, o)) \in Nat /\ Cardinality(PointingTo(old, o)) \in Nat BY AtCount
<1>2. impl[h] = o => Cardinality(PointingTo(impl, o)) > 0 BY AtCount
<1>3. old[h] = o => Cardinality(PointingTo(old, o)) > 0 BY AtCount
<1> QED BY <1>1, <1>2, <1>3 DEF Pointers

LEMMA PointedAfter ==
  ASSUME NEW h \in Holders, NEW o, impl'[h] = o
  PROVE  Pointers(o)' > 0
<1>1. Pointers(o)' = Cardinality(PointingTo(impl', o)) + Cardinality(PointingTo(old', o)) BY DEF Pointers, PointingTo
<1>2. Cardinality(PointingTo(impl', o)) \in Nat /\ Cardinality(PointingTo(old', o)) \in Nat BY AtCount
<1>3. Cardinality(PointingTo(impl', o)) > 0 BY AtCount
<1> QED BY <1>1, <1>2, <1>3

\* A holder's object is there.
LEMMA TargetThere ==
  ASSUME SharesInv, NEW h \in Holders, impl[h] \in Objects
  PROVE  target[impl[h]] \in Targets
<1>1. Pointers(impl[h]) > 0 /\ Pointers(impl[h]) \in Nat BY Pointed
<1>2. target[impl[h]] # "deleted" BY <1>1 DEF SharesInv, References
<1> QED BY <1>2 DEF SharesInv, ObjectTypes

----------------------------------------------------------------------------
(* Objects are made, shared and left.                                      *)

LEMMA Created ==
  ASSUME SharesInv, NEW e \in Targets \cup {"system"}, NEW o, Create(e, o),
         \A p \in Objects : Pointers(p)' = Pointers(p) + Is(o, p)
  PROVE  /\ ObjectTypes' /\ References'
         /\ \A p \in Objects : Pointers(p) > 0 => target'[p] = target[p]
<1> USE ExecutorAssumption
<1>1. CASE e = "system"
  <2>1. o = "system" /\ target' = target /\ refs' = refs BY <1>1 DEF Create
  <2>2. \A p \in Objects : Pointers(p)' = refs[p]
    <3> SUFFICES ASSUME NEW p \in Objects PROVE Pointers(p)' = refs[p] OBVIOUS
    <3>1. Is(o, p) = 0 BY <2>1 DEF Is
    <3>2. refs[p] = Pointers(p) /\ refs[p] \in Nat BY DEF SharesInv, References, ObjectTypes
    <3> QED BY <3>1, <3>2
  <2> QED BY <2>1, <2>2 DEF SharesInv, References, ObjectTypes
<1>2. CASE e # "system"
  <2>1. /\ o \in Objects /\ target[o] = "deleted" /\ e \in Targets
        /\ target' = [target EXCEPT ![o] = e] /\ refs' = [refs EXCEPT ![o] = 1]
    BY <1>2 DEF Create
  <2>2. /\ ObjectTypes'
        /\ \A p \in Objects : target'[p] = IF p = o THEN e ELSE target[p]
        /\ \A p \in Objects : refs'[p] = IF p = o THEN 1 ELSE refs[p]
    BY <2>1 DEF SharesInv, ObjectTypes
  <2>3. Pointers(o) = 0 BY <2>1 DEF SharesInv, References
  <2>4. ASSUME NEW p \in Objects PROVE refs'[p] = Pointers(p)' /\ (target'[p] = "deleted" <=> refs'[p] = 0)
    <3>1. refs[p] = Pointers(p) /\ refs[p] \in Nat /\ (target[p] = "deleted" <=> refs[p] = 0)
      BY DEF SharesInv, References, ObjectTypes
    <3>2. e # "deleted" BY <2>1
    <3> QED BY <2>1, <2>2, <2>3, <3>1, <3>2 DEF Is
  <2> QED BY <2>2, <2>3, <2>4 DEF References
<1> QED BY <1>1, <1>2

LEMMA Cloned ==
  ASSUME SharesInv, NEW o \in Objects \cup Shared, Clone(o), UNCHANGED target, o \in Objects => Pointers(o) > 0,
         \A p \in Objects : Pointers(p)' = Pointers(p) + Is(o, p)
  PROVE  ObjectTypes' /\ References'
<1> USE ExecutorAssumption
<1>1. \A p \in Objects : refs[p] = Pointers(p) /\ refs[p] \in Nat /\ (target[p] = "deleted" <=> refs[p] = 0)
  BY DEF SharesInv, References, ObjectTypes
<1>2. refs' \in [Objects -> Nat] /\ \A p \in Objects : refs'[p] = refs[p] + Is(o, p)
  <2>1. CASE o \in Shared
    <3>1. refs' = refs /\ \A p \in Objects : Is(o, p) = 0 BY <2>1 DEF Clone, Shared, Is
    <3> QED BY <1>1, <3>1 DEF SharesInv, ObjectTypes
  <2>2. CASE o \notin Shared
    <3>1. o \in Objects /\ refs' = [refs EXCEPT ![o] = @ + 1] BY <2>2 DEF Clone
    <3> QED BY <1>1, <3>1 DEF SharesInv, ObjectTypes, Is
  <2> QED BY <2>1, <2>2
<1>3. ObjectTypes' BY <1>2 DEF SharesInv, ObjectTypes
<1>4. ASSUME NEW p \in Objects PROVE refs'[p] = Pointers(p)' /\ (target'[p] = "deleted" <=> refs'[p] = 0)
  BY <1>1, <1>2 DEF Is
<1> QED BY <1>3, <1>4 DEF References

LEMMA Destroyed ==
  ASSUME SharesInv, NEW o \in Objects \cup Shared, Destroy(o), o \in Objects => Pointers(o) > 0,
         \A p \in Objects : Pointers(p)' = Pointers(p) - Is(o, p)
  PROVE  /\ ObjectTypes' /\ References'
         /\ \A p \in Objects : Pointers(p)' > 0 => target'[p] = target[p]
<1> USE ExecutorAssumption
<1>1. \A p \in Objects : refs[p] = Pointers(p) /\ refs[p] \in Nat /\ (target[p] = "deleted" <=> refs[p] = 0)
  BY DEF SharesInv, References, ObjectTypes
<1>2. CASE o \in Shared
  <2>1. refs' = refs /\ target' = target /\ \A p \in Objects : Is(o, p) = 0 BY <1>2 DEF Destroy, Shared, Is
  <2>2. ObjectTypes' BY <2>1 DEF SharesInv, ObjectTypes
  <2>3. \A p \in Objects : Pointers(p)' = refs[p] BY <1>1, <2>1
  <2> QED BY <1>1, <2>1, <2>2, <2>3 DEF References
<1>3. CASE o \notin Shared
  <2>1. /\ o \in Objects /\ refs' = [refs EXCEPT ![o] = @ - 1]
        /\ target' = [target EXCEPT ![o] = IF refs[o] = 1 THEN "deleted" ELSE @]
    BY <1>3 DEF Destroy
  <2>2. refs[o] > 0 BY <1>1, <2>1
  <2>3. /\ refs' \in [Objects -> Nat] /\ \A p \in Objects : refs'[p] = refs[p] - Is(o, p)
    BY <1>1, <2>1, <2>2 DEF SharesInv, ObjectTypes, Is
  <2>4. /\ target' \in [Objects -> Targets \cup {"deleted"}]
        /\ \A p \in Objects : target'[p] = IF p = o /\ refs[o] = 1 THEN "deleted" ELSE target[p]
    BY <2>1 DEF SharesInv, ObjectTypes
  <2>5. ASSUME NEW p \in Objects
        PROVE  /\ refs'[p] = Pointers(p)' /\ (target'[p] = "deleted" <=> refs'[p] = 0)
               /\ Pointers(p)' > 0 => target'[p] = target[p]
    BY <1>1, <2>2, <2>3, <2>4 DEF Is
  <2> QED BY <2>3, <2>4, <2>5 DEF References, ObjectTypes
<1> QED BY <1>2, <1>3

----------------------------------------------------------------------------
(* Work.                                                                   *)

LEMMA WorkStays ==
  ASSUME SharesInv, UNCHANGED <<owns, work>>,
         \A k \in Holders : owns[k] => impl'[k] = impl[k],
         \A k \in Holders : owns[k] /\ impl[k] \in Objects => target'[impl[k]] = target[impl[k]]
  PROVE  WorkTypes' /\ WorkCounts' /\ OwnersLive'
<1>1. WorkTypes' BY DEF SharesInv, WorkTypes
<1>2. \A e \in Targets : Working(e)' = Working(e) BY DEF Working
<1>3. WorkCounts' BY <1>2 DEF SharesInv, WorkCounts
<1>4. OwnersLive' BY DEF SharesInv, OwnersLive, Alive
<1> QED BY <1>1, <1>3, <1>4

----------------------------------------------------------------------------
(* Pointers, as the operations move them.                                  *)

LEMMA NotObjects ==
  /\ "none" \notin Objects /\ "bad" \notin Objects /\ "system" \notin Objects
  /\ \A p \in Objects : Is("none", p) = 0 /\ Is("bad", p) = 0 /\ Is("system", p) = 0
  /\ \A x, p : Is(x, p) \in {0, 1}
<1>1. "none" \notin Objects /\ "bad" \notin Objects /\ "system" \notin Objects BY ExecutorAssumption
<1> QED BY <1>1 DEF Is

LEMMA OneChanges ==
  ASSUME SharesInv, NEW h \in Holders, NEW x \in Objects \cup Shared \cup {"none"},
         impl' = [impl EXCEPT ![h] = x], old' = old
  PROVE  /\ PointerTypes' /\ \A k \in Holders : impl'[k] = IF k = h THEN x ELSE impl[k]
         /\ \A p \in Objects : Pointers(p)' = Pointers(p) + Is(x, p) - Is(impl[h], p)
<1>1. PointerTypes BY DEF SharesInv
<1>2. PointerTypes' /\ \A k \in Holders : impl'[k] = IF k = h THEN x ELSE impl[k] BY <1>1 DEF PointerTypes
<1>3. ASSUME NEW p \in Objects PROVE Pointers(p)' = Pointers(p) + Is(x, p) - Is(impl[h], p)
  <2>1. Pointers(p) \in Nat BY Pointed
  <2>2. AllButTwo(h, h, impl, impl') BY <1>2 DEF AllButTwo
  <2>3. AllBut(h, old, old') BY DEF AllBut
  <2>4. Pointers(p)' = Pointers(p) + Moved(h, h, p)
    BY <1>1, <2>2, <2>3, PointersMove
  <2>5. impl'[h] = x /\ old'[h] = old[h] BY <1>2
  <2> QED BY <2>1, <2>4, <2>5, NotObjects DEF Moved
<1> QED BY <1>2, <1>3

\* The first step of an assignment.
LEMMA OneBecomesOld ==
  ASSUME SharesInv, NEW h \in Holders, NEW x \in Objects \cup Shared, old[h] = "none",
         impl' = [impl EXCEPT ![h] = x], old' = [old EXCEPT ![h] = impl[h]]
  PROVE  /\ PointerTypes' /\ \A k \in Holders : impl'[k] = IF k = h THEN x ELSE impl[k]
         /\ \A p \in Objects : Pointers(p)' = Pointers(p) + Is(x, p)
<1>1. PointerTypes BY DEF SharesInv
<1>2. PointerTypes' /\ \A k \in Holders : impl'[k] = IF k = h THEN x ELSE impl[k] BY <1>1 DEF PointerTypes
<1>3. \A k \in Holders : old'[k] = IF k = h THEN impl[h] ELSE old[k] BY <1>1 DEF PointerTypes
<1>4. ASSUME NEW p \in Objects PROVE Pointers(p)' = Pointers(p) + Is(x, p)
  <2>1. Pointers(p) \in Nat BY Pointed
  <2>2. AllButTwo(h, h, impl, impl') BY <1>2 DEF AllButTwo
  <2>3. AllBut(h, old, old') BY <1>3 DEF AllBut
  <2>4. Pointers(p)' = Pointers(p) + Moved(h, h, p)
    BY <1>1, <2>2, <2>3, PointersMove
  <2>5. impl'[h] = x /\ old'[h] = impl[h] BY <1>2, <1>3
  <2> QED BY <2>1, <2>4, <2>5, NotObjects DEF Moved
<1> QED BY <1>2, <1>4

\* The last step of one.
LEMMA OldGoes ==
  ASSUME SharesInv, NEW h \in Holders, impl' = impl, old' = [old EXCEPT ![h] = "none"]
  PROVE  PointerTypes' /\ \A p \in Objects : Pointers(p)' = Pointers(p) - Is(old[h], p)
<1>1. PointerTypes BY DEF SharesInv
<1>2. PointerTypes' /\ \A k \in Holders : old'[k] = IF k = h THEN "none" ELSE old[k] BY <1>1 DEF PointerTypes
<1>3. ASSUME NEW p \in Objects PROVE Pointers(p)' = Pointers(p) - Is(old[h], p)
  <2>1. Pointers(p) \in Nat BY Pointed
  <2>2. AllButTwo(h, h, impl, impl') BY DEF AllButTwo
  <2>3. AllBut(h, old, old') BY <1>2 DEF AllBut
  <2>4. Pointers(p)' = Pointers(p) + Moved(h, h, p)
    BY <1>1, <2>2, <2>3, PointersMove
  <2>5. impl'[h] = impl[h] /\ old'[h] = "none" BY <1>2
  <2> QED BY <2>1, <2>4, <2>5, NotObjects DEF Moved
<1> QED BY <1>2, <1>3

\* A holder takes over from another, or from itself, which is then empty.
LEMMA OneTakesOver ==
  ASSUME SharesInv, NEW h \in Holders, NEW g \in Holders, old' = old,
         impl' = [[impl EXCEPT ![h] = impl[g]] EXCEPT ![g] = "bad"]
  PROVE  /\ PointerTypes'
         /\ \A k \in Holders : impl'[k] = IF k = g THEN "bad" ELSE IF k = h THEN impl[g] ELSE impl[k]
         /\ \A p \in Objects : Pointers(p)' = Pointers(p) - Is(impl[h], p)
<1>1. PointerTypes BY DEF SharesInv
<1>2. \A k \in Holders : impl'[k] = IF k = g THEN "bad" ELSE IF k = h THEN impl[g] ELSE impl[k]
  BY <1>1 DEF PointerTypes
<1>3. PointerTypes' BY <1>1 DEF PointerTypes, Shared
<1>4. ASSUME NEW p \in Objects PROVE Pointers(p)' = Pointers(p) - Is(impl[h], p)
  <2>1. Pointers(p) \in Nat BY Pointed
  <2>2. AllButTwo(h, g, impl, impl') BY <1>2 DEF AllButTwo
  <2>3. AllBut(h, old, old') BY DEF AllBut
  <2>4. Pointers(p)' = Pointers(p) + Moved(h, g, p)
    BY <1>1, <2>2, <2>3, PointersMove
  <2>5. impl'[g] = "bad" /\ (g # h => impl'[h] = impl[g]) /\ old'[h] = old[h] BY <1>2
  <2>6. CASE g = h BY <2>1, <2>4, <2>5, <2>6, NotObjects DEF Moved
  <2>7. CASE g # h BY <2>1, <2>4, <2>5, <2>7, NotObjects DEF Moved
  <2> QED BY <2>6, <2>7
<1> QED BY <1>2, <1>3, <1>4

----------------------------------------------------------------------------
(* The operations.                                                         *)

LEMMA ObjectsStay ==
  ASSUME SharesInv, UNCHANGED <<target, refs>>, \A p \in Objects : Pointers(p)' = Pointers(p)
  PROVE  ObjectTypes' /\ References'
  BY DEF SharesInv, ObjectTypes, References

LEMMA SendsStay ==
  ASSUME SharesInv, UNCHANGED sendVars
  PROVE  SendTypes' /\ Blocked'
  BY DEF SharesInv, SendTypes, Blocked, sendVars

LEMMA MadeEmpty ==
  ASSUME SharesInv, NEW h \in Holders, DefaultConstruct(h)
  PROVE  SharesInv'
<1>1. /\ impl[h] = "none" /\ impl' = [impl EXCEPT ![h] = "bad"] /\ "bad" \in Shared
      /\ UNCHANGED <<owns, old, target, refs, work, sendVars>>
  BY DEF DefaultConstruct, Free, Alive, Shared
<1>2. /\ PointerTypes' /\ \A k \in Holders : impl'[k] = IF k = h THEN "bad" ELSE impl[k]
      /\ \A p \in Objects : Pointers(p)' = Pointers(p) + Is("bad", p) - Is(impl[h], p)
  BY <1>1, OneChanges
<1>3. \A p \in Objects : Pointers(p)' = Pointers(p) BY <1>1, <1>2, NotObjects, Pointed
<1>4. ObjectTypes' /\ References' BY <1>1, <1>3, ObjectsStay
<1>5. WorkTypes' /\ WorkCounts' /\ OwnersLive'
  <2>1. \A k \in Holders : owns[k] => impl'[k] = impl[k] BY <1>1, <1>2 DEF SharesInv, OwnersLive, Alive
  <2> QED BY <1>1, <2>1, WorkStays
<1>6. SendTypes' /\ Blocked' BY <1>1, SendsStay
<1> QED BY <1>2, <1>4, <1>5, <1>6 DEF SharesInv

LEMMA MadeOfTarget ==
  ASSUME SharesInv, NEW h \in Holders, NEW e \in Targets \cup {"system"}, NEW o \in Objects \cup {"system"},
         WrapConstruct(h, e, o) \/ WrapAssign(h, e, o)
  PROVE  SharesInv'
<1>1. Create(e, o) /\ impl' = [impl EXCEPT ![h] = o] /\ UNCHANGED <<owns, work, sendVars>> /\ ~owns[h]
  BY DEF WrapConstruct, WrapAssign, Free, Plain, SharesInv, OwnersLive
<1>2. /\ PointerTypes' /\ \A k \in Holders : impl'[k] = IF k = h THEN o ELSE impl[k]
      /\ \A p \in Objects : Pointers(p)' = Pointers(p) + Is(o, p)
  <2>1. o \in Objects \cup Shared BY DEF Shared
  <2>2. CASE WrapConstruct(h, e, o)
    <3>1. impl[h] = "none" /\ old' = old BY <2>2 DEF WrapConstruct, Free, Alive
    <3>2. /\ PointerTypes' /\ \A k \in Holders : impl'[k] = IF k = h THEN o ELSE impl[k]
          /\ \A p \in Objects : Pointers(p)' = Pointers(p) + Is(o, p) - Is(impl[h], p)
      BY <1>1, <2>1, <3>1, OneChanges
    <3> QED BY <3>1, <3>2, NotObjects, Pointed
  <2>3. CASE WrapAssign(h, e, o)
    <3>1. old[h] = "none" /\ old' = [old EXCEPT ![h] = impl[h]] BY <2>3 DEF WrapAssign, Plain, Rests
    <3> QED BY <1>1, <2>1, <3>1, OneBecomesOld
  <2> QED BY <2>2, <2>3, <1>1
<1>3. ObjectTypes' /\ References' /\ \A p \in Objects : Pointers(p) > 0 => target'[p] = target[p]
  BY <1>1, <1>2, Created
<1>4. WorkTypes' /\ WorkCounts' /\ OwnersLive'
  <2>1. \A k \in Holders : owns[k] => impl'[k] = impl[k] BY <1>1, <1>2
  <2>2. \A k \in Holders : owns[k] /\ impl[k] \in Objects => target'[impl[k]] = target[impl[k]]
    BY <1>3, Pointed
  <2> QED BY <1>1, <2>1, <2>2, WorkStays
<1>5. SendTypes' /\ Blocked' BY <1>1, SendsStay
<1> QED BY <1>2, <1>3, <1>4, <1>5 DEF SharesInv

LEMMA MadeCopy ==
  ASSUME SharesInv, NEW h \in Holders, NEW g \in Holders, CopyConstruct(h, g) \/ CopyAssign(h, g)
  PROVE  SharesInv'
<1>1. /\ Clone(impl[g]) /\ impl' = [impl EXCEPT ![h] = impl[g]] /\ UNCHANGED <<owns, target, work, sendVars>>
      /\ ~owns[h] /\ impl[g] # "none"
  BY DEF CopyConstruct, CopyAssign, Free, Plain, Alive, SharesInv, OwnersLive
<1>2. impl[g] \in Objects \cup Shared BY <1>1 DEF SharesInv, PointerTypes
<1>3. /\ PointerTypes' /\ \A k \in Holders : impl'[k] = IF k = h THEN impl[g] ELSE impl[k]
      /\ \A p \in Objects : Pointers(p)' = Pointers(p) + Is(impl[g], p)
  <2>1. CASE CopyConstruct(h, g)
    <3>1. impl[h] = "none" /\ old' = old BY <2>1 DEF CopyConstruct, Free, Alive
    <3>2. /\ PointerTypes' /\ \A k \in Holders : impl'[k] = IF k = h THEN impl[g] ELSE impl[k]
          /\ \A p \in Objects : Pointers(p)' = Pointers(p) + Is(impl[g], p) - Is(impl[h], p)
      BY <1>1, <1>2, <3>1, OneChanges
    <3> QED BY <3>1, <3>2, NotObjects, Pointed
  <2>2. CASE CopyAssign(h, g)
    <3>1. old[h] = "none" /\ old' = [old EXCEPT ![h] = impl[h]] BY <2>2 DEF CopyAssign, Plain, Rests
    <3> QED BY <1>1, <1>2, <3>1, OneBecomesOld
  <2> QED BY <2>1, <2>2
<1>4. ObjectTypes' /\ References'
  <2>1. impl[g] \in Objects => Pointers(impl[g]) > 0 BY Pointed
  <2> QED BY <1>1, <1>2, <1>3, <2>1, Cloned
<1>5. WorkTypes' /\ WorkCounts' /\ OwnersLive'
  <2>1. \A k \in Holders : owns[k] => impl'[k] = impl[k] BY <1>1, <1>3
  <2> QED BY <1>1, <2>1, WorkStays
<1>6. SendTypes' /\ Blocked' BY <1>1, SendsStay
<1> QED BY <1>3, <1>4, <1>5, <1>6 DEF SharesInv

\* Moves into a new variable or an old one, and assignment of nothing.
LEMMA TakenOver ==
  ASSUME SharesInv, NEW h \in Holders, NEW g \in Holders, MoveConstruct(h, g) \/ MoveAssign(h, g)
  PROVE  SharesInv'
<1>1. /\ impl' = [[impl EXCEPT ![h] = impl[g]] EXCEPT ![g] = "bad"] /\ UNCHANGED <<owns, old, work, sendVars>>
      /\ ~owns[h] /\ ~owns[g]
  BY DEF MoveConstruct, MoveAssign, Free, Plain, SharesInv, OwnersLive
<1>2. /\ PointerTypes'
      /\ \A k \in Holders : impl'[k] = IF k = g THEN "bad" ELSE IF k = h THEN impl[g] ELSE impl[k]
      /\ \A p \in Objects : Pointers(p)' = Pointers(p) - Is(impl[h], p)
  BY <1>1, OneTakesOver
<1>3. ObjectTypes' /\ References' /\ \A p \in Objects : Pointers(p)' > 0 => target'[p] = target[p]
  <2>1. CASE MoveConstruct(h, g)
    <3>1. impl[h] = "none" /\ UNCHANGED <<target, refs>> BY <2>1 DEF MoveConstruct, Free, Alive
    <3>2. \A p \in Objects : Pointers(p)' = Pointers(p) BY <1>2, <3>1, NotObjects, Pointed
    <3> QED BY <3>1, <3>2, ObjectsStay
  <2>2. CASE MoveAssign(h, g)
    <3>1. Destroy(impl[h]) /\ impl[h] # "none" BY <2>2 DEF MoveAssign, Plain, Alive
    <3>2. impl[h] \in Objects \cup Shared BY <3>1 DEF SharesInv, PointerTypes
    <3>3. impl[h] \in Objects => Pointers(impl[h]) > 0 BY Pointed
    <3> QED BY <1>2, <3>1, <3>2, <3>3, Destroyed
  <2> QED BY <2>1, <2>2
<1>4. WorkTypes' /\ WorkCounts' /\ OwnersLive'
  <2>1. \A k \in Holders : owns[k] => impl'[k] = impl[k] BY <1>1, <1>2
  <2>2. \A k \in Holders : owns[k] /\ impl[k] \in Objects => target'[impl[k]] = target[impl[k]]
    BY <1>3, <2>1, PointedAfter
  <2> QED BY <1>1, <2>1, <2>2, WorkStays
<1>5. SendTypes' /\ Blocked' BY <1>1, SendsStay
<1> QED BY <1>2, <1>3, <1>4, <1>5 DEF SharesInv

LEMMA MadeNothing ==
  ASSUME SharesInv, NEW h \in Holders, NullAssign(h)
  PROVE  SharesInv'
<1>1. /\ impl' = [impl EXCEPT ![h] = "bad"] /\ "bad" \in Shared /\ UNCHANGED <<owns, old, work, sendVars>>
      /\ Destroy(impl[h]) /\ impl[h] # "none" /\ ~owns[h]
  BY DEF NullAssign, Plain, Alive, Shared
<1>2. /\ PointerTypes' /\ \A k \in Holders : impl'[k] = IF k = h THEN "bad" ELSE impl[k]
      /\ \A p \in Objects : Pointers(p)' = Pointers(p) + Is("bad", p) - Is(impl[h], p)
  BY <1>1, OneChanges
<1>3. \A p \in Objects : Pointers(p)' = Pointers(p) - Is(impl[h], p) BY <1>2, NotObjects, Pointed
<1>4. impl[h] \in Objects \cup Shared BY <1>1 DEF SharesInv, PointerTypes
<1>5. impl[h] \in Objects => Pointers(impl[h]) > 0 BY Pointed
<1>6. ObjectTypes' /\ References' /\ \A p \in Objects : Pointers(p)' > 0 => target'[p] = target[p]
  BY <1>1, <1>3, <1>4, <1>5, Destroyed
<1>7. WorkTypes' /\ WorkCounts' /\ OwnersLive'
  <2>1. \A k \in Holders : owns[k] => impl'[k] = impl[k] BY <1>1, <1>2
  <2>2. \A k \in Holders : owns[k] /\ impl[k] \in Objects => target'[impl[k]] = target[impl[k]]
    BY <1>6, <2>1, PointedAfter
  <2> QED BY <1>1, <2>1, <2>2, WorkStays
<1>8. SendTypes' /\ Blocked' BY <1>1, SendsStay
<1> QED BY <1>2, <1>6, <1>7, <1>8 DEF SharesInv

LEMMA OldDestroyed ==
  ASSUME SharesInv, NEW h \in Holders, DestroyOld(h)
  PROVE  SharesInv'
<1>1. /\ old' = [old EXCEPT ![h] = "none"] /\ UNCHANGED <<impl, owns, work, sendVars>>
      /\ Destroy(old[h]) /\ old[h] # "none"
  BY DEF DestroyOld
<1>2. PointerTypes' /\ \A p \in Objects : Pointers(p)' = Pointers(p) - Is(old[h], p) BY <1>1, OldGoes
<1>3. old[h] \in Objects \cup Shared BY <1>1 DEF SharesInv, PointerTypes
<1>4. old[h] \in Objects => Pointers(old[h]) > 0 BY Pointed
<1>5. ObjectTypes' /\ References' /\ \A p \in Objects : Pointers(p)' > 0 => target'[p] = target[p]
  BY <1>1, <1>2, <1>3, <1>4, Destroyed
<1>6. WorkTypes' /\ WorkCounts' /\ OwnersLive'
  <2>1. \A k \in Holders : owns[k] => impl'[k] = impl[k] BY <1>1
  <2>2. \A k \in Holders : owns[k] /\ impl[k] \in Objects => target'[impl[k]] = target[impl[k]]
    BY <1>1, <1>5, PointedAfter
  <2> QED BY <1>1, <2>1, <2>2, WorkStays
<1>7. SendTypes' /\ Blocked' BY <1>1, SendsStay
<1> QED BY <1>2, <1>5, <1>6, <1>7 DEF SharesInv

----------------------------------------------------------------------------
(* Work objects.                                                           *)

\* What one unit more or less does to the targets' counts.
LEMMA UnitsCounted ==
  ASSUME SharesInv, NEW g \in Holders, impl[g] # "none", NEW n \in Int, CountWork(impl[g], n)
  PROVE  /\ work' \in [Targets -> Int]
         /\ \A e \in Targets : work'[e] = IF impl[g] \in Objects /\ target[impl[g]] = e THEN work[e] + n ELSE work[e]
<1>1. work \in [Targets -> Int] BY DEF SharesInv, WorkTypes
<1>2. CASE impl[g] \in Shared
  <2>1. impl[g] \notin Objects /\ work' = work BY <1>2, NotObjects DEF Shared, CountWork
  <2> QED BY <1>1, <2>1
<1>3. CASE impl[g] \notin Shared
  <2>1. impl[g] \in Objects BY <1>3 DEF SharesInv, PointerTypes
  <2>2. target[impl[g]] \in Targets BY <2>1, TargetThere
  <2>3. work' = [work EXCEPT ![target[impl[g]]] = @ + n] BY <1>3 DEF CountWork
  <2> QED BY <1>1, <2>1, <2>2, <2>3
<1> QED BY <1>2, <1>3

LEMMA WorkingCount ==
  ASSUME NEW e, NEW h \in Holders
  PROVE  /\ Cardinality(Working(e)) \in Nat
         /\ h \notin Working(e) => Cardinality(Working(e) \cup {h}) = Cardinality(Working(e)) + 1
         /\ h \in Working(e) => Cardinality(Working(e) \ {h}) = Cardinality(Working(e)) - 1
<1>1. Working(e) \in SUBSET Holders BY DEF Working
<1> QED BY <1>1, HoldersCount

\* What is not counted as working any more.
LEMMA WorkGivenUp ==
  ASSUME SharesInv, NEW h \in Holders, impl[h] # "none", owns' = [owns EXCEPT ![h] = FALSE],
         IF owns[h] THEN CountWork(impl[h], -1) ELSE UNCHANGED work,
         \A k \in Holders : k # h => impl'[k] = impl[k],
         \A k \in Holders : k # h /\ impl[k] \in Objects => target'[impl[k]] = target[impl[k]]
  PROVE  WorkTypes' /\ WorkCounts' /\ OwnersLive'
<1>1. owns' \in [Holders -> BOOLEAN] BY DEF SharesInv, WorkTypes
<1>2. \A k \in Holders : owns'[k] <=> owns[k] /\ k # h BY DEF SharesInv, WorkTypes
<1>3. OwnersLive' BY <1>2 DEF SharesInv, OwnersLive, Alive
<1>4. \A e \in Targets : Working(e)' = Working(e) \ {h} BY <1>2 DEF Working
<1>5. work \in [Targets -> Int] /\ \A e \in Targets : work[e] = Cardinality(Working(e))
  BY DEF SharesInv, WorkTypes, WorkCounts
<1>6. CASE owns[h]
  <2>1. /\ work' \in [Targets -> Int]
        /\ \A e \in Targets : work'[e] = IF impl[h] \in Objects /\ target[impl[h]] = e THEN work[e] + (-1) ELSE work[e]
    BY <1>6, UnitsCounted
  <2>2. \A e \in Targets : h \in Working(e) <=> impl[h] \in Objects /\ target[impl[h]] = e BY <1>6 DEF Working
  <2>3. ASSUME NEW e \in Targets PROVE work'[e] = Cardinality(Working(e)')
    <3>1. CASE h \in Working(e) BY <1>4, <1>5, <2>1, <2>2, <3>1, WorkingCount
    <3>2. CASE h \notin Working(e)
      <4>1. Working(e)' = Working(e) BY <1>4, <3>2
      <4> QED BY <1>5, <2>1, <2>2, <3>2, <4>1
    <3> QED BY <3>1, <3>2
  <2> QED BY <1>1, <1>3, <2>1, <2>3 DEF WorkTypes, WorkCounts
<1>7. CASE ~owns[h]
  <2>1. \A e \in Targets : Working(e)' = Working(e) BY <1>4, <1>7 DEF Working
  <2>2. work' = work BY <1>7
  <2> QED BY <1>1, <1>3, <1>5, <2>1, <2>2 DEF WorkTypes, WorkCounts
<1> QED BY <1>6, <1>7

LEMMA WorkReset ==
  ASSUME SharesInv, NEW h \in Holders, ResetWork(h)
  PROVE  SharesInv'
<1>1. /\ impl[h] # "none" /\ owns[h] /\ CountWork(impl[h], -1) /\ owns' = [owns EXCEPT ![h] = FALSE]
      /\ UNCHANGED <<impl, old, target, refs, sendVars>>
  BY DEF ResetWork, Alive
<1>2. PointerTypes' BY <1>1 DEF SharesInv, PointerTypes
<1>3. \A p \in Objects : Pointers(p)' = Pointers(p) BY <1>1 DEF Pointers, PointingTo
<1>4. ObjectTypes' /\ References' BY <1>1, <1>3, ObjectsStay
<1>5. WorkTypes' /\ WorkCounts' /\ OwnersLive'
  <2>1. /\ \A k \in Holders : k # h => impl'[k] = impl[k]
        /\ \A k \in Holders : k # h /\ impl[k] \in Objects => target'[impl[k]] = target[impl[k]]
    BY <1>1
  <2> QED BY <1>1, <2>1, WorkGivenUp
<1>6. SendTypes' /\ Blocked' BY <1>1, SendsStay
<1> QED BY <1>2, <1>4, <1>5, <1>6 DEF SharesInv

LEMMA HolderDestroyed ==
  ASSUME SharesInv, NEW h \in Holders, Destruct(h)
  PROVE  SharesInv'
<1>1. /\ impl[h] # "none" /\ Destroy(impl[h]) /\ impl' = [impl EXCEPT ![h] = "none"]
      /\ IF owns[h] THEN CountWork(impl[h], -1) ELSE UNCHANGED work
      /\ owns' = [owns EXCEPT ![h] = FALSE] /\ UNCHANGED <<old, sendVars>>
  BY DEF Destruct, Alive
<1>2. /\ PointerTypes' /\ \A k \in Holders : impl'[k] = IF k = h THEN "none" ELSE impl[k]
      /\ \A p \in Objects : Pointers(p)' = Pointers(p) + Is("none", p) - Is(impl[h], p)
  BY <1>1, OneChanges
<1>3. \A p \in Objects : Pointers(p)' = Pointers(p) - Is(impl[h], p) BY <1>2, NotObjects, Pointed
<1>4. impl[h] \in Objects \cup Shared BY <1>1 DEF SharesInv, PointerTypes
<1>5. impl[h] \in Objects => Pointers(impl[h]) > 0 BY Pointed
<1>6. ObjectTypes' /\ References' /\ \A p \in Objects : Pointers(p)' > 0 => target'[p] = target[p]
  BY <1>1, <1>3, <1>4, <1>5, Destroyed
<1>7. WorkTypes' /\ WorkCounts' /\ OwnersLive'
  <2>1. \A k \in Holders : k # h => impl'[k] = impl[k] BY <1>2
  <2>2. \A k \in Holders : k # h /\ impl[k] \in Objects => target'[impl[k]] = target[impl[k]]
    BY <1>6, <2>1, PointedAfter
  <2> QED BY <1>1, <2>1, <2>2, WorkGivenUp
<1>8. SendTypes' /\ Blocked' BY <1>1, SendsStay
<1> QED BY <1>2, <1>6, <1>7, <1>8 DEF SharesInv

LEMMA WorkBegun ==
  ASSUME SharesInv, NEW h \in Holders, NEW g \in Holders, StartWork(h, g)
  PROVE  SharesInv'
<1>1. /\ impl[h] = "none" /\ impl[g] # "none" /\ Clone(impl[g]) /\ CountWork(impl[g], 1)
      /\ impl' = [impl EXCEPT ![h] = impl[g]] /\ owns' = [owns EXCEPT ![h] = TRUE]
      /\ UNCHANGED <<old, target, sendVars>>
  BY DEF StartWork, Free, Alive
<1>2. impl[g] \in Objects \cup Shared BY <1>1 DEF SharesInv, PointerTypes
<1>3. /\ PointerTypes' /\ \A k \in Holders : impl'[k] = IF k = h THEN impl[g] ELSE impl[k]
      /\ \A p \in Objects : Pointers(p)' = Pointers(p) + Is(impl[g], p) - Is(impl[h], p)
  BY <1>1, <1>2, OneChanges
<1>4. \A p \in Objects : Pointers(p)' = Pointers(p) + Is(impl[g], p) BY <1>1, <1>3, NotObjects, Pointed
<1>5. ObjectTypes' /\ References'
  <2>1. impl[g] \in Objects => Pointers(impl[g]) > 0 BY Pointed
  <2> QED BY <1>1, <1>2, <1>4, <2>1, Cloned
<1>6. owns' \in [Holders -> BOOLEAN] /\ ~owns[h] BY <1>1 DEF SharesInv, WorkTypes, OwnersLive, Alive
<1>7. \A k \in Holders : owns'[k] <=> owns[k] \/ k = h BY <1>1 DEF SharesInv, WorkTypes
<1>8. OwnersLive' BY <1>1, <1>3, <1>7 DEF SharesInv, OwnersLive, Alive
<1>9. WorkTypes' /\ WorkCounts'
  <2>1. /\ work' \in [Targets -> Int]
        /\ \A e \in Targets : work'[e] = IF impl[g] \in Objects /\ target[impl[g]] = e THEN work[e] + 1 ELSE work[e]
    BY <1>1, UnitsCounted
  <2>2. ASSUME NEW e \in Targets PROVE work'[e] = Cardinality(Working(e)')
    <3>1. h \notin Working(e) BY <1>6 DEF Working
    <3>2. Working(e)' = IF impl[g] \in Objects /\ target[impl[g]] = e THEN Working(e) \cup {h} ELSE Working(e)
      BY <1>1, <1>3, <1>6, <1>7 DEF Working
    <3>3. work[e] = Cardinality(Working(e)) BY DEF SharesInv, WorkCounts
    <3> QED BY <2>1, <3>1, <3>2, <3>3, WorkingCount
  <2> QED BY <1>6, <2>1, <2>2 DEF WorkTypes, WorkCounts
<1>10. SendTypes' /\ Blocked' BY <1>1, SendsStay
<1> QED BY <1>3, <1>5, <1>8, <1>9, <1>10 DEF SharesInv

LEMMA WorkMoved ==
  ASSUME SharesInv, NEW h \in Holders, NEW g \in Holders, MoveWork(h, g)
  PROVE  SharesInv'
<1>1. /\ impl[h] = "none" /\ impl[g] # "none" /\ owns[g] /\ h # g
      /\ impl' = [[impl EXCEPT ![h] = impl[g]] EXCEPT ![g] = "bad"]
      /\ UNCHANGED <<old, target, refs, work, sendVars>>
  BY DEF MoveWork, Free, Alive
<1>2. owns' \in [Holders -> BOOLEAN] /\ \A k \in Holders : owns'[k] <=> (owns[k] \/ k = h) /\ k # g
  <2>1. owns' = [owns EXCEPT ![h] = TRUE, ![g] = FALSE] /\ owns \in [Holders -> BOOLEAN]
    BY DEF MoveWork, SharesInv, WorkTypes
  <2> QED BY <1>1, <2>1
<1>3. ~owns[h] BY <1>1 DEF SharesInv, OwnersLive, Alive
<1>4. /\ PointerTypes'
      /\ \A k \in Holders : impl'[k] = IF k = g THEN "bad" ELSE IF k = h THEN impl[g] ELSE impl[k]
      /\ \A p \in Objects : Pointers(p)' = Pointers(p) - Is(impl[h], p)
  BY <1>1, OneTakesOver
<1>5. \A p \in Objects : Pointers(p)' = Pointers(p) BY <1>1, <1>4, NotObjects, Pointed
<1>6. ObjectTypes' /\ References' BY <1>1, <1>5, ObjectsStay
<1>7. OwnersLive' BY <1>1, <1>2, <1>4 DEF SharesInv, OwnersLive, Alive
<1>8. WorkTypes' BY <1>1, <1>2 DEF SharesInv, WorkTypes
<1>9. ASSUME NEW e \in Targets PROVE work'[e] = Cardinality(Working(e)')
  <2>1. work'[e] = Cardinality(Working(e)) BY <1>1 DEF SharesInv, WorkCounts
  <2>2. h \notin Working(e) BY <1>3 DEF Working
  <2>3. Working(e)' = IF g \in Working(e) THEN (Working(e) \ {g}) \cup {h} ELSE Working(e)
    <3>1. \A k \in Holders : k \in Working(e)' <=> owns'[k] /\ impl'[k] \in Objects /\ target[impl'[k]] = e
      BY <1>1 DEF Working
    <3>2. \A k \in Holders : k \in Working(e) <=> owns[k] /\ impl[k] \in Objects /\ target[impl[k]] = e
      BY DEF Working
    <3>3. g \notin Working(e)' BY <1>2, <3>1
    <3>4. owns'[h] /\ impl'[h] = impl[g] BY <1>1, <1>2, <1>4
    <3>5. h \in Working(e)' <=> g \in Working(e) BY <1>1, <3>1, <3>2, <3>4
    <3>6. ASSUME NEW k \in Holders, k # g, k # h PROVE k \in Working(e)' <=> k \in Working(e)
      <4>1. (owns'[k] <=> owns[k]) /\ impl'[k] = impl[k] BY <1>2, <1>4, <3>6
      <4> QED BY <3>1, <3>2, <4>1
    <3>7. Working(e) \subseteq Holders /\ Working(e)' \subseteq Holders BY DEF Working
    <3> QED BY <2>2, <3>3, <3>5, <3>6, <3>7
  <2>4. CASE g \in Working(e)
    <3> DEFINE rest == Working(e) \ {g}
    <3>1. rest \in SUBSET Holders /\ h \notin rest BY <2>2 DEF Working
    <3>2. Cardinality(rest) = Cardinality(Working(e)) - 1 /\ Cardinality(Working(e)) \in Nat
      BY <2>4, WorkingCount
    <3>3. Working(e)' = rest \cup {h} BY <2>3, <2>4
    <3> HIDE DEF rest
    <3>4. Cardinality(rest \cup {h}) = Cardinality(rest) + 1 BY <3>1, HoldersCount
    <3> QED BY <2>1, <3>2, <3>3, <3>4
  <2>5. CASE g \notin Working(e) BY <2>1, <2>3, <2>5
  <2> QED BY <2>4, <2>5
<1>10. SendTypes' /\ Blocked' BY <1>1, SendsStay
<1> QED BY <1>4, <1>6, <1>7, <1>8, <1>9, <1>10 DEF SharesInv, WorkCounts

----------------------------------------------------------------------------
(* Functions.                                                              *)

LEMMA FunctionsOnly ==
  ASSUME SharesInv, UNCHANGED <<impl, owns, old, target, refs, work>>
  PROVE  PointerTypes' /\ ObjectTypes' /\ WorkTypes' /\ References' /\ WorkCounts' /\ OwnersLive'
<1>1. \A p \in Objects : Pointers(p)' = Pointers(p) BY DEF Pointers, PointingTo
<1>2. PointerTypes' BY DEF SharesInv, PointerTypes
<1>3. ObjectTypes' /\ References' BY <1>1, ObjectsStay
<1>4. WorkTypes' /\ WorkCounts' /\ OwnersLive' BY WorkStays
<1> QED BY <1>2, <1>3, <1>4

LEMMA FunctionSent ==
  ASSUME SharesInv, NEW h \in Holders, NEW f \in Submitted, DispatchOn(h, f) \/ PostOn(h, f) \/ DeferOn(h, f)
  PROVE  SharesInv'
<1> USE ExecutorAssumption
<1>1. /\ impl[h] # "none" /\ fate[f] = "made" /\ UNCHANGED <<impl, owns, old, target, refs, work>>
      /\ SendTo(impl[h], f) \/ (fate' = [fate EXCEPT ![f] = "called"] /\ UNCHANGED wrapped)
  BY DEF DispatchOn, PostOn, DeferOn, Unsent, Alive
<1>2. f \notin wrapped BY <1>1 DEF SharesInv, Blocked
<1>3. SendTypes' /\ Blocked'
  <2>1. \A x \in Targets \cup {"system"} : x # "thrown" /\ x # "called" OBVIOUS
  <2>2. ASSUME NEW x \in {"thrown", "called"}, fate' = [fate EXCEPT ![f] = x], UNCHANGED wrapped
        PROVE  SendTypes' /\ Blocked'
    BY <1>2, <2>1, <2>2 DEF SharesInv, SendTypes, Blocked
  <2>3. ASSUME NEW x \in Targets \cup {"system"}, fate' = [fate EXCEPT ![f] = x], wrapped' = wrapped \cup {f}
        PROVE  SendTypes' /\ Blocked'
    BY <2>3 DEF SharesInv, SendTypes, Blocked
  <2>4. CASE SendTo(impl[h], f) /\ impl[h] # "bad"
    <3>1. impl[h] # "system" => impl[h] \in Objects BY <1>1, <2>4 DEF SharesInv, PointerTypes, Shared
    <3>2. impl[h] # "system" => target[impl[h]] \in Targets BY <3>1, TargetThere
    <3> QED BY <2>3, <2>4, <3>2 DEF SendTo
  <2> QED BY <1>1, <2>2, <2>4 DEF SendTo
<1> QED BY <1>1, <1>3, FunctionsOnly DEF SharesInv

LEMMA FunctionGone ==
  ASSUME SharesInv, NEW f \in Submitted, CallSent(f) \/ DestroySent(f)
  PROVE  SharesInv'
<1> USE ExecutorAssumption
<1>1. PICK x \in {"called", "destroyed"} :
        /\ wrapped' = wrapped \ {f} /\ fate' = [fate EXCEPT ![f] = x]
        /\ UNCHANGED <<impl, owns, old, target, refs, work>>
  BY DEF CallSent, DestroySent
<1>2. SendTypes' /\ Blocked'
  <2>1. x \notin Targets \cup {"system"} BY <1>1
  <2> QED BY <1>1, <2>1 DEF SharesInv, SendTypes, Blocked
<1> QED BY <1>1, <1>2, FunctionsOnly DEF SharesInv

----------------------------------------------------------------------------
LEMMA SharesInvariant == ExecutorSpec => []SharesInv
<1>1. ExecutorStart(Nat) => SharesInv
  <2> SUFFICES ASSUME ExecutorStart(Nat) PROVE SharesInv OBVIOUS
  <2>1. /\ impl = [h \in Holders |-> "none"] /\ old = [h \in Holders |-> "none"]
        /\ target = [o \in Objects |-> "deleted"] /\ refs = [o \in Objects |-> 0]
    BY DEF ExecutorStart
  <2>2. owns = [h \in Holders |-> FALSE] /\ work = [e \in Targets |-> 0] BY DEF ExecutorStart
  <2>3. fate = [f \in Submitted |-> "made"] /\ wrapped = {} BY DEF ExecutorStart
  <2>4. Cardinality({}) = 0 BY FS_EmptySet
  <2>5. PointerTypes /\ ObjectTypes BY <2>1 DEF PointerTypes, ObjectTypes
  <2>6. WorkTypes /\ OwnersLive BY <2>2 DEF WorkTypes, OwnersLive
  <2>7. References
    <3> SUFFICES ASSUME NEW o \in Objects
                 PROVE  refs[o] = Pointers(o) /\ (target[o] = "deleted" <=> refs[o] = 0)
      BY DEF References
    <3>1. PointingTo(impl, o) = {} /\ PointingTo(old, o) = {} BY <2>1, ExecutorAssumption DEF PointingTo
    <3>2. Pointers(o) = 0 BY <2>4, <3>1 DEF Pointers
    <3> QED BY <2>1, <3>2
  <2>8. WorkCounts
    <3>1. \A e \in Targets : Working(e) = {} BY <2>2 DEF Working
    <3> QED BY <2>2, <2>4, <3>1 DEF WorkCounts
  <2>9. SendTypes /\ Blocked BY <2>3, ExecutorAssumption DEF SendTypes, Blocked
  <2> QED BY <2>5, <2>6, <2>7, <2>8, <2>9 DEF SharesInv
<1>2. SharesInv /\ [ExecutorNext]_executorVars => SharesInv'
  <2> SUFFICES ASSUME SharesInv, [ExecutorNext]_executorVars PROVE SharesInv' OBVIOUS
  <2>1. ASSUME NEW f \in Submitted, CallSent(f) \/ DestroySent(f) PROVE SharesInv' BY <2>1, FunctionGone
  <2>2. ASSUME NEW h \in Holders,
               DefaultConstruct(h) \/ NullAssign(h) \/ DestroyOld(h) \/ ResetWork(h) \/ Destruct(h)
        PROVE  SharesInv'
    BY <2>2, MadeEmpty, MadeNothing, OldDestroyed, WorkReset, HolderDestroyed
  <2>3. ASSUME NEW h \in Holders, NEW e \in Targets \cup {"system"}, NEW o \in Objects \cup {"system"},
               WrapConstruct(h, e, o) \/ WrapAssign(h, e, o)
        PROVE  SharesInv'
    BY <2>3, MadeOfTarget
  <2>4. ASSUME NEW h \in Holders, NEW g \in Holders,
               \/ CopyConstruct(h, g) \/ MoveConstruct(h, g) \/ CopyAssign(h, g) \/ MoveAssign(h, g)
               \/ StartWork(h, g) \/ MoveWork(h, g)
        PROVE  SharesInv'
    BY <2>4, MadeCopy, TakenOver, WorkBegun, WorkMoved
  <2>5. ASSUME NEW h \in Holders, NEW f \in Submitted, DispatchOn(h, f) \/ PostOn(h, f) \/ DeferOn(h, f)
        PROVE  SharesInv'
    BY <2>5, FunctionSent
  <2>6. CASE UNCHANGED executorVars
    <3>1. UNCHANGED <<impl, owns, old, target, refs, work>> /\ UNCHANGED sendVars
      BY <2>6 DEF executorVars, sendVars
    <3> QED BY <3>1, FunctionsOnly, SendsStay DEF SharesInv
  <2> QED BY <2>1, <2>2, <2>3, <2>4, <2>5, <2>6 DEF ExecutorNext
<1> QED BY <1>1, <1>2, PTL DEF ExecutorSpec

\* Objects of polymorphic executors are counted and deleted exactly, and so are
\* the units of work of their targets and the blocks of the functions sent to
\* them (executor.h:42-135, 364-433, executor_work.h:22-73).
THEOREM CountsAreExact == ExecutorSpec => []SharesExact
<1>1. SharesInv => SharesExact
  BY DEF SharesInv, References, WorkCounts, Blocked, SharesExact, Pointers, PointingTo, Working
<1> QED BY <1>1, SharesInvariant, PTL

LEMMA BudgetKept ==
  ASSUME budget \in Nat, [ExecutorNext]_executorVars
  PROVE  budget' \in Nat
<1>1. ASSUME Spend PROVE budget' \in Nat BY <1>1 DEF Spend
<1>2. ASSUME NEW f \in Submitted, CallSent(f) \/ DestroySent(f) PROVE budget' \in Nat
  BY <1>2 DEF CallSent, DestroySent
<1>3. ASSUME NEW h \in Holders,
             DefaultConstruct(h) \/ NullAssign(h) \/ DestroyOld(h) \/ ResetWork(h) \/ Destruct(h)
      PROVE  budget' \in Nat
  BY <1>1, <1>3 DEF DefaultConstruct, NullAssign, DestroyOld, ResetWork, Destruct
<1>4. ASSUME NEW h \in Holders, NEW e \in Targets \cup {"system"}, NEW o \in Objects \cup {"system"},
             WrapConstruct(h, e, o) \/ WrapAssign(h, e, o)
      PROVE  budget' \in Nat
  BY <1>1, <1>4 DEF WrapConstruct, WrapAssign
<1>5. ASSUME NEW h \in Holders, NEW g \in Holders,
             \/ CopyConstruct(h, g) \/ MoveConstruct(h, g) \/ CopyAssign(h, g) \/ MoveAssign(h, g)
             \/ StartWork(h, g) \/ MoveWork(h, g)
      PROVE  budget' \in Nat
  BY <1>1, <1>5 DEF CopyConstruct, MoveConstruct, CopyAssign, MoveAssign, StartWork, MoveWork
<1>6. ASSUME NEW h \in Holders, NEW f \in Submitted, DispatchOn(h, f) \/ PostOn(h, f) \/ DeferOn(h, f)
      PROVE  budget' \in Nat
  BY <1>1, <1>6 DEF DispatchOn, PostOn, DeferOn, Unsent
<1>7. CASE UNCHANGED executorVars BY <1>7 DEF executorVars
<1> QED BY <1>2, <1>3, <1>4, <1>5, <1>6, <1>7 DEF ExecutorNext

LEMMA ExecutorTypes == ExecutorSpec => []ExecutorTypeOK
<1> DEFINE Budgeted == budget \in Nat
<1>1. ExecutorStart(Nat) => Budgeted BY DEF ExecutorStart
<1>2. Budgeted /\ [ExecutorNext]_executorVars => Budgeted' BY BudgetKept
<1>3. SharesInv /\ Budgeted => ExecutorTypeOK
  BY DEF SharesInv, PointerTypes, ObjectTypes, WorkTypes, SendTypes, ExecutorTypeOK
<1> HIDE DEF Budgeted
<1> QED BY <1>1, <1>2, <1>3, SharesInvariant, PTL DEF ExecutorSpec

----------------------------------------------------------------------------
(* Timed calls, and the end of their pool.                                 *)

\* The reactor's thread completes at most one call, and one that has left its
\* timer; a call whose function is not in the pool yet holds work.
CompletesOne ==
  \A c \in TimedCalls :
    /\ place[c] = "completing" => reacting = c
    /\ reacting = c => place[c] \notin {"none", "timing", "ready"}
    /\ place[c] \in {"timing", "ready", "completing"} => c \in tasks

\* What each stage of the pool's end leaves of the calls.
Dead   == {"dead", "shut", "unserved", "gone"}
Shut   == {"shut", "unserved", "gone"}
CallStages ==
  \A c \in TimedCalls :
    /\ pool = "joined" => place[c] \in {"none", "over"}
    /\ pool \in Dead => place[c] \notin {"queued", "running"}
    /\ pool \in Shut => place[c] \notin {"timing", "ready"}
    /\ pool = "gone" => place[c] # "completing"
    /\ place[c] = "lost" => pool \in Dead

\* A timer is there while its function is somewhere, and went in time.
Timers ==
  \A c \in TimedCalls :
    /\ clock[c] = "alive" => place[c] \notin {"none", "over"}
    /\ clock[c] # "orphan"

TimedInv == TimedTypeOK /\ CompletesOne /\ CallStages /\ Timers

----------------------------------------------------------------------------
\* What goes, goes to its end.
LEMMA GoneShape ==
  ASSUME TimedTypeOK, NEW gone \in SUBSET TimedCalls, GoneWith(gone)
  PROVE  /\ place' \in [TimedCalls -> Places]
         /\ clock' \in [TimedCalls -> {"none", "alive", "gone", "orphan"}]
         /\ \A c \in TimedCalls : place'[c] = IF c \in gone THEN "over" ELSE place[c]
         /\ \A c \in TimedCalls :
              clock'[c] = IF c \notin gone THEN clock[c]
                          ELSE IF pool = "unserved" THEN "orphan" ELSE "gone"
  BY DEF TimedTypeOK, GoneWith, Places

\* While the pool is served, or where nothing goes, the timers go in time.
LEMMA GoneInTime ==
  ASSUME TimedTypeOK, Timers, NEW gone \in SUBSET TimedCalls, GoneWith(gone),
         pool = "unserved" => gone = {}
  PROVE  Timers'
<1>1. \A c \in TimedCalls : place'[c] = IF c \in gone THEN "over" ELSE place[c]
  BY GoneShape
<1>2. \A c \in TimedCalls : clock'[c] = IF c \in gone THEN "gone" ELSE clock[c]
  BY GoneShape
<1> QED BY <1>1, <1>2 DEF Timers

----------------------------------------------------------------------------
(* The steps.                                                              *)

LEMMA StartStep ==
  ASSUME TimedInv, NEW c \in TimedCalls, Start(c)
  PROVE  TimedInv'
<1> USE TimedAssumption DEF TimedInv
<1>1. CASE place' = [place EXCEPT ![c] = "timing"] /\ clock' = [clock EXCEPT ![c] = "alive"]
           /\ tasks' = tasks \cup {c}
  BY <1>1 DEF Start, TimedTypeOK, CompletesOne, CallStages, Timers, Dead, Shut, Places
<1>2. CASE GoneWith({c}) /\ tasks' = tasks
  <2>1. /\ place' \in [TimedCalls -> Places]
        /\ clock' \in [TimedCalls -> {"none", "alive", "gone", "orphan"}]
        /\ \A d \in TimedCalls : place'[d] = IF d = c THEN "over" ELSE place[d]
    BY <1>2, GoneShape
  <2>2. Timers' BY <1>2, GoneInTime DEF Start
  <2>3. TimedTypeOK' BY <1>2, <2>1 DEF TimedTypeOK, Start
  <2>4. CompletesOne' BY <1>2, <2>1 DEF CompletesOne, Start
  <2>5. CallStages' BY <1>2, <2>1 DEF CallStages, Start, Dead, Shut
  <2> QED BY <2>2, <2>3, <2>4, <2>5
<1> QED BY <1>1, <1>2 DEF Start

\* The reactor's thread, and a pool's thread that begins a function.
LEMMA ReactorSteps ==
  ASSUME TimedInv, NEW c \in TimedCalls,
         Due(c) \/ CompleteWait(c) \/ PostFunction(c) \/ FinishWork(c) \/ RunFunction(c)
  PROVE  TimedInv'
<1> USE TimedAssumption DEF TimedInv, TimedTypeOK, CompletesOne, CallStages, Timers, Dead, Shut, Places
<1>1. CASE Due(c) BY <1>1 DEF Due
<1>2. CASE CompleteWait(c) BY <1>2 DEF CompleteWait, HoldsWork
<1>3. CASE PostFunction(c) BY <1>3 DEF PostFunction
<1>4. CASE FinishWork(c) BY <1>4 DEF FinishWork
<1>5. CASE RunFunction(c) BY <1>5 DEF RunFunction
<1> QED BY <1>1, <1>2, <1>3, <1>4, <1>5

LEMMA FunctionEndsStep ==
  ASSUME TimedInv, NEW c \in TimedCalls, FunctionEnds(c)
  PROVE  TimedInv'
<1>1. pool \notin Dead BY DEF TimedInv, CallStages, FunctionEnds
<1>2. /\ place' \in [TimedCalls -> Places]
      /\ clock' \in [TimedCalls -> {"none", "alive", "gone", "orphan"}]
      /\ \A d \in TimedCalls : place'[d] = IF d = c THEN "over" ELSE place[d]
  BY GoneShape DEF TimedInv, FunctionEnds
<1>3. Timers' BY <1>1, GoneInTime DEF TimedInv, FunctionEnds, Dead
<1>4. TimedTypeOK' BY <1>2 DEF TimedInv, TimedTypeOK, FunctionEnds
<1>5. CompletesOne' BY <1>2 DEF TimedInv, CompletesOne, FunctionEnds
<1>6. CallStages' BY <1>2 DEF TimedInv, CallStages, FunctionEnds, Dead, Shut
<1> QED BY <1>3, <1>4, <1>5, <1>6 DEF TimedInv

\* The stages of the pool's end in which no function goes.
LEMMA QuietStages ==
  ASSUME TimedInv, JoinPool \/ PoolJoined \/ StopPool \/ DestroyTimerService
  PROVE  TimedInv'
<1> USE DEF TimedInv, TimedTypeOK, CompletesOne, CallStages, Timers, Dead, Shut, Places, Reaches
<1>1. CASE JoinPool BY <1>1 DEF JoinPool
<1>2. CASE PoolJoined BY <1>2 DEF PoolJoined, CallsIn
<1>3. CASE StopPool BY <1>3 DEF StopPool
<1>4. CASE DestroyTimerService BY <1>4 DEF DestroyTimerService
<1> QED BY <1>1, <1>2, <1>3, <1>4

\* With the scheduler go the functions in its queue.
LEMMA SchedulerStep ==
  ASSUME TimedInv, DestroyScheduler
  PROVE  TimedInv'
<1> DEFINE gone == CallsIn({"queued"})
<1>1. pool = "stopping" /\ pool' = "dead" /\ reacting' = reacting /\ tasks' = tasks /\ GoneWith(gone)
  BY DEF DestroyScheduler, Reaches
<1>2. gone \in SUBSET TimedCalls /\ \A c \in TimedCalls : c \in gone <=> place[c] = "queued"
  BY DEF CallsIn
<1>3. \A c \in TimedCalls : place[c] # "running" BY DEF DestroyScheduler, CallsIn
<1> HIDE DEF gone
<1>4. /\ place' \in [TimedCalls -> Places]
      /\ clock' \in [TimedCalls -> {"none", "alive", "gone", "orphan"}]
      /\ \A c \in TimedCalls : place'[c] = IF place[c] = "queued" THEN "over" ELSE place[c]
  BY <1>1, <1>2, GoneShape DEF TimedInv
<1>5. Timers' BY <1>1, <1>2, GoneInTime DEF TimedInv
<1>6. TimedTypeOK' BY <1>1, <1>4 DEF TimedInv, TimedTypeOK
<1>7. CompletesOne' BY <1>1, <1>4 DEF TimedInv, CompletesOne
<1>8. CallStages' BY <1>1, <1>3, <1>4 DEF TimedInv, CallStages, Dead, Shut
<1> QED BY <1>5, <1>6, <1>7, <1>8 DEF TimedInv

\* With the reactor's shutdown go the waits, and their work.
LEMMA PoolShutdownStep ==
  ASSUME TimedInv, ShutdownReactor
  PROVE  TimedInv'
<1> DEFINE gone == Waits
<1>1. pool = "dead" /\ pool' = "shut" /\ reacting' = reacting /\ tasks' = tasks \ gone /\ GoneWith(gone)
  BY DEF ShutdownReactor, Reaches
<1>2. gone \in SUBSET TimedCalls /\ \A c \in TimedCalls : c \in gone <=> place[c] \in {"timing", "ready"}
  BY DEF Waits, CallsIn
<1> HIDE DEF gone
<1>3. /\ place' \in [TimedCalls -> Places]
      /\ clock' \in [TimedCalls -> {"none", "alive", "gone", "orphan"}]
      /\ \A c \in TimedCalls : place'[c] = IF place[c] \in {"timing", "ready"} THEN "over" ELSE place[c]
  BY <1>1, <1>2, GoneShape DEF TimedInv
<1>4. Timers' BY <1>1, <1>2, GoneInTime DEF TimedInv
<1>5. TimedTypeOK' BY <1>1, <1>3 DEF TimedInv, TimedTypeOK
<1>6. CompletesOne' BY <1>1, <1>2, <1>3 DEF TimedInv, CompletesOne
<1>7. CallStages' BY <1>1, <1>3 DEF TimedInv, CallStages, Dead, Shut
<1> QED BY <1>4, <1>5, <1>6, <1>7 DEF TimedInv

\* The reactor goes when its thread has completed what it had begun.
LEMMA ReactorGoes ==
  ASSUME TimedInv, DestroyReactor
  PROVE  TimedInv'
<1>1. CallsIn({"ready"}) = {} BY DEF TimedInv, CallStages, Shut, CallsIn, DestroyReactor
<1>2. GoneWith({}) /\ pool = "unserved" /\ pool' = "gone" /\ reacting' = reacting /\ tasks' = tasks
  BY <1>1 DEF DestroyReactor, Reaches
<1>3. /\ place' \in [TimedCalls -> Places]
      /\ clock' \in [TimedCalls -> {"none", "alive", "gone", "orphan"}]
      /\ \A c \in TimedCalls : place'[c] = place[c]
  BY <1>2, GoneShape DEF TimedInv
<1>4. \A c \in TimedCalls : place[c] # "completing"
  BY TimedAssumption DEF DestroyReactor, TimedInv, CompletesOne
<1>5. Timers' BY <1>2, GoneInTime DEF TimedInv
<1>6. TimedTypeOK' BY <1>2, <1>3 DEF TimedInv, TimedTypeOK
<1>7. CompletesOne' BY <1>2, <1>3 DEF TimedInv, CompletesOne
<1>8. CallStages' BY <1>2, <1>3, <1>4 DEF TimedInv, CallStages, Dead, Shut
<1> QED BY <1>5, <1>6, <1>7, <1>8 DEF TimedInv

----------------------------------------------------------------------------
LEMMA TimedInvariant == TimedSpec => []TimedInv
<1>1. TimedStart => TimedInv
  BY TimedAssumption DEF TimedStart, TimedInv, TimedTypeOK, CompletesOne, CallStages, Timers, Dead, Shut, Places
<1>2. ASSUME TimedInv, [TimedNext]_timedVars PROVE TimedInv'
  <2>1. CASE TimedGoes
    BY <1>2, <2>1, ReactorSteps, FunctionEndsStep, QuietStages DEF TimedGoes
  <2>2. ASSUME NEW c \in TimedCalls,
               PostAt(c) \/ PostAfter(c) \/ DispatchAt(c) \/ DispatchAfter(c) \/ DeferAt(c) \/ DeferAfter(c)
        PROVE  TimedInv'
    BY <1>2, <2>2, StartStep DEF PostAt, PostAfter, DispatchAt, DispatchAfter, DeferAt, DeferAfter
  <2>3. CASE JoinPool \/ StopPool \/ DestroyScheduler \/ ShutdownReactor \/ DestroyTimerService \/ DestroyReactor
    BY <1>2, <2>3, QuietStages, SchedulerStep, PoolShutdownStep, ReactorGoes
  <2>4. CASE UNCHANGED timedVars
    BY <1>2, <2>4 DEF timedVars, TimedInv, TimedTypeOK, CompletesOne, CallStages, Timers
  <2> QED BY <1>2, <2>1, <2>2, <2>3, <2>4 DEF TimedNext
<1> QED BY <1>1, <1>2, PTL DEF TimedSpec

\* A join waits for timed calls wherever between the timer, the reactor's thread
\* and the pool they are, and no timer outlives the service it calls, at whatever
\* moment the pool is destroyed (wait_op.h:43-52, timed_invoker.h:32-51,
\* reactor.h:46-53, 106-112).
THEOREM TimersServed == TimedSpec => []TimedCallsKept
<1>1. TimedInv => TimedCallsKept
  BY DEF TimedInv, TimedTypeOK, CallStages, Timers, TimedCallsKept, JoinWaitsForTimers, TimersGoInTime,
     Dead, Shut, Places
<1> QED BY <1>1, TimedInvariant, PTL

LEMMA TimedTypes == TimedSpec => []TimedTypeOK
<1>1. TimedInv => TimedTypeOK BY DEF TimedInv
<1> QED BY <1>1, TimedInvariant, PTL

----------------------------------------------------------------------------
(* The list of services.                                                   *)

Service == [key : Keys, maker : Callers, late : BOOLEAN, shut : BOOLEAN]
Positions == 1 .. Len(list)
Has(key) == \E i \in Positions : list[i].key = key

RegistryShape ==
  /\ list \in Seq(Service) /\ frames \in [Callers -> Seq(CallFrame)]
  /\ got \subseteq Keys \X Callers
  /\ phase \in {"up", "shutdown", "destroy", "gone"}

\* A call that is about to make a service has seen none of that type up to where
\* it looked, and what its constructor has asked for is there, or being made in
\* the call above it.
CallsLook ==
  \A t \in Callers : \A d \in 1 .. Len(frames[t]) :
    LET f == frames[t][d]
    IN  /\ f.first <= Len(list) /\ f.needs \subseteq Uses[f.key]
        /\ f.stage = "make" => \A i \in Positions : i <= f.first => list[i].key # f.key
        /\ \A key \in Uses[f.key] \ f.needs :
             Has(key) \/ (d < Len(frames[t]) /\ frames[t][d + 1].key = key)

OneKey == \A i, j \in Positions : list[i].key = list[j].key => i = j

\* What calls have got is there until the end.
GotIsThere ==
  /\ phase \in {"up", "shutdown"} => 
       \A g \in got : \E i \in Positions : list[i].key = g[1] /\ list[i].maker = g[2]
  /\ \A g, h \in got : g[1] = h[1] => g[2] = h[2]

UsedAreOlder ==
  \A i \in Positions : \A key \in Uses[list[i].key] : \E j \in 1 .. i - 1 : list[j].key = key

\* Shutdown comes from the newest to the oldest, but for what it makes.
ShutInOrder ==
  \A i, j \in Positions : j < i /\ list[j].shut => list[i].shut \/ list[i].late

PhasesInOrder ==
  /\ phase = "up" => \A i \in Positions : ~list[i].shut /\ ~list[i].late
  /\ phase = "shutdown" =>
       /\ first \in Nat /\ at \in 0 .. first /\ first <= Len(list)
       /\ \A i \in Positions : i > at => list[i].shut \/ (i > first /\ list[i].late)
  /\ phase \in {"destroy", "gone"} =>
       /\ first \in Nat /\ Idle
       /\ \A i \in Positions : list[i].shut \/ i > first
  /\ phase # "up" => prepared = {} /\ notice.left = <<>> /\ notice.event # "prepare"

\* A notification tells the services one by one, and those that are prepared are
\* the newest of the ones there were.
NoticeGoes ==
  /\ notice \in [event : {"none", "prepare", "parent", "child"}, left : Seq(Nat), size : Nat]
  /\ phase = "up" => notice.size <= Len(list)
  /\ \/ notice.event = "none" /\ notice.left = <<>> /\ prepared = {}
     \/ /\ notice.event = "prepare"
        /\ \E m \in 0 .. notice.size :
             /\ Len(notice.left) = m /\ \A x \in 1 .. m : notice.left[x] = m + 1 - x
             /\ prepared = m + 1 .. notice.size
     \/ /\ notice.event \in {"parent", "child"}
        /\ \E n \in Nat : \E m \in 1 .. n + 1 :
             /\ notice.size <= n
             /\ Len(notice.left) = n + 1 - m
             /\ \A x \in 1 .. n + 1 - m : notice.left[x] = m - 1 + x
             /\ prepared = m .. notice.size

RegistryInv ==
  /\ RegistryShape /\ CallsLook /\ OneKey /\ GotIsThere /\ UsedAreOlder /\ ShutInOrder
  /\ PhasesInOrder /\ NoticeGoes

LEMMA PreparedAreNewest ==
  ASSUME RegistryInv
  PROVE  \A i, j \in Nat : j \in prepared /\ j < i => i \in prepared \/ i > notice.size
<1>1. \E m \in Nat : prepared = m .. notice.size \/ prepared = {}
  BY DEF RegistryInv, NoticeGoes
<1> QED BY <1>1 DEF RegistryInv, NoticeGoes

LEMMA InvImpliesKept == RegistryInv => ServicesKept
<1> SUFFICES ASSUME RegistryInv PROVE ServicesKept OBVIOUS
<1>0. Len(list) \in Nat BY DEF RegistryInv, RegistryShape
<1>1. OneService BY DEF RegistryInv, OneKey, GotIsThere, OneService, Positions
<1>2. ASSUME NEW i \in 1 .. Len(list), NEW key \in Uses[list[i].key]
      PROVE  \E j \in In(key, 1, i - 1) :
               /\ list[j].shut => list[i].shut \/ list[i].late
               /\ j \in prepared => i \in prepared \/ i > notice.size
  <2>1. PICK j \in 1 .. i - 1 : list[j].key = key
    BY DEF RegistryInv, UsedAreOlder, Positions
  <2>2. j \in In(key, 1, i - 1) BY <2>1 DEF In
  <2>3. j \in Positions /\ i \in Positions /\ j < i BY <1>0, <2>1 DEF Positions
  <2>4. list[j].shut => list[i].shut \/ list[i].late BY <2>3 DEF RegistryInv, ShutInOrder
  <2>5. j \in prepared => i \in prepared \/ i > notice.size
    BY <2>3, PreparedAreNewest DEF Positions
  <2> QED BY <2>2, <2>4, <2>5
<1>3. phase = "destroy" => \A i \in 1 .. Len(list) : list[i].shut \/ i > first
  BY DEF RegistryInv, PhasesInOrder, Positions
<1> QED BY <1>1, <1>2, <1>3 DEF ServicesKept, UsersGoFirst

LEMMA RegistryStarts == RegistryInit => RegistryInv
<1> SUFFICES ASSUME RegistryInit PROVE RegistryInv OBVIOUS
<1>1. /\ list = <<>> /\ frames = [t \in Callers |-> <<>>] /\ got = {}
      /\ prepared = {} /\ notice = Quiet /\ phase = "up"
  BY DEF RegistryInit
<1>2. Positions = {} /\ \A t \in Callers : Len(frames[t]) = 0 /\ frames[t] = <<>> BY <1>1 DEF Positions
<1>3. RegistryShape BY <1>1 DEF RegistryShape
<1>4. CallsLook BY <1>2 DEF CallsLook
<1>5. OneKey /\ GotIsThere /\ UsedAreOlder /\ ShutInOrder /\ PhasesInOrder
  BY <1>1, <1>2 DEF OneKey, GotIsThere, UsedAreOlder, ShutInOrder, PhasesInOrder, Quiet
<1>6. NoticeGoes BY <1>1 DEF NoticeGoes, Quiet
<1> QED BY <1>3, <1>4, <1>5, <1>6 DEF RegistryInv

----------------------------------------------------------------------------
(* Calls.                                                                  *)

LEMMA FramesAre ==
  ASSUME RegistryInv, NEW t \in Callers
  PROVE  /\ frames[t] \in Seq(CallFrame) /\ Len(frames[t]) \in Nat
         /\ \A d \in 1 .. Len(frames[t]) : frames[t][d] \in CallFrame
         /\ frames[t] # <<>> => Len(frames[t]) \in 1 .. Len(frames[t]) /\ Last(t) \in CallFrame
<1>1. frames[t] \in Seq(CallFrame) BY DEF RegistryInv, RegistryShape
<1>2. Len(frames[t]) \in Nat /\ \A d \in 1 .. Len(frames[t]) : frames[t][d] \in CallFrame BY <1>1
<1>3. ASSUME frames[t] # <<>>
      PROVE  Len(frames[t]) \in 1 .. Len(frames[t]) /\ Last(t) \in CallFrame
  <2>1. Len(frames[t]) # 0 BY <1>1, <1>3
  <2> QED BY <1>2, <2>1 DEF Last
<1> QED BY <1>1, <1>2, <1>3

\* Only the calls change, and none comes to have seen less.
LEMMA CallsAndGotKeep ==
  ASSUME RegistryInv, NEW t \in Callers, NEW s \in Seq(CallFrame), frames' = [frames EXCEPT ![t] = s],
         UNCHANGED <<list, prepared, notice, phase, first, at>>,
         phase \in {"up", "shutdown"}, got' \subseteq Keys \X Callers,
         \A g \in got' : \E i \in Positions : list[i].key = g[1] /\ list[i].maker = g[2],
         \A d \in 1 .. Len(s) :
           /\ s[d].first <= Len(list) /\ s[d].needs \subseteq Uses[s[d].key]
           /\ s[d].stage = "make" => \A i \in Positions : i <= s[d].first => list[i].key # s[d].key
           /\ \A key \in Uses[s[d].key] \ s[d].needs :
                Has(key) \/ (d < Len(s) /\ s[d + 1].key = key)
  PROVE  RegistryInv'
<1>1. frames' \in [Callers -> Seq(CallFrame)] /\ frames'[t] = s
      /\ \A u \in Callers : u # t => frames'[u] = frames[u]
  BY DEF RegistryInv, RegistryShape
<1>2. RegistryShape' BY <1>1 DEF RegistryInv, RegistryShape
<1>3. Positions' = Positions /\ \A key : Has(key)' <=> Has(key) BY DEF Positions, Has
<1>4. CallsLook'
  <2>1. ASSUME NEW u \in Callers, NEW d \in 1 .. Len(frames'[u])
        PROVE  LET f == frames'[u][d]
               IN  /\ f.first <= Len(list) /\ f.needs \subseteq Uses[f.key]
                   /\ f.stage = "make" => \A i \in Positions : i <= f.first => list[i].key # f.key
                   /\ \A key \in Uses[f.key] \ f.needs :
                        Has(key) \/ (d < Len(frames'[u]) /\ frames'[u][d + 1].key = key)
    <3>1. CASE u = t BY <1>1, <3>1
    <3>2. CASE u # t BY <1>1, <3>2 DEF RegistryInv, CallsLook
    <3> QED BY <3>1, <3>2
  <2> QED BY <1>3, <2>1 DEF CallsLook
<1>5. OneKey' /\ UsedAreOlder' /\ ShutInOrder'
  BY <1>3 DEF RegistryInv, OneKey, UsedAreOlder, ShutInOrder
<1>8. GotIsThere'
  <2>1. ASSUME NEW g \in got', NEW h \in got', g[1] = h[1] PROVE g[2] = h[2]
    <3>1. PICK i \in Positions : list[i].key = g[1] /\ list[i].maker = g[2] OBVIOUS
    <3>2. PICK j \in Positions : list[j].key = h[1] /\ list[j].maker = h[2] OBVIOUS
    <3> QED BY <2>1, <3>1, <3>2 DEF RegistryInv, OneKey
  <2> QED BY <1>3, <2>1 DEF GotIsThere
<1>6. PhasesInOrder' BY <1>3 DEF RegistryInv, PhasesInOrder
<1>7. NoticeGoes' BY DEF RegistryInv, NoticeGoes
<1> QED BY <1>2, <1>4, <1>5, <1>6, <1>7, <1>8 DEF RegistryInv

LEMMA CallsKeep ==
  ASSUME RegistryInv, NEW t \in Callers, NEW s \in Seq(CallFrame), frames' = [frames EXCEPT ![t] = s],
         UNCHANGED <<list, got, prepared, notice, phase, first, at>>,
         phase \in {"up", "shutdown"},
         \A d \in 1 .. Len(s) :
           /\ s[d].first <= Len(list) /\ s[d].needs \subseteq Uses[s[d].key]
           /\ s[d].stage = "make" => \A i \in Positions : i <= s[d].first => list[i].key # s[d].key
           /\ \A key \in Uses[s[d].key] \ s[d].needs :
                Has(key) \/ (d < Len(s) /\ s[d + 1].key = key)
  PROVE  RegistryInv'
BY CallsAndGotKeep DEF RegistryInv, RegistryShape, GotIsThere

LEMMA EnteredIs ==
  ASSUME RegistryInv, NEW op \in {"use", "make"}, NEW key \in Keys
  PROVE  LET f == Entered(op, key)
         IN  /\ f \in CallFrame /\ f.first = Len(list) /\ f.key = key /\ f.needs = Uses[key]
             /\ f.stage = "look"
BY UsesAssumption DEF Entered, CallFrame, RegistryInv, RegistryShape

LEMMA CallKeeps ==
  ASSUME RegistryInv, NEW t \in Callers, NEW op \in {"use", "make"}, NEW key \in Keys, Call(t, op, key)
  PROVE  RegistryInv'
<1> DEFINE f == Entered(op, key)
<1>1. /\ f \in CallFrame /\ f.first = Len(list) /\ f.key = key /\ f.needs = Uses[key]
      /\ f.stage = "look"
  BY EnteredIs
<1>2. /\ frames' = [frames EXCEPT ![t] = <<f>>] /\ phase \in {"up", "shutdown"}
      /\ UNCHANGED <<list, got, prepared, notice, phase, first, at>>
  BY DEF Call
<1> HIDE DEF f
<1>3. <<f>> \in Seq(CallFrame) /\ Len(<<f>>) = 1 /\ <<f>>[1] = f BY <1>1
<1>4. Len(list) \in Nat BY DEF RegistryInv, RegistryShape
<1> DEFINE s == <<f>>
<1>5. s \in Seq(CallFrame) BY <1>3
<1>6. \A d \in 1 .. Len(s) : d = 1 /\ s[d] = f BY <1>3
<1>7. frames' = [frames EXCEPT ![t] = s] BY <1>2
<1>8. \A d \in 1 .. Len(s) :
        /\ s[d].first <= Len(list) /\ s[d].needs \subseteq Uses[s[d].key]
        /\ s[d].stage = "make" => \A i \in Positions : i <= s[d].first => list[i].key # s[d].key
        /\ \A k \in Uses[s[d].key] \ s[d].needs :
             Has(k) \/ (d < Len(s) /\ s[d + 1].key = k)
  <2> HIDE DEF s
  <2> QED BY <1>1, <1>4, <1>6
<1> HIDE DEF s
<1> QED BY <1>2, <1>5, <1>7, <1>8, CallsKeep

\* Nobody calls once the context is being destroyed.
LEMMA CallsAreBefore ==
  ASSUME RegistryInv, NEW t \in Callers, frames[t] # <<>>
  PROVE  phase \in {"up", "shutdown"}
BY DEF RegistryInv, RegistryShape, PhasesInOrder, Idle

\* The calls that go on after one has ended, with what it was to find.
LEMMA BelowKeeps ==
  ASSUME RegistryInv, NEW t \in Callers, frames[t] # <<>>
  PROVE  LET s == Below(t)
         IN  /\ s \in Seq(CallFrame) /\ Len(s) = Len(frames[t]) - 1
             /\ \A d \in 1 .. Len(s) : s[d] = frames[t][d]
<1>1. frames[t] \in Seq(CallFrame) /\ Len(frames[t]) \in Nat /\ Len(frames[t]) > 0 BY FramesAre
<1> QED BY <1>1 DEF Below

LEMMA ConstructKeeps ==
  ASSUME RegistryInv, NEW t \in Callers, NEW key \in Keys, Construct(t, key)
  PROVE  RegistryInv'
<1> DEFINE n == Len(frames[t])
           f == Entered("use", key)
           top == [Last(t) EXCEPT !.needs = @ \ {key}]
           s == Below(t) \o <<top, f>>
<1>1. /\ f \in CallFrame /\ f.first = Len(list) /\ f.key = key /\ f.needs = Uses[key]
      /\ f.stage = "look"
  BY EnteredIs
<1>2. frames[t] \in Seq(CallFrame) /\ n \in Nat /\ n \in 1 .. n /\ Last(t) \in CallFrame
      /\ Last(t) = frames[t][n] /\ frames[t] # <<>>
  BY FramesAre DEF Construct, Last
<1>3. top = [op |-> Last(t).op, key |-> Last(t).key, first |-> Last(t).first,
             stage |-> Last(t).stage, needs |-> Last(t).needs \ {key}]
  <2>1. Last(t) \in CallFrame BY <1>2
  <2> QED BY <2>1 DEF CallFrame
<1>4. top \in CallFrame BY <1>2, <1>3 DEF CallFrame
<1>5. /\ Below(t) \in Seq(CallFrame) /\ Len(Below(t)) = n - 1
      /\ \A d \in 1 .. n - 1 : Below(t)[d] = frames[t][d]
  BY <1>2, BelowKeeps
<1>6. s \in Seq(CallFrame) /\ Len(s) = n + 1 /\ s[n + 1] = f
      /\ \A d \in 1 .. n : s[d] = IF d = n THEN top ELSE frames[t][d]
  <2> HIDE DEF f, top
  <2>1. <<top, f>> \in Seq(CallFrame) /\ Len(<<top, f>>) = 2 /\ <<top, f>>[1] = top /\ <<top, f>>[2] = f
    BY <1>1, <1>4
  <2> HIDE DEF n
  <2>2. /\ s \in Seq(CallFrame) /\ Len(s) = Len(Below(t)) + 2
        /\ \A i \in 1 .. Len(Below(t)) + 2 :
             s[i] = IF i <= Len(Below(t)) THEN Below(t)[i] ELSE <<top, f>>[i - Len(Below(t))]
    BY <1>5, <2>1, ConcatProperties
  <2>3. s \in Seq(CallFrame) /\ Len(s) = n + 1 BY <1>2, <1>5, <2>2
  <2> HIDE DEF s
  <2>4. s[n + 1] = f
    <3>1. Len(Below(t)) \in Nat /\ n + 1 = Len(Below(t)) + 2 BY <1>2, <1>5
    <3>2. \A m \in Nat : m = Len(Below(t)) =>
            m + 2 \in 1 .. m + 2 /\ ~(m + 2 <= m) /\ (m + 2) - m = 2
      OBVIOUS
    <3>3. s[Len(Below(t)) + 2] = <<top, f>>[2] BY <2>2, <3>1, <3>2
    <3> QED BY <2>1, <3>1, <3>3
  <2>5. \A d \in 1 .. n : s[d] = IF d = n THEN top ELSE frames[t][d]
    BY <1>2, <1>5, <2>1, <2>2, <2>3
  <2> QED BY <2>3, <2>4, <2>5
<1>7. /\ frames' = [frames EXCEPT ![t] = s] /\ phase \in {"up", "shutdown"}
      /\ UNCHANGED <<list, got, prepared, notice, phase, first, at>>
  BY CallsAreBefore DEF Construct
<1>8. Len(list) \in Nat BY DEF RegistryInv, RegistryShape
<1>9. ASSUME NEW d \in 1 .. Len(s)
      PROVE  /\ s[d].first <= Len(list) /\ s[d].needs \subseteq Uses[s[d].key]
             /\ s[d].stage = "make" => \A i \in Positions : i <= s[d].first => list[i].key # s[d].key
             /\ \A k \in Uses[s[d].key] \ s[d].needs :
                  Has(k) \/ (d < Len(s) /\ s[d + 1].key = k)
  <2>1. CASE d = n + 1
    <3>1. s[d] = f BY <1>6, <2>1
    <3> HIDE DEF s, f
    <3> QED BY <1>1, <1>8, <3>1
  <2>2. CASE d = n
    <3>1. s[d] = top /\ s[d + 1] = f /\ d < Len(s)
      <4> HIDE DEF s, f, top, n
      <4> QED BY <1>2, <1>6, <2>2
    <3>2. /\ Last(t).first <= Len(list) /\ Last(t).needs \subseteq Uses[Last(t).key]
          /\ Last(t).stage = "make" => \A i \in Positions : i <= Last(t).first => list[i].key # Last(t).key
          /\ \A k \in Uses[Last(t).key] \ Last(t).needs : Has(k)
      BY <1>2 DEF RegistryInv, CallsLook
    <3> HIDE DEF s, f, top
    <3> QED BY <1>1, <1>3, <3>1, <3>2
  <2>3. CASE d < n
    <3>1. d \in 1 .. n /\ d + 1 \in 1 .. n /\ d < Len(s) BY <1>2, <1>6, <2>3
    <3>2. s[d] = frames[t][d] /\ s[d + 1].key = frames[t][d + 1].key
      <4> HIDE DEF s, top
      <4> QED BY <1>2, <1>3, <1>6, <2>3, <3>1
    <3> HIDE DEF s
    <3> QED BY <2>3, <3>1, <3>2 DEF RegistryInv, CallsLook
  <2> HIDE DEF s
  <2> QED BY <1>2, <1>6, <2>1, <2>2, <2>3
<1> HIDE DEF s
<1> QED BY <1>6, <1>7, <1>9, CallsKeep

LEMMA CreationFailsKeeps ==
  ASSUME RegistryInv, NEW t \in Callers, CreationFails(t)
  PROVE  RegistryInv'
<1>1. /\ frames' = [frames EXCEPT ![t] = <<>>] /\ phase \in {"up", "shutdown"}
      /\ UNCHANGED <<list, got, prepared, notice, phase, first, at>>
  BY CallsAreBefore DEF CreationFails
<1>2. <<>> \in Seq(CallFrame) /\ Len(<<>>) = 0 OBVIOUS
<1>3. \A d \in 1 .. Len(<<>>) : FALSE BY <1>2
<1> HIDE DEF CallFrame
<1> QED BY <1>1, <1>2, <1>3, CallsKeep

\* A call ends, and its service is there.
LEMMA EndedKeeps ==
  ASSUME RegistryInv, NEW t \in Callers, frames[t] # <<>>, Has(Last(t).key),
         frames' = [frames EXCEPT ![t] = Below(t)], got' \subseteq Keys \X Callers,
         \A g \in got' : \E i \in Positions : list[i].key = g[1] /\ list[i].maker = g[2],
         UNCHANGED <<list, prepared, notice, phase, first, at>>
  PROVE  RegistryInv'
<1> DEFINE n == Len(frames[t])
           s == Below(t)
<1>1. /\ s \in Seq(CallFrame) /\ Len(s) = n - 1 /\ n \in Nat
      /\ \A d \in 1 .. n - 1 : s[d] = frames[t][d]
  BY BelowKeeps, FramesAre
<1>2. ASSUME NEW d \in 1 .. Len(s)
      PROVE  /\ s[d].first <= Len(list) /\ s[d].needs \subseteq Uses[s[d].key]
             /\ s[d].stage = "make" => \A i \in Positions : i <= s[d].first => list[i].key # s[d].key
             /\ \A k \in Uses[s[d].key] \ s[d].needs :
                  Has(k) \/ (d < Len(s) /\ s[d + 1].key = k)
  <2>1. d \in 1 .. n /\ d < n /\ s[d] = frames[t][d] BY <1>1
  <2>2. ASSUME NEW k \in Uses[s[d].key] \ s[d].needs, ~Has(k)
        PROVE  d < Len(s) /\ s[d + 1].key = k
    <3>1. frames[t][d + 1].key = k BY <2>1, <2>2 DEF RegistryInv, CallsLook
    <3>2. d + 1 # n BY <2>2, <3>1 DEF Last
    <3> HIDE DEF s, n
    <3> QED BY <1>1, <2>1, <3>1, <3>2
  <2> HIDE DEF s
  <2> QED BY <2>1, <2>2 DEF RegistryInv, CallsLook
<1> HIDE DEF s
<1> QED BY <1>1, <1>2, CallsAreBefore, CallsAndGotKeep DEF s

LEMMA FoundKeeps ==
  ASSUME RegistryInv, NEW t \in Callers, frames[t] # <<>>, NEW i \in Positions,
         list[i].key = Last(t).key, Found(t, i),
         UNCHANGED <<list, prepared, notice, phase, first, at>>
  PROVE  RegistryInv'
<1>0. phase \in {"up", "shutdown"} BY CallsAreBefore
<1>1. CASE Last(t).op # "use"
  <2>1. frames' = [frames EXCEPT ![t] = <<>>] /\ UNCHANGED got BY <1>1 DEF Found
  <2>2. <<>> \in Seq(CallFrame) /\ \A d \in 1 .. Len(<<>>) : FALSE OBVIOUS
  <2> HIDE DEF CallFrame
  <2> QED BY <1>0, <2>1, <2>2, CallsKeep
<1>2. CASE Last(t).op = "use"
  <2> DEFINE g == <<list[i].key, list[i].maker>>
  <2>1. frames' = [frames EXCEPT ![t] = Below(t)] /\ got' = got \cup {g} BY <1>2 DEF Found
  <2>2. Has(Last(t).key) BY DEF Has
  <2>3. list[i] \in Service BY DEF RegistryInv, RegistryShape, Positions
  <2>4. g \in Keys \X Callers /\ g[1] = list[i].key /\ g[2] = list[i].maker BY <2>3 DEF Service
  <2>5. \A h \in got' : \E j \in Positions : list[j].key = h[1] /\ list[j].maker = h[2]
    <3> HIDE DEF g
    <3> QED BY <1>0, <2>1, <2>4 DEF RegistryInv, GotIsThere
  <2>6. got' \subseteq Keys \X Callers
    <3> HIDE DEF g
    <3> QED BY <2>1, <2>4 DEF RegistryInv, RegistryShape
  <2> QED BY <2>1, <2>2, <2>5, <2>6, EndedKeeps
<1> QED BY <1>1, <1>2

LEMMA LookKeeps ==
  ASSUME RegistryInv, NEW t \in Callers, Look(t)
  PROVE  RegistryInv'
<1> DEFINE n == Len(frames[t])
<1>1. /\ frames[t] \in Seq(CallFrame) /\ n \in Nat /\ n \in 1 .. n /\ Last(t) \in CallFrame
      /\ Last(t) = frames[t][n] /\ frames[t] # <<>> /\ Last(t).stage = "look"
  BY FramesAre DEF Look, Last
<1>2. phase \in {"up", "shutdown"} /\ UNCHANGED <<list, prepared, notice, phase, first, at>>
  BY <1>1, CallsAreBefore DEF Look
<1>3. Len(list) \in Nat BY DEF RegistryInv, RegistryShape
<1>4. CASE In(Last(t).key, 1, Last(t).first) # {}
  <2>1. PICK i \in In(Last(t).key, 1, Last(t).first) : Found(t, i) BY <1>4 DEF Look
  <2>2. i \in Positions /\ list[i].key = Last(t).key
    BY <1>1, <1>3, <2>1 DEF In, RegistryInv, CallsLook, Positions, CallFrame
  <2> QED BY <1>1, <1>2, <2>1, <2>2, FoundKeeps
<1>5. CASE In(Last(t).key, 1, Last(t).first) = {}
  <2> DEFINE top == [Last(t) EXCEPT !.stage = "make"]
             s   == [frames[t] EXCEPT ![n] = top]
  <2>1. frames' = [frames EXCEPT ![t] = s] /\ UNCHANGED got
    BY <1>5 DEF Look, Last
  <2>2. top = [op |-> Last(t).op, key |-> Last(t).key, first |-> Last(t).first,
               stage |-> "make", needs |-> Last(t).needs]
    BY <1>1 DEF CallFrame
  <2>3. top \in CallFrame BY <1>1, <2>2 DEF CallFrame
  <2>4. s \in Seq(CallFrame) /\ Len(s) = n /\ \A d \in 1 .. n : s[d] = IF d = n THEN top ELSE frames[t][d]
    <3> HIDE DEF top
    <3> QED BY <1>1, <2>3, ExceptSeq
  <2>5. ASSUME NEW d \in 1 .. Len(s)
        PROVE  /\ s[d].first <= Len(list) /\ s[d].needs \subseteq Uses[s[d].key]
               /\ s[d].stage = "make" => \A i \in Positions : i <= s[d].first => list[i].key # s[d].key
               /\ \A k \in Uses[s[d].key] \ s[d].needs :
                    Has(k) \/ (d < Len(s) /\ s[d + 1].key = k)
    <3>1. CASE d = n
      <4>1. s[d] = top
        <5> HIDE DEF s, top, n
        <5> QED BY <1>1, <2>4, <3>1
      <4>2. /\ Last(t).first <= Len(list) /\ Last(t).needs \subseteq Uses[Last(t).key]
            /\ \A k \in Uses[Last(t).key] \ Last(t).needs : Has(k)
        BY <1>1 DEF RegistryInv, CallsLook
      <4>3. \A i \in Positions : i <= Last(t).first => list[i].key # Last(t).key
        BY <1>5 DEF In, Positions
      <4> HIDE DEF s, top
      <4> QED BY <2>2, <4>1, <4>2, <4>3
    <3>2. CASE d # n
      <4>1. d \in 1 .. n /\ d + 1 \in 1 .. n /\ d < n /\ Len(s) = n
        <5> HIDE DEF s, top, n
        <5> QED BY <1>1, <2>4, <3>2
      <4>2. s[d] = frames[t][d] /\ s[d + 1].key = frames[t][d + 1].key
        <5>1. s[d] = frames[t][d] /\ s[d + 1] = IF d + 1 = n THEN top ELSE frames[t][d + 1]
          <6> HIDE DEF s, top, n
          <6> QED BY <2>4, <3>2, <4>1
        <5>2. top.key = Last(t).key BY <2>2
        <5> HIDE DEF s, top
        <5> QED BY <1>1, <5>1, <5>2
      <4> HIDE DEF s
      <4> QED BY <4>1, <4>2 DEF RegistryInv, CallsLook
    <3> QED BY <3>1, <3>2
  <2> HIDE DEF s
  <2> QED BY <1>2, <2>1, <2>4, <2>5, CallsKeep
<1> QED BY <1>4, <1>5

LEMMA RegisterKeeps ==
  ASSUME RegistryInv, NEW t \in Callers, Register(t)
  PROVE  RegistryInv'
<1> DEFINE n == Len(frames[t])
           N == Len(list)
           K == Last(t).key
<1>1. /\ n \in Nat /\ n \in 1 .. n /\ Last(t) \in CallFrame /\ Last(t) = frames[t][n]
      /\ frames[t] # <<>> /\ Last(t).stage = "make" /\ Last(t).needs = {}
  BY FramesAre DEF Register, Last
<1>2. phase \in {"up", "shutdown"} /\ UNCHANGED <<prepared, notice, phase, first, at>>
  BY <1>1, CallsAreBefore DEF Register
<1>3. N \in Nat /\ list \in Seq(Service) BY DEF RegistryInv, RegistryShape
<1>4. K \in Keys /\ Last(t).first \in Nat BY <1>1 DEF CallFrame
<1>5. CASE InFront(t) # {}
  <2>1. PICK i \in InFront(t) : Found(t, i) /\ UNCHANGED list BY <1>5 DEF Register
  <2>2. i \in Positions /\ list[i].key = Last(t).key
    BY <1>3, <1>4, <2>1 DEF InFront, In, Positions
  <2> QED BY <1>1, <1>2, <2>1, <2>2, FoundKeeps
<1>6. CASE InFront(t) = {}
  <2> DEFINE x == [key |-> K, maker |-> t, late |-> phase = "shutdown", shut |-> FALSE]
             g == <<K, t>>
  <2>1. list' = Append(list, x) /\ got' = got \cup {g} /\ frames' = [frames EXCEPT ![t] = Below(t)]
    BY <1>6 DEF Register, Newest
  <2>2. x \in Service /\ x.key = K /\ x.maker = t /\ x.late = (phase = "shutdown") /\ x.shut = FALSE
    BY <1>4 DEF Service
  <2>3. ~Has(K)
    <3>1. \A i \in Positions : i <= Last(t).first => list[i].key # K BY <1>1 DEF RegistryInv, CallsLook
    <3>2. \A i \in Positions : i > Last(t).first => list[i].key # K
      BY <1>3, <1>4, <1>6 DEF InFront, In, Positions
    <3> QED BY <1>3, <1>4, <3>1, <3>2 DEF Has, Positions
  <2>4. \A key \in Uses[K] : Has(key) BY <1>1 DEF RegistryInv, CallsLook
  <2> HIDE DEF x, K, n, N
  <2>5. /\ list' \in Seq(Service) /\ Len(list') = N + 1
        /\ \A i \in 1 .. N : list'[i] = list[i]
        /\ list'[N + 1] = x
    BY <1>3, <2>1, <2>2, AppendProperties DEF N
  <2>6. Positions = 1 .. N /\ Positions' = 1 .. N + 1 BY <2>5 DEF Positions, N
  <2>7. \A key : Has(key)' <=> Has(key) \/ key = K BY <1>3, <2>2, <2>5, <2>6 DEF Has
  <2>8. /\ Below(t) \in Seq(CallFrame) /\ Len(Below(t)) = n - 1
        /\ \A d \in 1 .. n - 1 : Below(t)[d] = frames[t][d]
    BY <1>1, BelowKeeps DEF n
  <2>9. /\ frames' \in [Callers -> Seq(CallFrame)] /\ frames'[t] = Below(t)
        /\ \A u \in Callers : u # t => frames'[u] = frames[u]
    BY <2>1, <2>8 DEF RegistryInv, RegistryShape
  <2>10. g \in Keys \X Callers /\ g[1] = K /\ g[2] = t BY <1>4 DEF K
  <2> HIDE DEF g
  <2>11. RegistryShape' BY <1>2, <2>1, <2>5, <2>9, <2>10 DEF RegistryInv, RegistryShape
  <2>12. CallsLook'
    <3>1. ASSUME NEW u \in Callers, NEW d \in 1 .. Len(frames'[u])
          PROVE  d \in 1 .. Len(frames[u]) /\ frames'[u][d] = frames[u][d]
      BY <1>1, <2>8, <2>9 DEF n
    <3>2. ASSUME NEW u \in Callers, NEW d \in 1 .. Len(frames'[u])
          PROVE  LET f == frames'[u][d]
                 IN  /\ f.first <= Len(list') /\ f.needs \subseteq Uses[f.key]
                     /\ f.stage = "make" => \A i \in Positions' : i <= f.first => list'[i].key # f.key
                     /\ \A key \in Uses[f.key] \ f.needs :
                          Has(key)' \/ (d < Len(frames'[u]) /\ frames'[u][d + 1].key = key)
      <4> DEFINE f == frames[u][d]
      <4>1. d \in 1 .. Len(frames[u]) /\ frames'[u][d] = f BY <3>1
      <4>2. /\ f.first <= N /\ f.needs \subseteq Uses[f.key]
            /\ f.stage = "make" => \A i \in Positions : i <= f.first => list[i].key # f.key
            /\ \A key \in Uses[f.key] \ f.needs :
                 Has(key) \/ (d < Len(frames[u]) /\ frames[u][d + 1].key = key)
        BY <4>1 DEF RegistryInv, CallsLook, N
      <4>3. f.first \in Nat BY <4>1, FramesAre DEF CallFrame
      <4>4. f.first <= Len(list') BY <1>3, <2>5, <4>2, <4>3 DEF N
      <4>5. ASSUME f.stage = "make", NEW i \in Positions', i <= f.first PROVE list'[i].key # f.key
        <5>1. i \in 1 .. N BY <1>3, <2>6, <4>2, <4>3, <4>5 DEF N
        <5> QED BY <2>5, <2>6, <4>2, <4>5, <5>1
      <4>6. ASSUME NEW key \in Uses[f.key] \ f.needs, ~Has(key)'
            PROVE  d < Len(frames'[u]) /\ frames'[u][d + 1].key = key
        <5>1. ~Has(key) /\ key # K BY <2>7, <4>6
        <5>2. d < Len(frames[u]) /\ frames[u][d + 1].key = key BY <4>2, <4>6, <5>1
        <5>3. CASE u # t BY <2>9, <5>2, <5>3
        <5>4. CASE u = t
          <6>1. d + 1 # n BY <1>1, <5>1, <5>2, <5>4 DEF K
          <6>2. d + 1 \in 1 .. n - 1 /\ Len(frames'[u]) = n - 1
            BY <1>1, <2>8, <2>9, <4>1, <5>2, <5>4, <6>1 DEF n
          <6> QED BY <1>1, <2>8, <2>9, <5>2, <5>4, <6>2
        <5> QED BY <5>3, <5>4
      <4> HIDE DEF f
      <4> QED BY <4>1, <4>2, <4>4, <4>5, <4>6
    <3> QED BY <3>2 DEF CallsLook
  <2>13. OneKey'
    <3>1. \A i \in 1 .. N : list[i].key # K BY <2>3, <2>6 DEF Has
    <3>2. ASSUME NEW i \in Positions', NEW j \in Positions', list'[i].key = list'[j].key PROVE i = j
      <4>1. CASE i \in 1 .. N /\ j \in 1 .. N
        BY <2>5, <2>6, <3>2, <4>1 DEF RegistryInv, OneKey
      <4>2. CASE i = N + 1 /\ j = N + 1 BY <4>2
      <4>3. CASE i = N + 1 /\ j \in 1 .. N BY <2>2, <2>5, <3>1, <3>2, <4>3
      <4>4. CASE j = N + 1 /\ i \in 1 .. N BY <2>2, <2>5, <3>1, <3>2, <4>4
      <4> QED BY <1>3, <2>6, <4>1, <4>2, <4>3, <4>4 DEF N
    <3> QED BY <3>2 DEF OneKey
  <2>14. GotIsThere'
    <3>1. \A h \in got' : \E i \in Positions' : list'[i].key = h[1] /\ list'[i].maker = h[2]
      <4>1. \A h \in got : \E i \in Positions : list[i].key = h[1] /\ list[i].maker = h[2]
        BY <1>2 DEF RegistryInv, GotIsThere
      <4>2. \A h \in got : \E i \in Positions' : list'[i].key = h[1] /\ list'[i].maker = h[2]
        BY <1>3, <2>5, <2>6, <4>1 DEF N
      <4>3. N + 1 \in Positions' /\ list'[N + 1].key = g[1] /\ list'[N + 1].maker = g[2]
        BY <1>3, <2>2, <2>5, <2>6, <2>10 DEF N
      <4> QED BY <2>1, <4>2, <4>3
    <3>2. ASSUME NEW a \in got', NEW b \in got', a[1] = b[1] PROVE a[2] = b[2]
      <4>1. PICK i \in Positions' : list'[i].key = a[1] /\ list'[i].maker = a[2] BY <3>1
      <4>2. PICK j \in Positions' : list'[j].key = b[1] /\ list'[j].maker = b[2] BY <3>1
      <4> QED BY <2>13, <3>2, <4>1, <4>2 DEF OneKey
    <3> QED BY <3>1, <3>2 DEF GotIsThere
  <2>15. UsedAreOlder'
    <3>1. ASSUME NEW i \in Positions', NEW key \in Uses[list'[i].key]
          PROVE  \E j \in 1 .. i - 1 : list'[j].key = key
      <4>1. CASE i \in 1 .. N
        <5>1. PICK j \in 1 .. i - 1 : list[j].key = key
          BY <2>5, <2>6, <3>1, <4>1 DEF RegistryInv, UsedAreOlder
        <5>2. j \in 1 .. N BY <1>3, <4>1, <5>1 DEF N
        <5> QED BY <2>5, <5>1, <5>2
      <4>2. CASE i = N + 1
        <5>1. Has(key) BY <2>2, <2>4, <2>5, <3>1, <4>2
        <5>2. PICK j \in 1 .. N : list[j].key = key BY <2>6, <5>1 DEF Has
        <5>3. j \in 1 .. i - 1 /\ list'[j].key = key BY <1>3, <2>5, <4>2, <5>2 DEF N
        <5> QED BY <5>3
      <4> QED BY <1>3, <2>6, <4>1, <4>2 DEF N
    <3> QED BY <3>1 DEF UsedAreOlder
  <2>16. ShutInOrder'
    <3>1. ASSUME NEW i \in Positions', NEW j \in Positions', j < i, list'[j].shut
          PROVE  list'[i].shut \/ list'[i].late
      <4>1. j \in 1 .. N /\ list[j].shut BY <1>3, <2>5, <2>6, <3>1 DEF N
      <4>2. CASE i \in 1 .. N
        BY <2>5, <2>6, <3>1, <4>1, <4>2 DEF RegistryInv, ShutInOrder
      <4>3. CASE i = N + 1
        <5>1. phase # "up" BY <2>6, <4>1 DEF RegistryInv, PhasesInOrder
        <5> QED BY <1>2, <2>2, <2>5, <4>3, <5>1
      <4> QED BY <1>3, <2>6, <4>2, <4>3 DEF N
    <3> QED BY <3>1 DEF ShutInOrder
  <2>17. PhasesInOrder'
    <3>1. phase = "up" => \A i \in Positions' : ~list'[i].shut /\ ~list'[i].late
      <4>1. ASSUME phase = "up", NEW i \in Positions' PROVE ~list'[i].shut /\ ~list'[i].late
        <5>1. CASE i \in 1 .. N BY <2>5, <2>6, <4>1, <5>1 DEF RegistryInv, PhasesInOrder
        <5>2. CASE i = N + 1 BY <2>2, <2>5, <4>1, <5>2
        <5> QED BY <1>3, <2>6, <5>1, <5>2 DEF N
      <4> QED BY <4>1
    <3>2. ASSUME phase = "shutdown"
          PROVE  /\ first \in Nat /\ at \in 0 .. first /\ first <= Len(list')
                 /\ \A i \in Positions' : i > at => list'[i].shut \/ (i > first /\ list'[i].late)
      <4>1. /\ first \in Nat /\ at \in 0 .. first /\ first <= N
            /\ \A i \in 1 .. N : i > at => list[i].shut \/ (i > first /\ list[i].late)
        BY <2>6, <3>2 DEF N, RegistryInv, PhasesInOrder
      <4>2. first <= Len(list') BY <1>3, <2>5, <4>1 DEF N
      <4>3. ASSUME NEW i \in Positions', i > at PROVE list'[i].shut \/ (i > first /\ list'[i].late)
        <5>1. CASE i \in 1 .. N BY <2>5, <4>1, <4>3, <5>1
        <5>2. CASE i = N + 1
          <6>1. i > first BY <1>3, <4>1, <5>2 DEF N
          <6>2. x.late BY <2>2, <3>2
          <6>3. list'[i] = x BY <2>5, <5>2
          <6> QED BY <6>1, <6>2, <6>3
        <5> QED BY <1>3, <2>6, <5>1, <5>2 DEF N
      <4> QED BY <4>1, <4>2, <4>3
    <3> QED BY <1>2, <3>1, <3>2 DEF RegistryInv, PhasesInOrder
  <2>18. NoticeGoes' BY <1>2, <1>3, <2>5 DEF N, RegistryInv, NoticeGoes
  <2> QED BY <2>11, <2>12, <2>13, <2>14, <2>15, <2>16, <2>17, <2>18 DEF RegistryInv
<1> QED BY <1>5, <1>6

----------------------------------------------------------------------------
(* Notifications.                                                          *)

\* What a notification does not touch.
LEMMA NoticesKeep ==
  ASSUME RegistryInv, phase = "up", NoticeGoes',
         UNCHANGED <<list, frames, got, calls, phase, passes, first, at>>
  PROVE  RegistryInv'
<1>1. Positions' = Positions /\ \A key : Has(key)' <=> Has(key) BY DEF Positions, Has
<1>2. RegistryShape' /\ CallsLook' BY <1>1 DEF RegistryInv, RegistryShape, CallsLook
<1>3. OneKey' /\ GotIsThere' /\ UsedAreOlder' /\ ShutInOrder'
  BY <1>1 DEF RegistryInv, OneKey, GotIsThere, UsedAreOlder, ShutInOrder
<1>4. PhasesInOrder' BY <1>1 DEF RegistryInv, PhasesInOrder
<1> QED BY <1>2, <1>3, <1>4 DEF RegistryInv

LEMMA NotifyForkKeeps ==
  ASSUME RegistryInv, NEW event \in {"prepare", "parent", "child"}, NotifyFork(event)
  PROVE  RegistryInv'
<1> DEFINE N == Len(list)
<1>1. N \in Nat BY DEF RegistryInv, RegistryShape
<1>2. /\ phase = "up" /\ notice.left = <<>> /\ (event = "prepare" <=> notice.event # "prepare")
      /\ notice' = [event |-> event, left |-> Order(event),
                    size |-> IF event = "prepare" THEN N ELSE notice.size]
      /\ UNCHANGED <<list, frames, got, calls, prepared, phase, passes, first, at>>
  BY DEF NotifyFork
<1>3. /\ notice.size \in Nat /\ notice.size <= N
      /\ Len(notice.left) = 0
  BY <1>2 DEF RegistryInv, NoticeGoes
<1>4. CASE event = "prepare"
  <2>1. prepared = {}
    <3>1. CASE notice.event = "none" BY <3>1 DEF RegistryInv, NoticeGoes
    <3>2. CASE notice.event \in {"parent", "child"}
      <4>1. PICK h \in Nat : \E m \in 1 .. h + 1 :
              notice.size <= h /\ Len(notice.left) = h + 1 - m /\ prepared = m .. notice.size
        BY <3>2 DEF RegistryInv, NoticeGoes
      <4>2. PICK m \in 1 .. h + 1 :
              notice.size <= h /\ Len(notice.left) = h + 1 - m /\ prepared = m .. notice.size
        BY <4>1
      <4> QED BY <1>3, <4>2
    <3> QED BY <1>2, <1>4, <3>1, <3>2 DEF RegistryInv, NoticeGoes
  <2>2. notice'.event = "prepare" /\ notice'.left = Copy /\ notice'.size = N
    BY <1>2, <1>4 DEF Order
  <2>3. Copy \in Seq(Nat) /\ Len(Copy) = N /\ \A x \in 1 .. N : Copy[x] = N + 1 - x
    BY <1>1 DEF Copy
  <2>4. N \in 0 .. N /\ prepared = N + 1 .. N BY <1>1, <2>1
  <2> HIDE DEF N
  <2>5. notice' \in [event : {"none", "prepare", "parent", "child"}, left : Seq(Nat), size : Nat]
    BY <1>1, <1>2, <1>4, <2>2, <2>3
  <2>6. N <= Len(list') BY <1>1, <1>2 DEF N
  <2>7. \E m \in 0 .. N : /\ Len(Copy) = m /\ \A x \in 1 .. m : Copy[x] = m + 1 - x
                         /\ prepared' = m + 1 .. N
    BY <1>2, <2>3, <2>4
  <2>8. NoticeGoes' BY <2>2, <2>5, <2>6, <2>7 DEF NoticeGoes
  <2> QED BY <1>2, <2>8, NoticesKeep
<1>5. CASE event # "prepare"
  <2>1. notice.event = "prepare" BY <1>2, <1>5
  <2>2. prepared = 1 .. notice.size
    <3>1. PICK m \in 0 .. notice.size : Len(notice.left) = m /\ prepared = m + 1 .. notice.size
      BY <2>1 DEF RegistryInv, NoticeGoes
    <3> QED BY <1>3, <3>1
  <2>3. notice'.event = event /\ notice'.left = Backwards(Copy) /\ notice'.size = notice.size
    BY <1>2, <1>5 DEF Order
  <2>4. Copy \in Seq(Nat) /\ Len(Copy) = N /\ \A x \in 1 .. N : Copy[x] = N + 1 - x
    BY <1>1 DEF Copy
  <2>5. /\ Backwards(Copy) \in Seq(Nat) /\ Len(Backwards(Copy)) = N
        /\ \A x \in 1 .. N : Backwards(Copy)[x] = x
    <3> HIDE DEF N
    <3> QED BY <1>1, <2>4 DEF Backwards
  <2>6. /\ N \in Nat /\ 1 \in 1 .. N + 1 /\ notice'.size <= N
        /\ Len(notice'.left) = N + 1 - 1
        /\ \A x \in 1 .. N + 1 - 1 : notice'.left[x] = 1 - 1 + x
        /\ prepared' = 1 .. notice'.size
    <3> HIDE DEF N
    <3> QED BY <1>1, <1>2, <1>3, <2>2, <2>3, <2>5
  <2>7. NoticeGoes' BY <1>2, <1>3, <1>5, <2>3, <2>5, <2>6 DEF NoticeGoes
  <2> QED BY <1>2, <2>7, NoticesKeep
<1> QED BY <1>4, <1>5

LEMMA TellKeeps ==
  ASSUME RegistryInv, Tell
  PROVE  RegistryInv'
<1> DEFINE s == notice.left
           i == Head(s)
<1>1. /\ s # <<>> /\ notice' = [notice EXCEPT !.left = Tail(s)]
      /\ prepared' = IF notice.event = "prepare" THEN prepared \cup {i} ELSE prepared \ {i}
      /\ UNCHANGED <<list, frames, got, calls, phase, passes, first, at>>
  BY DEF Tell
<1>2. phase = "up" BY <1>1 DEF RegistryInv, PhasesInOrder
<1>3. s \in Seq(Nat) /\ Len(s) \in Nat /\ Len(s) > 0 BY <1>1 DEF RegistryInv, NoticeGoes
<1>4. /\ Tail(s) \in Seq(Nat) /\ Len(Tail(s)) = Len(s) - 1 /\ i = s[1]
      /\ \A x \in 1 .. Len(s) - 1 : Tail(s)[x] = s[x + 1]
  BY <1>1, <1>3, HeadTailProperties
<1>5. notice'.event = notice.event /\ notice'.size = notice.size /\ notice'.left = Tail(s)
  BY <1>1 DEF RegistryInv, NoticeGoes
<1>6. notice.size \in Nat /\ notice.size <= Len(list) BY <1>2 DEF RegistryInv, NoticeGoes
<1>10. notice' \in [event : {"none", "prepare", "parent", "child"}, left : Seq(Nat), size : Nat]
  <2> HIDE DEF s
  <2> QED BY <1>1, <1>4 DEF RegistryInv, NoticeGoes
<1>7. notice.event # "none" BY <1>1 DEF RegistryInv, NoticeGoes
<1>8. CASE notice.event = "prepare"
  <2>1. PICK m \in 0 .. notice.size :
          Len(s) = m /\ (\A x \in 1 .. m : s[x] = m + 1 - x) /\ prepared = m + 1 .. notice.size
    BY <1>8 DEF RegistryInv, NoticeGoes
  <2> HIDE DEF s, i
  <2>2. i = m /\ m - 1 \in 0 .. notice.size BY <1>3, <1>4, <1>6, <2>1
  <2>3. \A x \in 1 .. m - 1 : Tail(s)[x] = m - 1 + 1 - x BY <1>3, <1>4, <2>1
  <2>4. prepared' = m - 1 + 1 .. notice.size BY <1>1, <1>6, <1>8, <2>1, <2>2
  <2>5. Len(Tail(s)) = m - 1 BY <1>4, <2>1
  <2>7. \E l \in 0 .. notice.size :
          /\ Len(Tail(s)) = l /\ \A x \in 1 .. l : Tail(s)[x] = l + 1 - x
          /\ prepared' = l + 1 .. notice.size
    BY <2>2, <2>3, <2>4, <2>5
  <2>6. NoticeGoes' BY <1>1, <1>5, <1>6, <1>8, <1>10, <2>7 DEF NoticeGoes
  <2> QED BY <1>1, <1>2, <2>6, NoticesKeep
<1>9. CASE notice.event \in {"parent", "child"}
  <2>1. PICK h \in Nat : \E m \in 1 .. h + 1 :
          /\ notice.size <= h /\ Len(s) = h + 1 - m
          /\ \A x \in 1 .. h + 1 - m : s[x] = m - 1 + x
          /\ prepared = m .. notice.size
    BY <1>9 DEF RegistryInv, NoticeGoes
  <2>2. PICK m \in 1 .. h + 1 :
          /\ notice.size <= h /\ Len(s) = h + 1 - m
          /\ \A x \in 1 .. h + 1 - m : s[x] = m - 1 + x
          /\ prepared = m .. notice.size
    BY <2>1
  <2> HIDE DEF s, i
  <2>3. i = m /\ m + 1 \in 1 .. h + 1 BY <1>3, <1>4, <2>2
  <2>4. \A x \in 1 .. h + 1 - (m + 1) : Tail(s)[x] = m + 1 - 1 + x BY <1>3, <1>4, <2>2
  <2>8. prepared' = prepared \ {m} BY <1>1, <1>9, <2>3
  <2>9. (m .. notice.size) \ {m} = m + 1 .. notice.size BY <1>6, <2>2
  <2>5. prepared' = m + 1 .. notice.size BY <2>2, <2>8, <2>9
  <2>6. Len(Tail(s)) = h + 1 - (m + 1) BY <1>4, <2>2
  <2>10. \E l \in 1 .. h + 1 :
           /\ notice.size <= h /\ Len(Tail(s)) = h + 1 - l
           /\ \A x \in 1 .. h + 1 - l : Tail(s)[x] = l - 1 + x
           /\ prepared' = l .. notice.size
    <3>1. PICK l : l = m + 1 OBVIOUS
    <3>2. l \in 1 .. h + 1 BY <2>3, <3>1
    <3>3. notice.size <= h /\ Len(Tail(s)) = h + 1 - l BY <2>2, <2>6, <3>1
    <3>4. ASSUME NEW x \in 1 .. h + 1 - l PROVE Tail(s)[x] = l - 1 + x
      <4>1. x \in 1 .. h + 1 - (m + 1) BY <3>1
      <4>2. l - 1 + x = m + 1 - 1 + x BY <3>1
      <4> QED BY <2>4, <4>1, <4>2
    <3>5. prepared' = l .. notice.size BY <2>5, <3>1
    <3> QED BY <3>2, <3>3, <3>4, <3>5
  <2>7. NoticeGoes' BY <1>1, <1>5, <1>6, <1>9, <1>10, <2>10 DEF NoticeGoes
  <2> QED BY <1>1, <1>2, <2>7, NoticesKeep
<1> QED BY <1>7, <1>8, <1>9 DEF RegistryInv, NoticeGoes

----------------------------------------------------------------------------
(* The end of the context.                                                 *)

LEMMA ShutdownContextKeeps ==
  ASSUME RegistryInv, ShutdownContext
  PROVE  RegistryInv'
<1>1. Len(list) \in Nat BY DEF RegistryInv, RegistryShape
<1>2. /\ phase \in {"up", "shutdown"} /\ Idle /\ phase' = "shutdown"
      /\ first' = Len(list) /\ at' = Len(list)
      /\ UNCHANGED <<list, frames, got, calls, prepared, notice>>
  BY DEF ShutdownContext
<1>3. prepared = {} /\ notice.left = <<>> /\ notice.event # "prepare"
  <2>1. CASE phase = "shutdown" BY <2>1 DEF RegistryInv, PhasesInOrder
  <2>2. CASE phase = "up"
    <3>1. notice.left = <<>> /\ notice.event # "prepare" BY <2>2 DEF ShutdownContext
    <3>2. Len(notice.left) = 0 /\ notice.size \in Nat BY <3>1 DEF RegistryInv, NoticeGoes
    <3>3. CASE notice.event = "none" BY <3>1, <3>3 DEF RegistryInv, NoticeGoes
    <3>4. CASE notice.event \in {"parent", "child"}
      <4>1. PICK h \in Nat : \E m \in 1 .. h + 1 :
              notice.size <= h /\ Len(notice.left) = h + 1 - m /\ prepared = m .. notice.size
        BY <3>4 DEF RegistryInv, NoticeGoes
      <4>2. PICK m \in 1 .. h + 1 :
              notice.size <= h /\ Len(notice.left) = h + 1 - m /\ prepared = m .. notice.size
        BY <4>1
      <4> QED BY <3>1, <3>2, <4>2
    <3> QED BY <3>1, <3>3, <3>4 DEF RegistryInv, NoticeGoes
  <2> QED BY <1>2, <2>1, <2>2
<1>4. Positions' = Positions /\ \A key : Has(key)' <=> Has(key) BY <1>2 DEF Positions, Has
<1>5. RegistryShape' /\ CallsLook' BY <1>2, <1>4 DEF RegistryInv, RegistryShape, CallsLook
<1>6. OneKey' /\ GotIsThere' /\ UsedAreOlder' /\ ShutInOrder'
  BY <1>2, <1>4 DEF RegistryInv, OneKey, GotIsThere, UsedAreOlder, ShutInOrder
<1>7. PhasesInOrder' BY <1>1, <1>2, <1>3, <1>4 DEF PhasesInOrder, Positions
<1>8. NoticeGoes' BY <1>2 DEF RegistryInv, NoticeGoes
<1> QED BY <1>5, <1>6, <1>7, <1>8 DEF RegistryInv

LEMMA ShutdownStepKeeps ==
  ASSUME RegistryInv, ShutdownStep
  PROVE  RegistryInv'
<1> DEFINE N == Len(list)
           x == [list[at] EXCEPT !.shut = TRUE]
<1>1. /\ phase = "shutdown" /\ at > 0 /\ Idle
      /\ list' = [list EXCEPT ![at] = x] /\ at' = at - 1
      /\ UNCHANGED <<frames, got, calls, prepared, notice, phase, passes, first>>
  BY DEF ShutdownStep, ShutdownService
<1>2. /\ N \in Nat /\ list \in Seq(Service) /\ first \in Nat /\ at \in 0 .. first /\ first <= N
      /\ \A i \in Positions : i > at => list[i].shut \/ (i > first /\ list[i].late)
  BY <1>1 DEF RegistryInv, RegistryShape, PhasesInOrder
<1>3. at \in 1 .. N /\ Positions = 1 .. N BY <1>1, <1>2 DEF Positions
<1>4. list[at] \in Service BY <1>2, <1>3
<1>5. x \in Service /\ x.key = list[at].key /\ x.maker = list[at].maker /\ x.late = list[at].late
      /\ x.shut = TRUE
  BY <1>4 DEF Service
<1> HIDE DEF x, N
<1>6. /\ list' \in Seq(Service) /\ Len(list') = N
      /\ \A i \in 1 .. N : list'[i] = IF i = at THEN x ELSE list[i]
  BY <1>1, <1>2, <1>3, <1>5, ExceptSeq DEF N
<1>7. Positions' = Positions BY <1>3, <1>6 DEF Positions
<1>8. \A i \in Positions : /\ list'[i].key = list[i].key /\ list'[i].maker = list[i].maker
                        /\ list'[i].late = list[i].late
                        /\ list'[i].shut = (i = at \/ list[i].shut)
  <2>1. \A i \in Positions : list[i] \in Service BY <1>2, <1>3 DEF N
  <2> QED BY <1>3, <1>5, <1>6, <2>1 DEF Service
<1>9. \A key : Has(key)' <=> Has(key) BY <1>7, <1>8 DEF Has
<1>10. RegistryShape' BY <1>1, <1>6 DEF RegistryInv, RegistryShape
<1>11. CallsLook'
  <2>1. \A t \in Callers : Len(frames'[t]) = 0 BY <1>1 DEF Idle
  <2> QED BY <2>1 DEF CallsLook
<1>12. OneKey' BY <1>7, <1>8 DEF RegistryInv, OneKey
<1>13. GotIsThere'
  <2>1. phase \in {"up", "shutdown"} BY <1>1
  <2>2. \A g \in got : \E i \in Positions : list[i].key = g[1] /\ list[i].maker = g[2]
    BY <2>1 DEF RegistryInv, GotIsThere
  <2> QED BY <1>1, <1>7, <1>8, <2>2 DEF RegistryInv, GotIsThere
<1>14. UsedAreOlder'
  <2>1. \A i \in Positions : \A j \in 1 .. i - 1 : j \in Positions BY <1>2, <1>3 DEF N
  <2> QED BY <1>7, <1>8, <2>1 DEF RegistryInv, UsedAreOlder
<1>15. ShutInOrder'
  <2>1. ASSUME NEW i \in Positions, NEW j \in Positions, j < i, list'[j].shut
        PROVE  list'[i].shut \/ list'[i].late
    <3>1. CASE j = at
      <4>1. list[i].shut \/ list[i].late BY <1>2, <2>1, <3>1
      <4> QED BY <1>8, <4>1
    <3>2. CASE j # at
      <4>1. list[i].shut \/ list[i].late BY <1>8, <2>1, <3>2 DEF RegistryInv, ShutInOrder
      <4> QED BY <1>8, <4>1
    <3> QED BY <3>1, <3>2
  <2> QED BY <1>7, <2>1 DEF ShutInOrder
<1>16. PhasesInOrder'
  <2>1. ASSUME NEW i \in Positions, i > at - 1
        PROVE  list'[i].shut \/ (i > first /\ list'[i].late)
    <3>1. i = at \/ i > at BY <1>2, <1>3, <2>1 DEF N
    <3> QED BY <1>2, <1>8, <3>1
  <2>2. at' \in 0 .. first /\ first <= Len(list') BY <1>1, <1>2, <1>6
  <2> QED BY <1>1, <1>2, <1>7, <2>1, <2>2 DEF RegistryInv, PhasesInOrder
<1>17. NoticeGoes' BY <1>1, <1>6 DEF RegistryInv, NoticeGoes
<1> QED BY <1>10, <1>11, <1>12, <1>13, <1>14, <1>15, <1>16, <1>17 DEF RegistryInv

LEMMA DestroyContextKeeps ==
  ASSUME RegistryInv, DestroyContext
  PROVE  RegistryInv'
<1>1. /\ phase = "shutdown" /\ at = 0 /\ Idle /\ phase' = "destroy"
      /\ UNCHANGED <<list, frames, got, calls, prepared, notice, first, at>>
  BY DEF DestroyContext
<1>2. Positions' = Positions /\ \A key : Has(key)' <=> Has(key) BY <1>1 DEF Positions, Has
<1>3. RegistryShape' /\ CallsLook' BY <1>1, <1>2 DEF RegistryInv, RegistryShape, CallsLook
<1>4. OneKey' /\ GotIsThere' /\ UsedAreOlder' /\ ShutInOrder'
  BY <1>1, <1>2 DEF RegistryInv, OneKey, GotIsThere, UsedAreOlder, ShutInOrder
<1>5. \A i \in Positions : list[i].shut \/ i > first
  <2>1. \A i \in Positions : i > 0 BY DEF Positions, RegistryInv, RegistryShape
  <2> QED BY <1>1, <2>1 DEF RegistryInv, PhasesInOrder
<1>6. PhasesInOrder' BY <1>1, <1>2, <1>5 DEF RegistryInv, PhasesInOrder, Idle
<1>7. NoticeGoes' BY <1>1 DEF RegistryInv, NoticeGoes
<1> QED BY <1>3, <1>4, <1>6, <1>7 DEF RegistryInv

LEMMA DestroyStepKeeps ==
  ASSUME RegistryInv, DestroyStep
  PROVE  RegistryInv'
<1> DEFINE N == Len(list)
<1>1. /\ phase = "destroy" /\ UNCHANGED <<frames, got, calls, prepared, notice, passes, first, at>>
      /\ \/ list = <<>> /\ phase' = "gone" /\ UNCHANGED list
         \/ list # <<>> /\ list' = SubSeq(list, 1, N - 1) /\ UNCHANGED phase
  BY DEF DestroyStep
<1>2. N \in Nat /\ list \in Seq(Service) BY DEF RegistryInv, RegistryShape
<1>3. /\ list' \in Seq(Service) /\ Len(list') \in 0 .. N
      /\ \A i \in 1 .. Len(list') : list'[i] = list[i]
      /\ phase' \in {"destroy", "gone"}
  <2>1. CASE list = <<>> /\ phase' = "gone" /\ UNCHANGED list BY <1>2, <2>1
  <2>2. CASE list # <<>> /\ list' = SubSeq(list, 1, N - 1) /\ UNCHANGED phase
    <3>1. N > 0 BY <1>2, <2>2
    <3> QED BY <1>1, <1>2, <2>2, <3>1
  <2> QED BY <1>1, <2>1, <2>2
<1>4. \A i \in Positions' : i \in Positions /\ list'[i] = list[i] /\ \A j \in 1 .. i - 1 : j \in Positions'
  BY <1>2, <1>3 DEF Positions
<1>5. Idle' /\ Idle BY <1>1 DEF RegistryInv, PhasesInOrder, Idle
<1>6. RegistryShape' BY <1>1, <1>3 DEF RegistryInv, RegistryShape
<1>7. CallsLook'
  <2>1. \A t \in Callers : Len(frames'[t]) = 0 BY <1>5 DEF Idle
  <2> QED BY <2>1 DEF CallsLook
<1>8. OneKey' /\ ShutInOrder' BY <1>4 DEF RegistryInv, OneKey, ShutInOrder
<1>9. GotIsThere' BY <1>1, <1>3 DEF RegistryInv, GotIsThere
<1>10. UsedAreOlder' BY <1>4 DEF RegistryInv, UsedAreOlder
<1>11. PhasesInOrder' BY <1>1, <1>3, <1>4, <1>5 DEF RegistryInv, PhasesInOrder
<1>12. NoticeGoes' BY <1>1, <1>3 DEF RegistryInv, NoticeGoes
<1> QED BY <1>6, <1>7, <1>8, <1>9, <1>10, <1>11, <1>12 DEF RegistryInv

----------------------------------------------------------------------------
(* The theorem.                                                            *)

LEMMA RegistrySteps == RegistryInv /\ [RegistryNext]_registryVars => RegistryInv'
<1> SUFFICES ASSUME RegistryInv, [RegistryNext]_registryVars PROVE RegistryInv' OBVIOUS
<1>1. ASSUME NEW t \in Callers,
             \/ \E key \in Keys, op \in {"use", "make"} : Call(t, op, key)
             \/ \E key \in Keys : Construct(t, key)
             \/ Look(t) \/ CreationFails(t) \/ Register(t)
      PROVE  RegistryInv'
  <2>1. CASE \E key \in Keys, op \in {"use", "make"} : Call(t, op, key) BY <2>1, CallKeeps
  <2>2. CASE \E key \in Keys : Construct(t, key) BY <2>2, ConstructKeeps
  <2>3. CASE Look(t) BY <2>3, LookKeeps
  <2>4. CASE CreationFails(t) BY <2>4, CreationFailsKeeps
  <2>5. CASE Register(t) BY <2>5, RegisterKeeps
  <2> QED BY <1>1, <2>1, <2>2, <2>3, <2>4, <2>5
<1>2. CASE \E event \in {"prepare", "parent", "child"} : NotifyFork(event)
  BY <1>2, NotifyForkKeeps
<1>3. CASE Tell \/ ShutdownContext \/ ShutdownStep \/ DestroyContext \/ DestroyStep
  BY <1>3, TellKeeps, ShutdownContextKeeps, ShutdownStepKeeps, DestroyContextKeeps, DestroyStepKeeps
<1>4. CASE UNCHANGED registryVars
  <2>1. UNCHANGED <<list, frames, got, calls, prepared, notice, phase, passes, first, at>>
    BY <1>4 DEF registryVars
  <2>2. Positions' = Positions /\ \A key : Has(key)' <=> Has(key) BY <2>1 DEF Positions, Has
  <2>3. RegistryShape' /\ CallsLook' BY <2>1, <2>2 DEF RegistryInv, RegistryShape, CallsLook
  <2>4. OneKey' /\ GotIsThere' /\ UsedAreOlder' /\ ShutInOrder'
    BY <2>1, <2>2 DEF RegistryInv, OneKey, GotIsThere, UsedAreOlder, ShutInOrder
  <2>5. PhasesInOrder' BY <2>1, <2>2 DEF RegistryInv, PhasesInOrder, Idle
  <2>6. NoticeGoes' BY <2>1 DEF RegistryInv, NoticeGoes
  <2> QED BY <2>3, <2>4, <2>5, <2>6 DEF RegistryInv
<1> QED BY <1>1, <1>2, <1>3, <1>4 DEF RegistryNext

\* However many threads ask for services that use each other, in whatever way,
\* and however often the context is forked: it has one of a type, and what uses
\* another is told, shut down and destroyed in the right order
\* (execution_context.h:35-188).
THEOREM ServicesAreKept == RegistrySpec => []ServicesKept
<1>1. RegistryInv /\ [RegistryNext]_registryVars => RegistryInv' BY RegistrySteps
<1> QED BY <1>1, RegistryStarts, InvImpliesKept, PTL DEF RegistrySpec

\* The counts that only the bounds and the types speak of.
CallCounts == calls \in 0 .. MaxCalls /\ passes \in 0 .. 2 /\ first \in Nat /\ at \in 0 .. first

LEMMA CountsKept ==
  ASSUME RegistryInv, CallCounts, [RegistryNext]_registryVars
  PROVE  CallCounts'
<1> USE UsesAssumption
<1>1. ASSUME UNCHANGED <<calls, passes, first, at>> PROVE CallCounts' BY <1>1 DEF CallCounts
<1>2. ASSUME NEW t \in Callers, NEW key \in Keys, NEW op \in {"use", "make"}, Call(t, op, key)
      PROVE  CallCounts'
  BY <1>2 DEF Call, CallCounts
<1>3. ASSUME NEW t \in Callers, NEW key \in Keys, Construct(t, key) PROVE CallCounts'
  BY <1>1, <1>3 DEF Construct
<1>4. ASSUME NEW t \in Callers, Look(t) \/ CreationFails(t) \/ Register(t) PROVE CallCounts'
  BY <1>1, <1>4 DEF Look, CreationFails, Register
<1>5. ASSUME NEW event \in {"prepare", "parent", "child"}, NotifyFork(event) PROVE CallCounts'
  BY <1>1, <1>5 DEF NotifyFork
<1>6. CASE ShutdownContext
  <2>1. Len(list) \in Nat BY DEF RegistryInv, RegistryShape
  <2> QED BY <1>6, <2>1 DEF ShutdownContext, CallCounts
<1>7. CASE ShutdownStep BY <1>7 DEF ShutdownStep, ShutdownService, CallCounts
<1>8. CASE Tell \/ DestroyContext \/ DestroyStep BY <1>1, <1>8 DEF Tell, DestroyContext, DestroyStep
<1>9. CASE UNCHANGED registryVars BY <1>1, <1>9 DEF registryVars
<1> QED BY <1>2, <1>3, <1>4, <1>5, <1>6, <1>7, <1>8, <1>9 DEF RegistryNext

LEMMA RegistryTypes == RegistrySpec => []RegistryTypeOK
<1>1. RegistryInit => CallCounts BY UsesAssumption DEF RegistryInit, CallCounts
<1>2. RegistryInv /\ CallCounts /\ [RegistryNext]_registryVars => CallCounts' BY CountsKept
<1>3. RegistryInv /\ CallCounts => RegistryTypeOK
  BY DEF RegistryInv, RegistryShape, NoticeGoes, CallCounts, RegistryTypeOK, Service
<1>4. RegistryInv /\ [RegistryNext]_registryVars => RegistryInv' BY RegistrySteps
<1> QED BY <1>1, <1>2, <1>3, <1>4, RegistryStarts, PTL DEF RegistrySpec

----------------------------------------------------------------------------
(* The service of strands.                                                 *)

StrandsShape ==
  /\ firstImpl \in StrandImpls \cup {"null"} /\ live \subseteq StrandImpls
  /\ nextImpl \in [StrandImpls -> StrandImpls \cup {"null"}]
  /\ prevImpl \in [StrandImpls -> StrandImpls \cup {"null"}]
  /\ keeps \in [StrandImpls -> SUBSET StrandFunctions]
  /\ service \in {"up", "quiet", "locked", "unlocked", "gone"}

\* The list has n implementations, each once.
Chained(order, n) ==
  /\ \A i \in live : \E k \in 1 .. n : order[k] = i
  /\ \A j, k \in 1 .. n : order[j] = order[k] => j = k
  /\ firstImpl = IF n = 0 THEN "null" ELSE order[1]
  /\ \A k \in 1 .. n :
       /\ nextImpl[order[k]] = IF k = n THEN "null" ELSE order[k + 1]
       /\ prevImpl[order[k]] = IF k = 1 THEN "null" ELSE order[k - 1]

\* The shutdown has taken the functions of those it has passed.
Passed(order, n) ==
  service = "locked" =>
    \E m \in 1 .. n + 1 :
      /\ position = IF m = n + 1 THEN "null" ELSE order[m]
      /\ \A k \in 1 .. n : k < m => keeps[order[k]] = {}

ShutDown ==
  /\ service \in {"unlocked", "gone"} => \A i \in live : keeps[i] = {}
  /\ service = "gone" => \A i \in live : \E v \in StrandVars : refers[v] = i

StrandsInv ==
  /\ StrandsShape /\ ShutDown
  /\ \E n \in Nat : \E order \in [1 .. n -> live] : Chained(order, n) /\ Passed(order, n)

LEMMA InvImpliesListed == StrandsInv => StrandsListed
<1> SUFFICES ASSUME StrandsInv PROVE StrandsListed OBVIOUS
<1>1. PICK n \in Nat : \E order \in [1 .. n -> live] : Chained(order, n) BY DEF StrandsInv
<1>2. PICK order \in [1 .. n -> live] : Chained(order, n) BY <1>1
<1>3. Cardinality(live) = n
  <2>1. order \in Bijection(1 .. n, live)
    BY <1>2 DEF Chained, Bijection, Injection, Surjection, IsInjective
  <2> QED BY <2>1, FS_CountingElements DEF ExistsBijection
<1>4. {order[k] : k \in 1 .. n} = live BY <1>2 DEF Chained
<1>5. ListIs(order) BY <1>2, <1>3, <1>4 DEF ListIs, Chained
<1> QED BY <1>2, <1>3, <1>5 DEF StrandsListed, StrandsInv, ShutDown

LEMMA StrandsBegin == StrandsStart => StrandsInv
<1> SUFFICES ASSUME StrandsStart PROVE StrandsInv OBVIOUS
<1>1. /\ live = {} /\ firstImpl = "null" /\ service = "up"
      /\ nextImpl = [i \in StrandImpls |-> "null"] /\ prevImpl = [i \in StrandImpls |-> "null"]
      /\ keeps = [i \in StrandImpls |-> {}]
  BY DEF StrandsStart
<1>2. StrandsShape /\ ShutDown BY <1>1 DEF StrandsShape, ShutDown
<1>3. PICK order \in [1 .. 0 -> live] : TRUE
  <2>1. [k \in 1 .. 0 |-> "null"] \in [1 .. 0 -> live] OBVIOUS
  <2> QED BY <2>1
<1>4. Chained(order, 0) /\ Passed(order, 0) BY <1>1 DEF Chained, Passed
<1> QED BY <1>2, <1>3, <1>4 DEF StrandsInv

\* What leaves the list alone.
LEMMA SameList ==
  ASSUME StrandsInv, StrandsShape', ShutDown', UNCHANGED <<firstImpl, nextImpl, prevImpl, live>>,
         service' = "locked" => UNCHANGED <<keeps, position, service>>
  PROVE  StrandsInv'
<1>1. PICK n \in Nat : \E order \in [1 .. n -> live] : Chained(order, n) /\ Passed(order, n)
  BY DEF StrandsInv
<1>2. PICK order \in [1 .. n -> live] : Chained(order, n) /\ Passed(order, n) BY <1>1
<1>3. Chained(order, n)' BY <1>2 DEF Chained
<1>4. Passed(order, n)' BY <1>2 DEF Passed
<1>5. order \in [1 .. n -> live'] OBVIOUS
<1> QED BY <1>3, <1>4, <1>5 DEF StrandsInv

LEMMA LinkKeeps ==
  ASSUME StrandsInv, NEW i \in StrandImpls, Link(i), service = "up", UNCHANGED <<keeps, service>>
  PROVE  StrandsInv'
<1>1. PICK n \in Nat : \E order \in [1 .. n -> live] : Chained(order, n) BY DEF StrandsInv
<1>2. PICK order \in [1 .. n -> live] : Chained(order, n) BY <1>1
<1>3. /\ i \notin live /\ live' = live \cup {i} /\ firstImpl' = i
      /\ nextImpl' = [nextImpl EXCEPT ![i] = firstImpl]
      /\ prevImpl' = [j \in StrandImpls |-> IF j = i THEN "null" ELSE IF j = firstImpl THEN i ELSE prevImpl[j]]
  BY DEF Link
<1>4. StrandsShape' BY <1>3 DEF StrandsInv, StrandsShape
<1>5. ShutDown' BY DEF ShutDown
<1> DEFINE longer == [k \in 1 .. n + 1 |-> IF k = 1 THEN i ELSE order[k - 1]]
<1>6. longer \in [1 .. n + 1 -> live'] /\ n + 1 \in Nat BY <1>2, <1>3
<1>7. /\ longer[1] = i /\ 1 \in 1 .. n + 1
      /\ \A k \in 1 .. n : k + 1 \in 1 .. n + 1 /\ longer[k + 1] = order[k]
      /\ \A k \in 1 .. n + 1 : k = 1 \/ (k - 1 \in 1 .. n /\ k = (k - 1) + 1 /\ longer[k] = order[k - 1])
  OBVIOUS
<1> HIDE DEF longer
<1>8. Chained(longer, n + 1)'
  <2>1. ASSUME NEW j \in live' PROVE \E k \in 1 .. n + 1 : longer[k] = j
    <3>1. CASE j = i BY <1>7, <3>1
    <3>2. CASE j \in live
      <4>1. PICK k \in 1 .. n : order[k] = j BY <1>2, <3>2 DEF Chained
      <4> QED BY <1>7, <4>1
    <3> QED BY <1>3, <2>1, <3>1, <3>2
  <2>2. ASSUME NEW j \in 1 .. n + 1, NEW k \in 1 .. n + 1, longer[j] = longer[k] PROVE j = k
    <3>1. \A l \in 1 .. n : order[l] # i BY <1>2, <1>3
    <3>2. CASE j = 1 \/ k = 1 BY <1>7, <2>2, <3>1, <3>2
    <3>3. CASE j # 1 /\ k # 1
      <4>1. j - 1 \in 1 .. n /\ k - 1 \in 1 .. n /\ order[j - 1] = order[k - 1] BY <1>7, <2>2, <3>3
      <4>2. j - 1 = k - 1 BY <1>2, <4>1 DEF Chained
      <4> QED BY <4>2
    <3> QED BY <3>2, <3>3
  <2>3. ASSUME NEW k \in 1 .. n + 1
        PROVE  /\ nextImpl'[longer[k]] = IF k = n + 1 THEN "null" ELSE longer[k + 1]
               /\ prevImpl'[longer[k]] = IF k = 1 THEN "null" ELSE longer[k - 1]
    <3>1. /\ nextImpl \in [StrandImpls -> StrandImpls \cup {"null"}] /\ live \subseteq StrandImpls
      BY DEF StrandsInv, StrandsShape
    <3>2. CASE k = 1
      <4>1. nextImpl'[i] = firstImpl /\ prevImpl'[i] = "null" BY <1>3, <3>1
      <4>2. firstImpl = IF n = 0 THEN "null" ELSE order[1] BY <1>2 DEF Chained
      <4>3. n # 0 => longer[1 + 1] = order[1] BY <1>7
      <4>4. (k = n + 1) <=> n = 0 BY <3>2
      <4> QED BY <1>7, <3>2, <4>1, <4>2, <4>3, <4>4
    <3>3. CASE k # 1
      <4> DEFINE l == k - 1
      <4>1. l \in 1 .. n /\ k = l + 1 /\ longer[k] = order[l] BY <1>7, <3>3
      <4>2. order[l] \in live /\ order[l] # i /\ order[l] \in StrandImpls BY <1>2, <1>3, <3>1, <4>1
      <4>3. nextImpl'[order[l]] = IF l = n THEN "null" ELSE order[l + 1]
        BY <1>2, <1>3, <3>1, <4>1, <4>2 DEF Chained
      <4>4. l # n => longer[k + 1] = order[l + 1] BY <1>7, <4>1
      <4>5. prevImpl'[order[l]] = IF order[l] = firstImpl THEN i ELSE prevImpl[order[l]] BY <1>3, <4>2
      <4>6. CASE l = 1
        <5>1. order[l] = firstImpl BY <1>2, <4>1, <4>6 DEF Chained
        <5>2. longer[k - 1] = i BY <1>7, <4>6
        <5> QED BY <3>3, <4>1, <4>3, <4>4, <4>5, <5>1, <5>2
      <4>7. CASE l # 1
        <5>1. 1 \in 1 .. n /\ firstImpl = order[1] BY <1>2, <4>1 DEF Chained
        <5>2. order[l] # firstImpl BY <1>2, <4>1, <4>7, <5>1 DEF Chained
        <5>3. prevImpl[order[l]] = order[l - 1] BY <1>2, <4>1, <4>7 DEF Chained
        <5>4. longer[k - 1] = order[l - 1]
          <6>1. k - 1 \in 1 .. n + 1 /\ k - 1 # 1 /\ (k - 1) - 1 = l - 1 BY <4>1, <4>7
          <6> QED BY <1>7, <6>1
        <5> QED BY <3>3, <4>1, <4>3, <4>4, <4>5, <5>2, <5>3, <5>4
      <4> QED BY <4>6, <4>7
    <3> QED BY <3>2, <3>3
  <2>4. firstImpl' = IF n + 1 = 0 THEN "null" ELSE longer[1] BY <1>3, <1>7
  <2> QED BY <2>1, <2>2, <2>3, <2>4 DEF Chained
<1>9. Passed(longer, n + 1)' BY DEF Passed
<1> QED BY <1>4, <1>5, <1>6, <1>8, <1>9 DEF StrandsInv

\* Out of the list, from wherever it is.
LEMMA UnlinkKeeps ==
  ASSUME StrandsInv, NEW i \in StrandImpls, Unlink(i)
  PROVE  StrandsInv'
<1>1. PICK n \in Nat : \E order \in [1 .. n -> live] : Chained(order, n) BY DEF StrandsInv
<1>2. PICK order \in [1 .. n -> live] : Chained(order, n) BY <1>1
<1>3. /\ i \in live /\ live' = live \ {i} /\ service \notin {"locked", "gone"} /\ service' = service
      /\ firstImpl' = IF firstImpl = i THEN nextImpl[i] ELSE firstImpl
      /\ nextImpl' = [j \in StrandImpls |-> IF j = prevImpl[i] THEN nextImpl[i] ELSE nextImpl[j]]
      /\ prevImpl' = [j \in StrandImpls |-> IF j = nextImpl[i] THEN prevImpl[i] ELSE prevImpl[j]]
      /\ keeps' = [keeps EXCEPT ![i] = {}]
  BY DEF Unlink, MutexFree, RelinkNext
<1>4. /\ nextImpl \in [StrandImpls -> StrandImpls \cup {"null"}] /\ live \subseteq StrandImpls
      /\ prevImpl \in [StrandImpls -> StrandImpls \cup {"null"}]
      /\ firstImpl \in StrandImpls \cup {"null"} /\ keeps \in [StrandImpls -> SUBSET StrandFunctions]
      /\ service \in {"up", "quiet", "locked", "unlocked", "gone"}
  BY DEF StrandsInv, StrandsShape
<1>5. StrandsShape' BY <1>3, <1>4 DEF StrandsShape
<1>6. ShutDown' BY <1>3, <1>4 DEF StrandsInv, ShutDown
<1>7. PICK p \in 1 .. n : order[p] = i BY <1>2, <1>3 DEF Chained
<1>8. \A k \in 1 .. n : k # p => order[k] # i BY <1>2, <1>7 DEF Chained
<1>9. /\ nextImpl[i] = IF p = n THEN "null" ELSE order[p + 1]
      /\ prevImpl[i] = IF p = 1 THEN "null" ELSE order[p - 1]
  BY <1>2, <1>7 DEF Chained
<1> DEFINE shorter == [k \in 1 .. n - 1 |-> IF k < p THEN order[k] ELSE order[k + 1]]
<1>10. n - 1 \in Nat /\ shorter \in [1 .. n - 1 -> live']
  <2>1. \A k \in 1 .. n - 1 : IF k < p THEN k \in 1 .. n /\ k # p ELSE k + 1 \in 1 .. n /\ k + 1 # p
    OBVIOUS
  <2>2. \A k \in 1 .. n : order[k] \in live OBVIOUS
  <2>3. \A k \in 1 .. n - 1 : (IF k < p THEN order[k] ELSE order[k + 1]) \in live'
    BY <1>3, <1>8, <2>1, <2>2
  <2> QED BY <2>3
<1>11. /\ \A k \in 1 .. n - 1 : k < p => k \in 1 .. n /\ shorter[k] = order[k]
       /\ \A k \in 1 .. n - 1 : k >= p => k + 1 \in 1 .. n /\ shorter[k] = order[k + 1]
       /\ \A k \in 1 .. n : k < p => k \in 1 .. n - 1
       /\ \A k \in 1 .. n : k > p => k - 1 \in 1 .. n - 1 /\ ~(k - 1 < p) /\ (k - 1) + 1 = k
  OBVIOUS
<1> HIDE DEF shorter
<1>12. \A k \in 1 .. n : order[k] \in StrandImpls /\ order[k] # "null" /\ order[k] \in live
  BY <1>4, StrandImplsAssumption
<1>13. \A j, k \in 1 .. n : order[j] = order[k] => j = k BY <1>2 DEF Chained
<1>14. \A k \in 1 .. n : k # p =>
         /\ nextImpl'[order[k]] = IF k + 1 = p THEN nextImpl[i] ELSE nextImpl[order[k]]
         /\ prevImpl'[order[k]] = IF k = p + 1 THEN prevImpl[i] ELSE prevImpl[order[k]]
  <2> SUFFICES ASSUME NEW k \in 1 .. n, k # p
               PROVE  /\ nextImpl'[order[k]] = IF k + 1 = p THEN nextImpl[i] ELSE nextImpl[order[k]]
                      /\ prevImpl'[order[k]] = IF k = p + 1 THEN prevImpl[i] ELSE prevImpl[order[k]]
    OBVIOUS
  <2>1. order[k] = prevImpl[i] <=> k + 1 = p
    <3>1. CASE p = 1 BY <1>9, <1>12, <3>1
    <3>2. CASE p # 1
      <4>1. p - 1 \in 1 .. n /\ prevImpl[i] = order[p - 1] BY <1>9, <3>2
      <4>2. order[k] = order[p - 1] <=> k = p - 1 BY <1>13, <4>1
      <4> QED BY <4>1, <4>2
    <3> QED BY <3>1, <3>2
  <2>2. order[k] = nextImpl[i] <=> k = p + 1
    <3>1. CASE p = n BY <1>9, <1>12, <3>1
    <3>2. CASE p # n
      <4>1. p + 1 \in 1 .. n /\ nextImpl[i] = order[p + 1] BY <1>9, <3>2
      <4>2. order[k] = order[p + 1] <=> k = p + 1 BY <1>13, <4>1
      <4> QED BY <4>1, <4>2
    <3> QED BY <3>1, <3>2
  <2> QED BY <1>3, <1>12, <2>1, <2>2
<1>15. Chained(shorter, n - 1)'
  <2>1. ASSUME NEW j \in live' PROVE \E k \in 1 .. n - 1 : shorter[k] = j
    <3>1. PICK k \in 1 .. n : order[k] = j BY <1>2, <1>3, <2>1 DEF Chained
    <3>2. k # p BY <1>3, <1>7, <2>1, <3>1
    <3>3. CASE k < p BY <1>11, <3>1, <3>3
    <3>4. CASE k > p
      <4>1. k - 1 \in 1 .. n - 1 /\ k - 1 >= p BY <1>11, <3>4
      <4>2. shorter[k - 1] = order[(k - 1) + 1] BY <1>11, <4>1
      <4> QED BY <1>11, <3>1, <3>4, <4>1, <4>2
    <3> QED BY <3>2, <3>3, <3>4
  <2>2. ASSUME NEW j \in 1 .. n - 1, NEW k \in 1 .. n - 1, shorter[j] = shorter[k] PROVE j = k
    <3>1. CASE j < p /\ k < p BY <1>11, <1>13, <2>2, <3>1
    <3>2. CASE j >= p /\ k >= p
      <4>1. j + 1 \in 1 .. n /\ k + 1 \in 1 .. n /\ order[j + 1] = order[k + 1] BY <1>11, <2>2, <3>2
      <4>2. j + 1 = k + 1 BY <1>13, <4>1
      <4> QED BY <4>2
    <3>3. CASE j < p /\ k >= p
      <4>1. j \in 1 .. n /\ k + 1 \in 1 .. n /\ order[j] = order[k + 1] BY <1>11, <2>2, <3>3
      <4>2. j = k + 1 BY <1>13, <4>1
      <4> QED BY <3>3, <4>2
    <3>4. CASE j >= p /\ k < p
      <4>1. j + 1 \in 1 .. n /\ k \in 1 .. n /\ order[j + 1] = order[k] BY <1>11, <2>2, <3>4
      <4>2. j + 1 = k BY <1>13, <4>1
      <4> QED BY <3>4, <4>2
    <3> QED BY <3>1, <3>2, <3>3, <3>4
  <2>3. ASSUME NEW k \in 1 .. n - 1
        PROVE  nextImpl'[shorter[k]] = IF k = n - 1 THEN "null" ELSE shorter[k + 1]
    <3>1. CASE k + 1 < p
      <4>1. k \in 1 .. n /\ k # p /\ k + 1 # p /\ k # n /\ k # n - 1 /\ k + 1 \in 1 .. n - 1 BY <3>1
      <4>2. shorter[k] = order[k] /\ shorter[k + 1] = order[k + 1] BY <1>11, <3>1, <4>1
      <4>3. nextImpl[order[k]] = order[k + 1] BY <1>2, <4>1 DEF Chained
      <4> QED BY <1>14, <4>1, <4>2, <4>3
    <3>2. CASE k + 1 = p
      <4>1. k \in 1 .. n /\ k # p /\ k < p BY <3>2
      <4>2. shorter[k] = order[k] /\ nextImpl'[order[k]] = nextImpl[i] BY <1>11, <1>14, <3>2, <4>1
      <4>3. p = n <=> k = n - 1 BY <3>2
      <4>4. p # n => k + 1 \in 1 .. n - 1 /\ shorter[k + 1] = order[p + 1]
        <5> SUFFICES ASSUME p # n PROVE k + 1 \in 1 .. n - 1 /\ shorter[k + 1] = order[p + 1] OBVIOUS
        <5>1. k + 1 \in 1 .. n - 1 /\ k + 1 >= p BY <3>2
        <5> QED BY <1>11, <3>2, <5>1
      <4> QED BY <1>9, <4>2, <4>3, <4>4
    <3>3. CASE k >= p
      <4>1. k + 1 \in 1 .. n /\ k + 1 # p /\ (k + 1) + 1 # p BY <3>3
      <4>2. shorter[k] = order[k + 1] BY <1>11, <3>3
      <4>3. nextImpl'[order[k + 1]] = nextImpl[order[k + 1]] BY <1>14, <4>1
      <4>4. nextImpl[order[k + 1]] = IF k + 1 = n THEN "null" ELSE order[(k + 1) + 1]
        BY <1>2, <4>1 DEF Chained
      <4>5. k + 1 = n <=> k = n - 1 OBVIOUS
      <4>6. k # n - 1 => shorter[k + 1] = order[(k + 1) + 1]
        <5> SUFFICES ASSUME k # n - 1 PROVE shorter[k + 1] = order[(k + 1) + 1] OBVIOUS
        <5>1. k + 1 \in 1 .. n - 1 /\ k + 1 >= p BY <3>3
        <5> QED BY <1>11, <5>1
      <4> QED BY <4>2, <4>3, <4>4, <4>5, <4>6
    <3> QED BY <3>1, <3>2, <3>3
  <2>4. ASSUME NEW k \in 1 .. n - 1
        PROVE  prevImpl'[shorter[k]] = IF k = 1 THEN "null" ELSE shorter[k - 1]
    <3>1. CASE k < p
      <4>1. k \in 1 .. n /\ k # p /\ k # p + 1 BY <3>1
      <4>2. shorter[k] = order[k] BY <1>11, <3>1
      <4>3. prevImpl'[order[k]] = IF k = 1 THEN "null" ELSE order[k - 1]
        BY <1>2, <1>14, <4>1 DEF Chained
      <4>4. k # 1 => shorter[k - 1] = order[k - 1]
        <5> SUFFICES ASSUME k # 1 PROVE shorter[k - 1] = order[k - 1] OBVIOUS
        <5>1. k - 1 \in 1 .. n - 1 /\ k - 1 < p BY <3>1
        <5> QED BY <1>11, <5>1
      <4> QED BY <4>2, <4>3, <4>4
    <3>2. CASE k = p
      <4>1. k + 1 \in 1 .. n /\ k + 1 # p /\ k + 1 = p + 1 BY <3>2
      <4>2. shorter[k] = order[k + 1] BY <1>11, <3>2
      <4>3. prevImpl'[order[k + 1]] = prevImpl[i] BY <1>14, <4>1
      <4>4. k # 1 => shorter[k - 1] = order[k - 1]
        <5> SUFFICES ASSUME k # 1 PROVE shorter[k - 1] = order[k - 1] OBVIOUS
        <5>1. k - 1 \in 1 .. n - 1 /\ k - 1 < p BY <3>2
        <5> QED BY <1>11, <5>1
      <4> QED BY <1>9, <3>2, <4>2, <4>3, <4>4
    <3>3. CASE k > p
      <4>1. k + 1 \in 1 .. n /\ k + 1 # p /\ k + 1 # p + 1 /\ k + 1 # 1 /\ k # 1 BY <3>3
      <4>2. shorter[k] = order[k + 1] BY <1>11, <3>3
      <4>3. prevImpl'[order[k + 1]] = prevImpl[order[k + 1]] BY <1>14, <4>1
      <4>4. prevImpl[order[k + 1]] = order[(k + 1) - 1] BY <1>2, <4>1 DEF Chained
      <4>5. shorter[k - 1] = order[(k - 1) + 1]
        <5>1. k - 1 \in 1 .. n - 1 /\ k - 1 >= p BY <3>3
        <5> QED BY <1>11, <5>1
      <4>6. (k + 1) - 1 = k /\ (k - 1) + 1 = k OBVIOUS
      <4> QED BY <4>1, <4>2, <4>3, <4>4, <4>5, <4>6
    <3> QED BY <3>1, <3>2, <3>3
  <2>5. firstImpl' = IF n - 1 = 0 THEN "null" ELSE shorter[1]
    <3>1. 1 \in 1 .. n /\ firstImpl = order[1] BY <1>2 DEF Chained
    <3>2. CASE p = 1
      <4>1. firstImpl' = IF n = 1 THEN "null" ELSE order[1 + 1] BY <1>3, <1>7, <1>9, <3>1, <3>2
      <4>2. n # 1 => shorter[1] = order[1 + 1]
        <5> SUFFICES ASSUME n # 1 PROVE shorter[1] = order[1 + 1] OBVIOUS
        <5>1. 1 \in 1 .. n - 1 /\ 1 >= p BY <3>2
        <5> QED BY <1>11, <5>1
      <4>3. n = 1 <=> n - 1 = 0 OBVIOUS
      <4> QED BY <4>1, <4>2, <4>3
    <3>3. CASE p # 1
      <4>1. 1 \in 1 .. n - 1 /\ 1 < p /\ n - 1 # 0 BY <3>3
      <4>2. firstImpl' = order[1] BY <1>3, <1>8, <3>1, <3>3
      <4> QED BY <1>11, <4>1, <4>2
    <3> QED BY <3>2, <3>3
  <2> QED BY <2>1, <2>2, <2>3, <2>4, <2>5 DEF Chained
<1>16. Passed(shorter, n - 1)' BY <1>3 DEF Passed
<1> QED BY <1>5, <1>6, <1>10, <1>15, <1>16 DEF StrandsInv

\* What strands and their functions do while the service is up, or to itself.
LEMMA ClientsKeep ==
  ASSUME StrandsInv, service # "gone" \/ UNCHANGED refers, UNCHANGED <<firstImpl, nextImpl, prevImpl, live, service>>,
         \/ UNCHANGED <<keeps, position>>
         \/ service = "up" /\ keeps' \in [StrandImpls -> SUBSET StrandFunctions]
  PROVE  StrandsInv'
<1>1. StrandsShape' BY DEF StrandsInv, StrandsShape
<1>2. ShutDown' BY DEF StrandsInv, ShutDown
<1> QED BY <1>1, <1>2, SameList

LEMMA VariablesKeep ==
  ASSUME StrandsInv, NEW v \in StrandVars, NEW u \in StrandVars,
         \/ DestroyStrand(v) \/ CopyStrand(v, u) \/ MoveStrand(v, u) \/ AssignStrand(v, u)
         \/ MoveAssignStrand(v, u)
  PROVE  StrandsInv'
BY ClientsKeep DEF DestroyStrand, CopyStrand, MoveStrand, AssignStrand, MoveAssignStrand,
                   MayUseStrand, SetStrand, TakeStrand

LEMMA FunctionsKeep ==
  ASSUME StrandsInv, NEW v, NEW i \in StrandImpls, NEW f \in StrandFunctions,
         KeepFunction(v, f, i) \/ CompleteFunction(i, f) \/ DestroyTaken(f)
  PROVE  StrandsInv'
<1>1. CASE KeepFunction(v, f, i) \/ CompleteFunction(i, f)
  <2>1. keeps' \in [StrandImpls -> SUBSET StrandFunctions]
    BY <1>1 DEF KeepFunction, CompleteFunction, StrandsInv, StrandsShape
  <2> QED BY <1>1, <2>1, ClientsKeep DEF KeepFunction, CompleteFunction
<1>2. CASE DestroyTaken(f) BY <1>2, ClientsKeep DEF DestroyTaken
<1> QED BY <1>1, <1>2

\* The shutdown takes what the implementation has where it has come to.
LEMMA TakeKeeps ==
  ASSUME StrandsInv, TakeFunctions
  PROVE  StrandsInv'
<1>1. PICK n \in Nat : \E order \in [1 .. n -> live] : Chained(order, n) /\ Passed(order, n)
  BY DEF StrandsInv
<1>2. PICK order \in [1 .. n -> live] : Chained(order, n) /\ Passed(order, n) BY <1>1
<1>3. service = "locked" /\ UNCHANGED <<refers, firstImpl, nextImpl, prevImpl, live>>
  BY DEF TakeFunctions
<1>4. PICK m \in 1 .. n + 1 :
        /\ position = IF m = n + 1 THEN "null" ELSE order[m]
        /\ \A k \in 1 .. n : k < m => keeps[order[k]] = {}
  BY <1>2, <1>3 DEF Passed
<1>5. /\ live \subseteq StrandImpls /\ keeps \in [StrandImpls -> SUBSET StrandFunctions]
      /\ \A k \in 1 .. n : order[k] \in StrandImpls /\ order[k] # "null"
  BY StrandImplsAssumption DEF StrandsInv, StrandsShape
<1>6. order \in [1 .. n -> live'] /\ Chained(order, n)' BY <1>2, <1>3 DEF Chained
<1>7. CASE position = "null"
  <2>1. service' = "unlocked" /\ UNCHANGED keeps BY <1>7 DEF TakeFunctions
  <2>2. m = n + 1 BY <1>4, <1>5, <1>7
  <2>3. \A i \in live : keeps[i] = {} BY <1>2, <1>4, <2>2 DEF Chained
  <2>4. StrandsShape' /\ ShutDown' /\ Passed(order, n)'
    BY <1>3, <2>1, <2>3 DEF StrandsInv, StrandsShape, ShutDown, Passed
  <2> QED BY <1>6, <2>4 DEF StrandsInv
<1>8. CASE position # "null"
  <2>1. /\ service' = service /\ keeps' = [keeps EXCEPT ![position] = {}]
        /\ position' = nextImpl[position]
    BY <1>8 DEF TakeFunctions
  <2>2. m \in 1 .. n /\ position = order[m] BY <1>4, <1>8
  <2>3. nextImpl[order[m]] = IF m = n THEN "null" ELSE order[m + 1] BY <1>2, <2>2 DEF Chained
  <2>4. \A k \in 1 .. n : k < m + 1 => keeps'[order[k]] = {}
    <3> SUFFICES ASSUME NEW k \in 1 .. n, k < m + 1 PROVE keeps'[order[k]] = {} OBVIOUS
    <3>1. CASE k = m BY <1>5, <2>1, <2>2, <3>1
    <3>2. CASE k < m BY <1>4, <1>5, <2>1, <3>2
    <3> QED BY <2>2, <3>1, <3>2
  <2>5. /\ position' = IF m + 1 = n + 1 THEN "null" ELSE order[m + 1]
        /\ m + 1 \in 1 .. n + 1
    <3>1. ((m + 1 = n + 1) <=> m = n) /\ m + 1 \in 1 .. n + 1 BY <2>2
    <3> QED BY <2>1, <2>2, <2>3, <3>1
  <2>6. Passed(order, n)' BY <2>4, <2>5 DEF Passed
  <2>7. StrandsShape' /\ ShutDown'
    BY <1>3, <1>5, <2>1 DEF StrandsInv, StrandsShape, ShutDown
  <2> QED BY <1>6, <2>6, <2>7 DEF StrandsInv
<1> QED BY <1>7, <1>8

LEMMA EndKeepsStrands ==
  ASSUME StrandsInv, DiscardInvokers \/ LockService \/ DestroyService
  PROVE  StrandsInv'
<1>1. CASE DiscardInvokers
  <2>1. StrandsShape' /\ ShutDown' BY <1>1 DEF DiscardInvokers, StrandsInv, StrandsShape, ShutDown
  <2> QED BY <1>1, <2>1, SameList DEF DiscardInvokers
<1>2. CASE LockService
  <2>1. /\ service' = "locked" /\ position' = firstImpl
        /\ UNCHANGED <<firstImpl, nextImpl, prevImpl, live, keeps>>
    BY <1>2 DEF LockService
  <2>2. StrandsShape' /\ ShutDown' BY <2>1 DEF StrandsInv, StrandsShape, ShutDown
  <2>3. PICK n \in Nat : \E order \in [1 .. n -> live] : Chained(order, n) BY DEF StrandsInv
  <2>4. PICK order \in [1 .. n -> live] : Chained(order, n) BY <2>3
  <2>5. order \in [1 .. n -> live'] /\ Chained(order, n)' BY <2>1, <2>4 DEF Chained
  <2>6. Passed(order, n)'
    <3>1. position' = IF 1 = n + 1 THEN "null" ELSE order[1] BY <2>1, <2>4 DEF Chained
    <3>2. 1 \in 1 .. n + 1 /\ \A k \in 1 .. n : ~(k < 1) OBVIOUS
    <3> QED BY <3>1, <3>2 DEF Passed
  <2> QED BY <2>2, <2>5, <2>6 DEF StrandsInv
<1>3. CASE DestroyService
  <2>1. /\ service = "unlocked" /\ service' = "gone" /\ taken = {} /\ \A i \in live : ~Unowned(i)
        /\ UNCHANGED <<refers, firstImpl, nextImpl, prevImpl, live, keeps>>
    BY <1>3 DEF DestroyService
  <2>2. \A i \in live : keeps[i] = {} BY <2>1 DEF StrandsInv, ShutDown
  <2>3. KeptAnywhere = {} BY <2>1, <2>2 DEF KeptAnywhere
  <2>4. \A i \in live : \E v \in StrandVars : refers[v] = i BY <2>1, <2>3 DEF Unowned, Invoked
  <2>5. StrandsShape' /\ ShutDown' BY <2>1, <2>2, <2>4 DEF StrandsInv, StrandsShape, ShutDown
  <2> QED BY <2>1, <2>5, SameList
<1> QED BY <1>1, <1>2, <1>3

LEMMA StrandsStepKeeps == StrandsInv /\ [StrandsNext]_strandVars => StrandsInv'
<1> SUFFICES ASSUME StrandsInv, [StrandsNext]_strandVars PROVE StrandsInv' OBVIOUS
<1>1. CASE UNCHANGED strandVars BY <1>1, ClientsKeep DEF strandVars
<1>2. CASE DiscardInvokers \/ LockService \/ TakeFunctions \/ DestroyService
  BY <1>2, EndKeepsStrands, TakeKeeps
<1>3. ASSUME NEW i \in StrandImpls, Unlink(i) \/ \E f \in StrandFunctions : CompleteFunction(i, f)
      PROVE  StrandsInv'
  BY <1>3, UnlinkKeeps, FunctionsKeep
<1>4. ASSUME NEW f \in StrandFunctions, DestroyTaken(f) PROVE StrandsInv'
  BY <1>4, ClientsKeep DEF DestroyTaken
<1>5. ASSUME NEW v \in StrandVars, NEW i \in StrandImpls,
             ConstructStrand(v, i) \/ \E f \in StrandFunctions : KeepFunction(v, f, i)
      PROVE  StrandsInv'
  <2>1. CASE ConstructStrand(v, i) BY <2>1, LinkKeeps DEF ConstructStrand
  <2>2. CASE \E f \in StrandFunctions : KeepFunction(v, f, i) BY <2>2, FunctionsKeep
  <2> QED BY <1>5, <2>1, <2>2
<1>6. ASSUME NEW v \in StrandVars, NEW u \in StrandVars,
             \/ DestroyStrand(v) \/ CopyStrand(v, u) \/ MoveStrand(v, u) \/ AssignStrand(v, u)
             \/ MoveAssignStrand(v, u)
      PROVE  StrandsInv'
  BY <1>6, VariablesKeep
<1> QED BY <1>1, <1>2, <1>3, <1>4, <1>5, <1>6 DEF StrandsNext

\* The service of strands has in its list the implementations there are, linked
\* both ways, for any number of strands and functions that keep them; so its
\* shutdown leaves no function anywhere, and what is still there when the service
\* goes is there for a client's variable (strand.h:81-126).
THEOREM StrandsAreListed == StrandsSpec => []StrandsListed
<1>1. StrandsSpec => []StrandsInv BY StrandsBegin, StrandsStepKeeps, PTL DEF StrandsSpec
<1> QED BY <1>1, InvImpliesListed, PTL

\* What is kept has been offered.
KeptWasOffered ==
  /\ refers \in [StrandVars -> StrandImpls \cup {"none"}]
  /\ taken \subseteq offered /\ \A i \in StrandImpls : keeps[i] \subseteq offered

LEMMA OfferedKept ==
  ASSUME StrandsInv, KeptWasOffered, [StrandsNext]_strandVars
  PROVE  KeptWasOffered'
<1>0. StrandsShape BY DEF StrandsInv
<1>1. ASSUME NEW v \in StrandVars, NEW u \in StrandVars, NEW i \in StrandImpls \cup {"none"},
             SetStrand(v, i) \/ TakeStrand(v, u)
      PROVE  KeptWasOffered'
  BY <1>1 DEF SetStrand, TakeStrand, KeptWasOffered
<1>2. ASSUME UNCHANGED <<refers, keeps, offered, taken>> PROVE KeptWasOffered' BY <1>2 DEF KeptWasOffered
<1>3. CASE DiscardInvokers \/ LockService \/ DestroyService
  BY <1>2, <1>3 DEF DiscardInvokers, LockService, DestroyService
<1>4. CASE TakeFunctions
  <2>1. CASE position = "null" BY <1>2, <1>4, <2>1 DEF TakeFunctions
  <2>2. CASE position # "null"
    <3>1. position \in StrandImpls
      <4>1. PICK n \in Nat : \E order \in [1 .. n -> live] : Passed(order, n) BY DEF StrandsInv
      <4>2. PICK order \in [1 .. n -> live] : Passed(order, n) BY <4>1
      <4>3. PICK m \in 1 .. n + 1 : position = IF m = n + 1 THEN "null" ELSE order[m]
        BY <1>4, <4>2 DEF Passed, TakeFunctions
      <4> QED BY <1>0, <2>2, <4>1, <4>2, <4>3 DEF StrandsShape
    <3>2. /\ taken' = taken \cup keeps[position] /\ keeps' = [keeps EXCEPT ![position] = {}]
          /\ refers' = refers /\ offered' = offered
      BY <1>4, <2>2 DEF TakeFunctions
    <3> QED BY <1>0, <3>1, <3>2 DEF KeptWasOffered, StrandsShape
  <2> QED BY <2>1, <2>2
<1>5. ASSUME NEW i \in StrandImpls, Unlink(i) PROVE KeptWasOffered'
  BY <1>0, <1>5 DEF Unlink, KeptWasOffered, StrandsShape
<1>6. ASSUME NEW i \in StrandImpls, NEW f \in StrandFunctions, CompleteFunction(i, f) PROVE KeptWasOffered'
  BY <1>0, <1>6 DEF CompleteFunction, KeptWasOffered, StrandsShape
<1>7. ASSUME NEW f \in StrandFunctions, DestroyTaken(f) PROVE KeptWasOffered'
  BY <1>7 DEF DestroyTaken, KeptWasOffered
<1>8. ASSUME NEW v \in StrandVars, NEW i \in StrandImpls, ConstructStrand(v, i) PROVE KeptWasOffered'
  BY <1>8 DEF ConstructStrand, KeptWasOffered
<1>9. ASSUME NEW v \in StrandVars, NEW i \in StrandImpls, NEW f \in StrandFunctions, KeepFunction(v, f, i)
      PROVE  KeptWasOffered'
  <2>1. refers[v] \in StrandImpls BY <1>9 DEF KeepFunction, KeptWasOffered
  <2>2. /\ keeps' = [keeps EXCEPT ![refers[v]] = @ \cup {f}] /\ offered' = offered \cup {f}
        /\ refers' = refers /\ taken' = taken
    BY <1>9 DEF KeepFunction
  <2> QED BY <1>0, <2>1, <2>2 DEF KeptWasOffered, StrandsShape
<1>10. ASSUME NEW v \in StrandVars, NEW u \in StrandVars,
              \/ DestroyStrand(v) \/ CopyStrand(v, u) \/ MoveStrand(v, u) \/ AssignStrand(v, u)
              \/ MoveAssignStrand(v, u)
       PROVE  KeptWasOffered'
  <2>1. refers[u] \in StrandImpls \cup {"none"} BY DEF KeptWasOffered
  <2> QED BY <1>1, <1>10, <2>1 DEF DestroyStrand, CopyStrand, MoveStrand, AssignStrand, MoveAssignStrand
<1>11. CASE UNCHANGED strandVars BY <1>2, <1>11 DEF strandVars
<1> QED BY <1>3, <1>4, <1>5, <1>6, <1>7, <1>8, <1>9, <1>10, <1>11 DEF StrandsNext

LEMMA StrandsTypes == StrandsSpec => []StrandsTypeOK
<1>1. StrandsStart => KeptWasOffered BY DEF StrandsStart, KeptWasOffered
<1>2. StrandsInv /\ KeptWasOffered /\ [StrandsNext]_strandVars => KeptWasOffered' BY OfferedKept
<1>3. StrandsInv /\ KeptWasOffered => StrandsTypeOK
  BY DEF StrandsInv, StrandsShape, KeptWasOffered, StrandsTypeOK
<1> QED BY <1>1, <1>2, <1>3, StrandsBegin, StrandsStepKeeps, PTL DEF StrandsSpec
============================================================================
