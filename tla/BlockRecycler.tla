---------------------------- MODULE BlockRecycler ----------------------------
(***************************************************************************)
(* The recycling of small blocks (bits/small_block_recycler.h), in which   *)
(* strands, channels, timers and the polymorphic executor keep their       *)
(* operations, and the life of a function in such a block (__function and  *)
(* __function_ptr of bits/executor.h).  A thread keeps up to two blocks    *)
(* that it has freed and uses them again.  A block has one byte more than  *)
(* was asked for, in which its capacity travels: behind the object while   *)
(* there is one, in the first byte while the block is kept.  The byte is 0 *)
(* for a capacity that it cannot hold.  A function is made on one thread   *)
(* and often called, and its block freed, on another.                      *)
(***************************************************************************)
EXTENDS Integers

CONSTANTS RecyclingThreads,
          Blocks,    \* addresses
          Sizes,     \* of the objects that are put in blocks
          ByteMax    \* UCHAR_MAX

ASSUME RecyclerAssumption ==
  Sizes \subseteq Nat \ {0} /\ ByteMax \in Nat /\ "null" \notin Blocks

VARIABLES capacity,  \* per block: bytes for an object, 0 when not allocated
          byte,      \* per block: the capacity byte, and its place in the block
          object,    \* per block: how far the object in it is, and its size
          memory,    \* per thread: _M_memory, a block or "null"
          next       \* per thread: _M_next_memory

recyclerVars == <<capacity, byte, object, memory, next>>

NoObject == [life |-> "none", size |-> 0]

RecyclerStart ==
  /\ capacity = [b \in Blocks |-> 0] /\ byte = [b \in Blocks |-> [value |-> 0, at |-> 0]]
  /\ object = [b \in Blocks |-> NoObject]
  /\ memory = [t \in RecyclingThreads |-> "null"]
  /\ next = [t \in RecyclingThreads |-> "null"]

----------------------------------------------------------------------------
(* _Allocate.                                                              *)

Place(b, size, value) ==
  /\ byte' = [byte EXCEPT ![b] = [value |-> value, at |-> size]]
  /\ object' = [object EXCEPT ![b] = [life |-> "raw", size |-> size]]

\* The kept block in memory goes to the caller, or is deleted.
Shift(t) == memory' = [memory EXCEPT ![t] = next[t]] /\ next' = [next EXCEPT ![t] = "null"]

AnySize(b, size) == TRUE    \* mutant: a kept block is always big enough
BigEnough(b, size) == byte[b].value >= size

Reuse(t, size) ==
  /\ memory[t] # "null" /\ BigEnough(memory[t], size)
  /\ Shift(t)
  /\ Place(memory[t], size, byte[memory[t]].value)
  /\ UNCHANGED capacity

\* A block that is too small goes; then a new one is allocated, which may fail.
New(t, size) ==
  /\ memory[t] # "null" => ~BigEnough(memory[t], size)
  /\ Shift(t)
  /\ LET left == [c \in Blocks |-> IF c = memory[t] THEN 0 ELSE capacity[c]]
     IN \/ \E b \in Blocks :
             /\ left[b] = 0
             /\ capacity' = [left EXCEPT ![b] = size]
             /\ Place(b, size, IF size <= ByteMax THEN size ELSE 0)
        \/ capacity' = left /\ UNCHANGED <<byte, object>>

Allocate(t, size) == Reuse(t, size) \/ New(t, size)

----------------------------------------------------------------------------
(* _Deallocate.                                                            *)

\* The byte moves to the front of a block that is kept.
KeepByte(b) == byte' = [byte EXCEPT ![b].at = 0]

Deallocate(t, b) ==
  /\ object' = [object EXCEPT ![b] = NoObject]
  /\ IF object[b].size > ByteMax \/ (memory[t] # "null" /\ next[t] # "null")
     THEN capacity' = [capacity EXCEPT ![b] = 0] /\ UNCHANGED <<byte, memory, next>>
     ELSE /\ KeepByte(b)
          /\ IF memory[t] = "null"
             THEN memory' = [memory EXCEPT ![t] = b] /\ UNCHANGED next
             ELSE next' = [next EXCEPT ![t] = b] /\ UNCHANGED memory
          /\ UNCHANGED capacity

----------------------------------------------------------------------------
(* The object in a block.                                                  *)

\* _Allocate_small_block: the constructor of the function returns, or throws.
Constructed(b) ==
  /\ object[b].life = "raw" /\ object' = [object EXCEPT ![b].life = "held"]
  /\ UNCHANGED <<capacity, byte, memory, next>>

ConstructorThrows(t, b) == object[b].life = "raw" /\ Deallocate(t, b)

\* __function_ptr is called: it has let go of the function, whose _Invoke moves
\* it to the stack, frees the block and then calls it; so the function may
\* allocate that block again.  The move may throw: the block is freed too.
InvokeFunction(t, b) == object[b].life = "held" /\ Deallocate(t, b)

\* __function_ptr is destroyed with its function.
DestroyFunction(t, b) == object[b].life = "held" /\ Deallocate(t, b)

\* With GCC and Clang a thread that ends leaves its recycler, and what it
\* keeps, to nobody.
ThreadEnds(t) ==
  /\ memory[t] # "null"
  /\ memory' = [memory EXCEPT ![t] = "null"] /\ next' = [next EXCEPT ![t] = "null"]
  /\ UNCHANGED <<capacity, byte, object>>

RecyclerNext ==
  \E t \in RecyclingThreads :
    \/ \E size \in Sizes : Allocate(t, size)
    \/ \E b \in Blocks :
         Constructed(b) \/ ConstructorThrows(t, b) \/ InvokeFunction(t, b) \/ DestroyFunction(t, b)
    \/ ThreadEnds(t)

RecyclerSpec == RecyclerStart /\ [][RecyclerNext]_recyclerVars

----------------------------------------------------------------------------
(* Properties.                                                             *)

Kept(b) == {t \in RecyclingThreads : memory[t] = b \/ next[t] = b}

RecyclerTypeOK ==
  /\ capacity \in [Blocks -> Sizes \cup {0}]
  /\ byte \in [Blocks -> [value : 0 .. ByteMax, at : Nat]]
  /\ object \in [Blocks -> [life : {"none", "raw", "held"}, size : Sizes \cup {0}]]
  /\ memory \in [RecyclingThreads -> Blocks \cup {"null"}]
  /\ next \in [RecyclingThreads -> Blocks \cup {"null"}]

\* Wherever blocks are freed and used again, an object fits the block it is in;
\* the capacity byte, behind the object or in front of a kept block, is what
\* was allocated, unless that does not fit a byte; a block that is kept is in
\* one place of one thread, in nobody's use, and has a capacity to tell
\* (small_block_recycler.h:47-96).
BlockFits ==
  /\ \A b \in Blocks :
       LET life == object[b].life
       IN /\ life # "none" =>
               /\ capacity[b] >= object[b].size /\ byte[b].at = object[b].size
               /\ byte[b].value = IF capacity[b] <= ByteMax THEN capacity[b] ELSE 0
          /\ Kept(b) # {} => life = "none" /\ byte[b] = [value |-> capacity[b], at |-> 0]
                               /\ capacity[b] > 0
  /\ \A t, u \in RecyclingThreads :
       /\ memory[t] # "null" => memory[t] # next[u] /\ (t # u => memory[t] # memory[u])
       /\ next[t] # "null" => memory[t] # "null" /\ (t # u => next[t] # next[u])
=============================================================================
