------------------------------ MODULE Channel ------------------------------
(***************************************************************************)
(* channel<T> (bits/channel_base.h, bits/channel.h): a FIFO of values with *)
(* a capacity, used by one thread at a time.  put and get each come in a   *)
(* form that fails when it would have to wait and one that waits; those    *)
(* that wait are kept in one queue, which holds puts or gets.  The code    *)
(* decides what a call does from two small state variables, the get state  *)
(* and the put state, and never from the contents themselves.              *)
(* channel<void> (bits/channel_void.h) does the same over a counter: its   *)
(* buffer is here only to say which put a get is answered by.              *)
(*                                                                         *)
(* A completion is posted to the handler's executor, so no handler runs    *)
(* inside a call: every call is one step.  A value is named by the put     *)
(* that brought it.                                                        *)
(*                                                                         *)
(* harm records the calls after which the two states no longer tell the    *)
(* contents, see Harm below.                                               *)
(***************************************************************************)
EXTENDS Integers, Sequences, FiniteSets, Functions

CONSTANTS Chans,       \* channel objects
          Puts, Gets,  \* one element for each call of put and of get
          Capacities,  \* the capacities channels are constructed with
          VoidCapacities,  \* those channels of void are constructed with
          NoValue

ASSUME ChannelAssumption ==
  /\ Capacities \subseteq Nat
  /\ VoidCapacities \subseteq Capacities
  /\ Puts \cap Gets = {}
  /\ NoValue \notin Puts
  /\ NoValue \notin [capacity : Nat, open : BOOLEAN, items : Seq(Puts), gets : Seq(Gets)]

VARIABLES void,      \* are the channels channel<void>?
          chan,      \* the objects
          outcome,   \* of each put and get
          got,       \* the value each get was completed with
          undefined  \* a get took from nothing: front() of an empty
                     \* container, or a counter that went below zero

vars == <<void, chan, outcome, got, undefined>>

Calls    == Puts \cup Gets
Outcomes == {"unused", "waiting", "success", "would_block",
             "canceled", "broken_pipe", "destroyed"}
States   == {"buffer", "waiter", "block", "closed"}

Fresh(capacity) ==
  [life |-> "live", capacity |-> capacity,
   get |-> "block", put |-> IF capacity > 0 THEN "buffer" ELSE "block",
   waiters |-> << >>, buffer |-> << >>, buffered |-> 0, harm |-> {}]

Absent == [Fresh(0) EXCEPT !.life = "none"]

Init ==
  /\ void \in BOOLEAN
  /\ chan = [c \in Chans |-> Absent]
  /\ outcome = [p \in Calls |-> "unused"]
  /\ got = [g \in Gets |-> NoValue]
  /\ undefined = FALSE

Usable(c) == ~undefined /\ chan[c].life = "live"
Update(c, r) == chan' = [chan EXCEPT ![c] = r]

\* The calls in ps end with the given outcome.
Settle(ps, result) ==
  outcome' = [p \in Calls |-> IF p \in ps THEN result ELSE outcome[p]]

Waiting(r) == Range(r.waiters)

----------------------------------------------------------------------------
(* put.                                                                    *)

MayPut(c, o, state) ==
  /\ Usable(c)
  /\ outcome[o] = "unused"
  /\ chan[c].put = state

PutWouldBlock(c, o) ==
  /\ MayPut(c, o, "block")
  /\ Settle({o}, "would_block")
  /\ UNCHANGED <<chan, got, undefined>>

GetWithPutter(r) == IF r.get = "block" THEN "waiter" ELSE r.get

PutWaits(c, o) ==
  /\ MayPut(c, o, "block")
  /\ Update(c, [chan[c] EXCEPT !.waiters = Append(@, o), !.get = GetWithPutter(chan[c])])
  /\ Settle({o}, "waiting")
  /\ UNCHANGED <<got, undefined>>

PastFull(r) == Len(r.buffer) = r.capacity    \* mutant: tested before the push
NowFull(r)  == Len(r.buffer) + 1 = r.capacity

PutBuffers(c, o) ==
  /\ MayPut(c, o, "buffer")
  /\ Update(c, [chan[c] EXCEPT !.buffer = Append(@, o), !.get = "buffer",
                  !.put = IF NowFull(chan[c]) THEN "block" ELSE @])
  /\ Settle({o}, "success")
  /\ UNCHANGED <<got, undefined>>

\* The value goes to the first waiting get.
PutToGetter(c, o) ==
  /\ MayPut(c, o, "waiter")
  /\ LET r == chan[c]
         g == Head(r.waiters)
     IN /\ Update(c, [r EXCEPT !.waiters = Tail(@),
              !.put = IF Tail(r.waiters) = << >> THEN Fresh(r.capacity).put ELSE @])
        /\ got' = [got EXCEPT ![g] = o]
        /\ Settle({o, g}, "success")
  /\ UNCHANGED undefined

PutRefused(c, o) ==
  /\ MayPut(c, o, "closed")
  /\ Settle({o}, "broken_pipe")
  /\ UNCHANGED <<chan, got, undefined>>

CountIsFull(r) == r.buffered + 1 = r.capacity

VoidPutBuffers(c, o) ==
  /\ MayPut(c, o, "buffer")
  /\ Update(c, [chan[c] EXCEPT !.buffered = @ + 1, !.buffer = Append(@, o),
                  !.get = "buffer", !.put = IF CountIsFull(chan[c]) THEN "block" ELSE @])
  /\ Settle({o}, "success")
  /\ UNCHANGED <<got, undefined>>

VoidPut(c, o) ==
  PutWouldBlock(c, o) \/ VoidPutBuffers(c, o) \/ PutToGetter(c, o) \/ PutRefused(c, o)

VoidStartPut(c, o) ==
  PutWaits(c, o) \/ VoidPutBuffers(c, o) \/ PutToGetter(c, o) \/ PutRefused(c, o)

Put(c, o) ==
  \/ PutWouldBlock(c, o) \/ PutWaits(c, o) \/ PutBuffers(c, o)
  \/ PutToGetter(c, o) \/ PutRefused(c, o)

----------------------------------------------------------------------------
(* get.                                                                    *)

MayGet(c, g, state) ==
  /\ Usable(c)
  /\ outcome[g] = "unused"
  /\ chan[c].get = state

GetWouldBlock(c, g) ==
  /\ MayGet(c, g, "block")
  /\ Settle({g}, "would_block")
  /\ UNCHANGED <<chan, got, undefined>>

GetWaits(c, g) ==
  /\ MayGet(c, g, "block")
  /\ Update(c, [chan[c] EXCEPT !.waiters = Append(@, g),
                  !.put = IF @ = "closed" THEN @ ELSE "waiter"])
  /\ Settle({g}, "waiting")
  /\ UNCHANGED <<got, undefined>>

\* The get state once there is nothing left to take.
BlocksAnyway(r) == "block"    \* mutant
WhenDrained(r) == IF r.put = "closed" THEN "closed" ELSE "block"

RefilledInFront(r) == <<Head(r.waiters)>> \o Tail(r.buffer)    \* mutant
Refilled(r) == Append(Tail(r.buffer), Head(r.waiters))

NeverLast(r) == FALSE    \* mutant
TakesLast(r) == Tail(r.buffer) = << >>

\* The first value of the buffer, whose place the first waiting put takes.
GetBuffered(c, g) ==
  /\ MayGet(c, g, "buffer")
  /\ LET r == chan[c] IN
       /\ r.buffer # << >>
       /\ got' = [got EXCEPT ![g] = Head(r.buffer)]
       /\ \/ /\ r.waiters # << >>
             /\ Update(c, [r EXCEPT !.buffer = Refilled(r), !.waiters = Tail(@)])
             /\ Settle({g, Head(r.waiters)}, "success")
          \/ /\ r.waiters = << >>
             /\ Update(c, [r EXCEPT !.buffer = Tail(@),
                    !.get = IF TakesLast(r) THEN WhenDrained(r) ELSE @,
                    !.put = IF @ = "closed" THEN @ ELSE "buffer"])
             /\ Settle({g}, "success")
  /\ UNCHANGED undefined

\* front() of an empty container.
GetFromNothing(c, g) ==
  /\ MayGet(c, g, "buffer")
  /\ chan[c].buffer = << >>
  /\ undefined' = TRUE
  /\ UNCHANGED <<chan, outcome, got>>

\* The value of the first waiting put.
GetFromPutter(c, g) ==
  /\ MayGet(c, g, "waiter")
  /\ LET r == chan[c]
         o == Head(r.waiters)
     IN /\ Update(c, [r EXCEPT !.waiters = Tail(@),
              !.get = IF Tail(r.waiters) = << >> THEN WhenDrained(r) ELSE @])
        /\ got' = [got EXCEPT ![g] = o]
        /\ Settle({o, g}, "success")
  /\ UNCHANGED undefined

GetRefused(c, g) ==
  /\ MayGet(c, g, "closed")
  /\ Settle({g}, "broken_pipe")
  /\ UNCHANGED <<chan, got, undefined>>

\* A waiting put takes the place of the token, and the count stays.
VoidGetBuffered(c, g) ==
  /\ MayGet(c, g, "buffer")
  /\ LET r == chan[c]
         tokens == r.buffer \o r.waiters
     IN /\ tokens # << >>
        /\ got' = [got EXCEPT ![g] = Head(tokens)]
        /\ \/ /\ r.waiters # << >>
              /\ Update(c, [r EXCEPT !.waiters = Tail(@),
                              !.buffer = SubSeq(tokens, 2, Len(@) + 1)])
              /\ Settle({g, Head(r.waiters)}, "success")
           \/ /\ r.waiters = << >> /\ r.buffered > 0
              /\ Update(c, [r EXCEPT !.buffered = @ - 1, !.buffer = Tail(@),
                     !.get = IF r.buffered = 1 THEN WhenDrained(r) ELSE @,
                     !.put = IF @ = "closed" THEN @ ELSE "buffer"])
              /\ Settle({g}, "success")
  /\ UNCHANGED undefined

\* The counter of a channel that was reset wraps around.
VoidGetWraps(c, g) ==
  /\ MayGet(c, g, "buffer")
  /\ chan[c].waiters = << >> /\ chan[c].buffered = 0
  /\ undefined' = TRUE
  /\ UNCHANGED <<chan, outcome, got>>

VoidGet(c, g) ==
  \/ GetWouldBlock(c, g) \/ VoidGetBuffered(c, g) \/ VoidGetWraps(c, g)
  \/ GetFromPutter(c, g) \/ GetRefused(c, g)

VoidStartGet(c, g) ==
  \/ GetWaits(c, g) \/ VoidGetBuffered(c, g) \/ VoidGetWraps(c, g)
  \/ GetFromPutter(c, g) \/ GetRefused(c, g)

Get(c, g) ==
  \/ GetWouldBlock(c, g) \/ GetWaits(c, g) \/ GetBuffered(c, g)
  \/ GetFromNothing(c, g) \/ GetFromPutter(c, g) \/ GetRefused(c, g)

----------------------------------------------------------------------------
(* close, cancel, reset.                                                   *)

Close(c) ==
  /\ Usable(c)
  /\ LET r == chan[c] IN
       \/ /\ r.get = "block"
          /\ Update(c, [r EXCEPT !.put = "closed", !.get = "closed", !.waiters = << >>])
          /\ Settle(Waiting(r), "broken_pipe")
       \/ /\ r.get # "block"
          /\ Update(c, [r EXCEPT !.put = "closed"])
          /\ UNCHANGED outcome
  /\ UNCHANGED <<got, undefined>>

\* Calls after which the states misrepresent the contents: a cancel with gets
\* waiting forgets the capacity, a cancel with puts waiting on a closed
\* channel forgets that it is closed, and a reset that drops values leaves
\* the get state as if they were there.
Harm(r) ==
  r.harm
    \cup (IF r.capacity > 0 /\ Waiting(r) \cap Gets # {} THEN {"capacity"} ELSE {})
    \cup (IF r.put = "closed" /\ r.get = "waiter" THEN {"closing"} ELSE {})

\* __channel_base::_Cancel, without the completions.
Cancelled(r) ==
  [r EXCEPT !.waiters = << >>,
            !.get = IF @ = "waiter" THEN "block" ELSE @,
            !.put = IF @ = "waiter" THEN "block" ELSE @,
            !.harm = Harm(r)]

\* __channel_base::_Reset, without the completions; it opens the channel.
ResetBase(r) ==
  [Cancelled(r) EXCEPT
     !.get = IF @ = "closed" THEN "block" ELSE @,
     !.put = IF @ = "closed" THEN Fresh(r.capacity).put ELSE @,
     !.harm = (Harm(r) \ {"closing"})
                \cup (IF r.buffer # << >> THEN {"reset"} ELSE {})]

Cancel(c) ==
  /\ Usable(c)
  /\ Update(c, Cancelled(chan[c]))
  /\ Settle(Waiting(chan[c]), "canceled")
  /\ UNCHANGED <<got, undefined>>

Reset(c) ==
  /\ Usable(c)
  /\ Update(c, [ResetBase(chan[c]) EXCEPT !.buffer = << >>])
  /\ Settle(Waiting(chan[c]), "canceled")
  /\ UNCHANGED <<got, undefined>>

VoidReset(c) ==
  /\ Usable(c)
  /\ Update(c, [ResetBase(chan[c]) EXCEPT !.buffered = 0, !.buffer = << >>])
  /\ Settle(Waiting(chan[c]), "canceled")
  /\ UNCHANGED <<got, undefined>>

----------------------------------------------------------------------------
(* Construction, moves, destruction.  A channel that was moved from is only *)
(* assigned to or destroyed.                                               *)

ConstructWith(c, capacities) ==
  /\ ~undefined /\ chan[c].life = "none"
  /\ \E capacity \in capacities : Update(c, Fresh(capacity))
  /\ UNCHANGED <<outcome, got, undefined>>

Construct(c)     == ConstructWith(c, Capacities)
VoidConstruct(c) == ConstructWith(c, VoidCapacities)

\* channel(channel&&): the waiters move, the values are copied.
MoveConstruct(c, d) ==
  /\ Usable(d) /\ chan[c].life = "none"
  /\ chan' = [chan EXCEPT ![c] = chan[d],
                          ![d].waiters = << >>, ![d].life = "moved"]
  /\ UNCHANGED <<outcome, got, undefined>>

\* Of a channel<void> the count moves too.
VoidMoveConstruct(c, d) ==
  /\ Usable(d) /\ chan[c].life = "none"
  /\ chan' = [chan EXCEPT ![c] = chan[d], ![d].waiters = << >>,
                          ![d].buffered = 0, ![d].life = "moved"]
  /\ UNCHANGED <<outcome, got, undefined>>

\* operator=(channel&&): the target is reset, then states and capacity are
\* exchanged and waiters and values handed over.
MoveAssign(c, d) ==
  /\ Usable(d) /\ chan[c].life # "none" /\ c # d
  /\ LET target == ResetBase(chan[c]) IN
       chan' = [chan EXCEPT ![c] = chan[d],
                            ![d] = [target EXCEPT !.life = "moved", !.buffer = << >>]]
  /\ Settle(Waiting(chan[c]), "canceled")
  /\ UNCHANGED <<got, undefined>>

VoidMoveAssign(c, d) ==
  /\ Usable(d) /\ chan[c].life # "none" /\ c # d
  /\ LET target == ResetBase(chan[c]) IN
       chan' = [chan EXCEPT ![c] = chan[d],
                  ![d] = [target EXCEPT !.life = "moved", !.buffer = << >>, !.buffered = 0]]
  /\ Settle(Waiting(chan[c]), "canceled")
  /\ UNCHANGED <<got, undefined>>

\* The operations left in the queue are destroyed with it, not completed.
Destroy(c) ==
  /\ ~undefined /\ chan[c].life # "none"
  /\ Update(c, Absent)
  /\ Settle(Waiting(chan[c]), "destroyed")
  /\ UNCHANGED <<got, undefined>>

\* The calls of both classes, of channel<T>, and of channel<void>.
BaseNext(c) == Close(c) \/ Cancel(c) \/ Destroy(c)

ValueNext(c) ==
  \/ \E o \in Puts : Put(c, o)
  \/ \E g \in Gets : Get(c, g)
  \/ Reset(c) \/ Construct(c)
  \/ \E d \in Chans : MoveConstruct(c, d) \/ MoveAssign(c, d)

VoidNext(c) ==
  \/ \E o \in Puts : VoidPut(c, o) \/ VoidStartPut(c, o)
  \/ \E g \in Gets : VoidGet(c, g) \/ VoidStartGet(c, g)
  \/ VoidReset(c) \/ VoidConstruct(c)
  \/ \E d \in Chans : VoidMoveConstruct(c, d) \/ VoidMoveAssign(c, d)

Next ==
  /\ UNCHANGED void
  /\ \E c \in Chans :
       \/ BaseNext(c)
       \/ ~void /\ ValueNext(c)
       \/ void /\ VoidNext(c)

Spec == Init /\ [][Next]_vars

----------------------------------------------------------------------------
(* Properties.                                                             *)

ChannelRecords ==
  [life : {"none", "live", "moved"}, capacity : Nat,
   get : States, put : States, waiters : Seq(Calls), buffer : Seq(Puts),
   buffered : Nat, harm : SUBSET {"capacity", "closing", "reset"}]

\* The type of every variable; a queue of waiters holds puts or gets and never
\* both, and the calls that wait are those in a queue.
TypeOK ==
  /\ void \in BOOLEAN
  /\ chan \in [Chans -> ChannelRecords]
  /\ outcome \in [Calls -> Outcomes]
  /\ got \in [Gets -> Puts \cup {NoValue}]
  /\ undefined \in BOOLEAN
  /\ \A c \in Chans : Waiting(chan[c]) \subseteq Puts \/ Waiting(chan[c]) \subseteq Gets
  /\ {p \in Calls : outcome[p] = "waiting"} = UNION {Waiting(chan[c]) : c \in Chans}

Sound(c) == chan[c].life = "live" /\ chan[c].harm = {}

\* The two state variables tell exactly what the contents are, after any
\* sequence of calls but the harmful ones: the eight switch statements, close
\* and cancel never leave a state that lies (channel.h:240-276, :305-352,
\* :371-461, channel_void.h:164-269, :287-372, channel_base.h:190-233).
StatesMatchContents ==
  /\ TypeOK
  /\ \A c \in Chans : Sound(c) =>
    LET r == chan[c] IN
      /\ r.get = IF r.buffer # << >> THEN "buffer"
                 ELSE IF Waiting(r) \cap Puts # {} THEN "waiter"
                 ELSE IF r.put = "closed" THEN "closed" ELSE "block"
      /\ r.put # "closed" =>
           r.put = IF Waiting(r) \cap Gets # {} THEN "waiter"
                   ELSE IF Len(r.buffer) < r.capacity THEN "buffer" ELSE "block"

\* A get waits only on an open channel with nothing to take, and a put only
\* while as many values as the capacity are before it.
NobodyWaitsInVain ==
  \A c \in Chans : Sound(c) =>
    LET r == chan[c] IN
      /\ Waiting(r) \cap Gets # {} => r.buffer = << >> /\ r.put # "closed"
      /\ Waiting(r) \cap Puts # {} => Len(r.buffer) = r.capacity

\* Only a reset that drops buffered values can lead to a get from an empty
\* buffer or a counter below zero (channel.h:316 and :425, channel_void.h:243
\* and :344, against channel.h:206-210 and channel_base.h:190-197).
DefinedUnlessReset == undefined => \E c \in Chans : "reset" \in chan[c].harm

\* Until a harmful call, the channels are bounded FIFO queues: what a call
\* does depends on the contents and on whether the channel is open, whatever
\* the two state variables are.
ContentsOf(r) ==
  IF r.life # "live" THEN NoValue
  ELSE [capacity |-> r.capacity, open |-> r.put # "closed",
        items |-> r.buffer \o (IF Waiting(r) \subseteq Puts THEN r.waiters ELSE << >>),
        gets |-> IF Waiting(r) \subseteq Gets THEN r.waiters ELSE << >>]

queues == [c \in Chans |-> ContentsOf(chan[c])]

Promise == INSTANCE BoundedQueue WITH queue <- queues, NoQueue <- NoValue

Harmed == \E c \in Chans : chan[c].life = "live" /\ ~Sound(c)

ImplementsBoundedQueue ==
  Promise!Init /\ [][Promise!Next \/ Harmed]_(Promise!vars)
=============================================================================
