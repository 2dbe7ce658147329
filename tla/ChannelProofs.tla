---------------------------- MODULE ChannelProofs ----------------------------
(***************************************************************************)
(* Proofs about channel<T> and channel<void>, for every set of channels,   *)
(* of calls and of capacities.                                             *)
(*                                                                         *)
(* The inductive invariant, ChannelInv, says more than the properties in   *)
(* two ways.  Of the record of a channel in use (Good) it says what holds  *)
(* after harmful calls too: the two states always tell who may be waiting, *)
(* a channel whose get state is "buffer" has something to take unless a    *)
(* reset dropped it, and a cancel that forgets the closing is recorded     *)
(* only while the put state still tells it.  Of the queues it says that    *)
(* every waiting call is in one of them, once (Told, Apart, Once).         *)
(*                                                                         *)
(* The proof goes in two halves.  A lemma per change of a record shows it  *)
(* Good, and a lemma per call (...Result) shows the step to keep Types and *)
(* Records and to be one of five moves of the queues of waiters; a lemma   *)
(* per move then shows that the queues stay apart.                         *)
(*                                                                         *)
(* That a channel is a bounded queue is shown in three steps: the record   *)
(* of a channel that was not harmed tells what its queue holds (View), a   *)
(* change of the record is one of the queue (Gains, Gives, Asks, Answers), *)
(* and so each call is a call of the bounded queue, or changes nothing     *)
(* that it holds.                                                          *)
(***************************************************************************)
EXTENDS Channel, SequenceTheorems, TLAPS

USE ChannelAssumption DEF ChannelAssumption

----------------------------------------------------------------------------
(* The elements of a sequence.                                             *)

LEMMA RangeOf ==
  ASSUME NEW S, NEW q \in Seq(S)
  PROVE  /\ Range(q) \subseteq S
         /\ q = << >> <=> Range(q) = {}
         /\ Range(q) = {q[i] : i \in 1 .. Len(q)}
<1>1. DOMAIN q = 1 .. Len(q) /\ Len(q) \in Nat BY LenProperties
<1>2. \A i \in 1 .. Len(q) : q[i] \in S BY ElementOfSeq
<1>3. q # << >> => 1 \in DOMAIN q BY <1>1, EmptySeq
<1>4. q = << >> => DOMAIN q = {} OBVIOUS
<1> QED BY <1>1, <1>2, <1>3, <1>4 DEF Range

LEMMA RangeAppend ==
  ASSUME NEW S, NEW q \in Seq(S), NEW e \in S
  PROVE  Append(q, e) \in Seq(S) /\ Range(Append(q, e)) = Range(q) \cup {e}
<1>1. DOMAIN q = 1 .. Len(q) /\ Len(q) \in Nat BY LenProperties
<1>2. DOMAIN Append(q, e) = 1 .. Len(q) + 1 /\ Append(q, e)[Len(q) + 1] = e
      /\ \A i \in 1 .. Len(q) : Append(q, e)[i] = q[i]
  BY <1>1
<1>3. Len(q) + 1 \in DOMAIN Append(q, e) /\ \A i \in 1 .. Len(q) + 1 : i = Len(q) + 1 \/ i \in 1 .. Len(q)
  BY <1>1, <1>2
<1>4. \A i \in 1 .. Len(q) : i \in 1 .. Len(q) + 1 BY <1>1
<1> QED BY <1>1, <1>2, <1>3, <1>4 DEF Range

LEMMA RangeTail ==
  ASSUME NEW S, NEW q \in Seq(S), q # << >>
  PROVE  /\ Head(q) \in S /\ Tail(q) \in Seq(S)
         /\ Range(q) = {Head(q)} \cup Range(Tail(q))
<1>1. DOMAIN q = 1 .. Len(q) /\ Len(q) \in Nat /\ Len(q) > 0 BY LenProperties, EmptySeq
<1>2. Head(q) \in S /\ Tail(q) \in Seq(S) /\ Len(Tail(q)) = Len(q) - 1
      /\ \A i \in 1 .. Len(Tail(q)) : Tail(q)[i] = q[i+1]
  BY HeadTailProperties
<1>3. DOMAIN Tail(q) = 1 .. Len(q) - 1 /\ Head(q) = q[1] BY <1>1, <1>2, LenProperties
<1>4. \A i \in 1 .. Len(q) : i = 1 \/ (i - 1 \in 1 .. Len(q) - 1 /\ q[i] = Tail(q)[i - 1])
  BY <1>1, <1>2
<1>5. \A i \in 1 .. Len(q) - 1 : i + 1 \in 1 .. Len(q) BY <1>1
<1>6. Range(q) \subseteq {Head(q)} \cup Range(Tail(q))
  <2>1. ASSUME NEW i \in 1 .. Len(q) PROVE q[i] = Head(q) \/ q[i] \in Range(Tail(q))
    <3>1. CASE i = 1 BY <1>3, <3>1
    <3>2. CASE i - 1 \in 1 .. Len(q) - 1 /\ q[i] = Tail(q)[i - 1] BY <1>3, <3>2 DEF Range
    <3> QED BY <1>4, <3>1, <3>2
  <2>2. ASSUME NEW v \in Range(q) PROVE v = Head(q) \/ v \in Range(Tail(q))
    <3>1. PICK i \in 1 .. Len(q) : v = q[i] BY <1>1, <2>2 DEF Range
    <3> QED BY <2>1, <3>1
  <2> QED BY <2>2
<1>7. {Head(q)} \cup Range(Tail(q)) \subseteq Range(q) BY <1>1, <1>2, <1>3, <1>5 DEF Range
<1> QED BY <1>2, <1>6, <1>7

----------------------------------------------------------------------------
(* What is true of the record of a channel in use.                         *)

Types ==
  /\ void \in BOOLEAN
  /\ chan \in [Chans -> ChannelRecords]
  /\ outcome \in [Calls -> Outcomes]
  /\ got \in [Gets -> Puts \cup {NoValue}]
  /\ undefined \in BOOLEAN

\* The two states tell who may be waiting, whatever was called.
GetTells(r) ==
  /\ r.get = "block" => Waiting(r) \subseteq Gets
  /\ r.get = "buffer" => Waiting(r) \subseteq Puts
  /\ r.get = "waiter" => Waiting(r) \subseteq Puts /\ Waiting(r) # {}
  /\ r.get = "closed" => Waiting(r) = {} /\ r.put = "closed"
  /\ r.buffer # << >> => r.get = "buffer"

PutTells(r) ==
  /\ r.put = "block" => Waiting(r) \subseteq Puts
  /\ r.put = "buffer" => Waiting(r) = {}
  /\ r.put = "waiter" => Waiting(r) \subseteq Gets /\ Waiting(r) # {}

\* Without a reset that drops values there is something to take where the get
\* state says so.
Filled(r) == "reset" \notin r.harm /\ r.get = "buffer" => r.buffer # << >>

\* Until a harmful call the put state tells how much room there is, and that a
\* channel is closed; a cancel that forgets the closing leaves the put state.
RoomTold(r) ==
  r.harm = {} =>
    /\ r.put = "closed" => r.get # "block"
    /\ r.put = "block" => Len(r.buffer) = r.capacity
    /\ r.put = "buffer" => Len(r.buffer) < r.capacity
    /\ Waiting(r) \cap Puts # {} => Len(r.buffer) = r.capacity
    /\ Len(r.buffer) <= r.capacity

ClosingTold(r) == r.harm = {"closing"} => r.put = "closed"

Good(r) == GetTells(r) /\ PutTells(r) /\ Filled(r) /\ RoomTold(r) /\ ClosingTold(r)

\* The fields of a record, and when its two queues are empty.
LEMMA Fields ==
  ASSUME NEW r \in ChannelRecords
  PROVE  /\ r.life \in {"none", "live", "moved"} /\ r.capacity \in Nat
         /\ r.get \in States /\ r.put \in States
         /\ r.waiters \in Seq(Calls) /\ r.buffer \in Seq(Puts)
         /\ r.buffered \in Nat /\ r.harm \in SUBSET {"capacity", "closing", "reset"}
         /\ Len(r.buffer) \in Nat /\ (r.buffer = << >> <=> Len(r.buffer) = 0)
         /\ Waiting(r) \subseteq Calls /\ (Waiting(r) = {} <=> r.waiters = << >>)
<1>1. r.waiters \in Seq(Calls) /\ r.buffer \in Seq(Puts) BY DEF ChannelRecords
<1>2. Waiting(r) \subseteq Calls /\ (Waiting(r) = {} <=> r.waiters = << >>) BY <1>1, RangeOf DEF Waiting
<1>3. Len(r.buffer) \in Nat /\ (r.buffer = << >> <=> Len(r.buffer) = 0) BY <1>1, EmptySeq, LenProperties
<1> QED BY <1>1, <1>2, <1>3 DEF ChannelRecords

\* A channel on which nobody waits, or only gets do.
LEMMA NobodyGet ==
  ASSUME NEW q, Waiting(q) = {}, q.get # "waiter", q.get = "closed" => q.put = "closed",
         q.buffer # << >> => q.get = "buffer"
  PROVE  GetTells(q)
  BY DEF GetTells

LEMMA OnlyGets ==
  ASSUME NEW q, Waiting(q) \subseteq Gets, Waiting(q) # {}, q.put \in {"closed", "waiter"}
  PROVE  PutTells(q)
  BY DEF PutTells

LEMMA FreshGood ==
  ASSUME NEW capacity \in Nat
  PROVE  Fresh(capacity) \in ChannelRecords /\ Good(Fresh(capacity)) /\ Waiting(Fresh(capacity)) = {}
<1> DEFINE q == Fresh(capacity)
<1>1. q \in ChannelRecords BY DEF Fresh, ChannelRecords, States
<1>2. q.waiters = << >> /\ q.buffer = << >> /\ q.harm = {} /\ q.get = "block" /\ q.capacity = capacity
      /\ q.put = IF capacity > 0 THEN "buffer" ELSE "block"
  BY DEF Fresh
<1> HIDE DEF q
<1>3. Waiting(q) = {} /\ Len(q.buffer) = 0 BY <1>1, <1>2, Fields
<1> QED BY <1>1, <1>2, <1>3 DEF Good, GetTells, PutTells, Filled, RoomTold, ClosingTold, q

LEMMA PutWaitsGood ==
  ASSUME NEW r \in ChannelRecords, Good(r), r.put = "block", NEW o \in Puts,
         NEW q, q = [r EXCEPT !.waiters = Append(@, o), !.get = GetWithPutter(r)]
  PROVE  q \in ChannelRecords /\ Good(q) /\ Waiting(q) = Waiting(r) \cup {o}
<1>1. q \in ChannelRecords
  <2>1. Append(r.waiters, o) \in Seq(Calls) BY Fields, RangeAppend DEF Calls
  <2> QED BY <2>1 DEF ChannelRecords, GetWithPutter, States
<1>2. q.waiters = Append(r.waiters, o) /\ q.buffer = r.buffer /\ q.harm = r.harm /\ q.put = "block"
      /\ q.capacity = r.capacity /\ q.get = IF r.get = "block" THEN "waiter" ELSE r.get
  BY DEF ChannelRecords, GetWithPutter
<1>3. Waiting(q) = Waiting(r) \cup {o} BY <1>2, Fields, RangeAppend DEF Calls, Waiting
<1>4. Waiting(r) \subseteq Puts /\ r.get # "closed" BY DEF Good, PutTells, GetTells
<1>5. GetTells(q) BY <1>2, <1>3, <1>4 DEF Good, GetTells
<1>6. PutTells(q) BY <1>2, <1>3, <1>4 DEF PutTells
<1>7. Filled(q) BY <1>2 DEF Good, Filled
<1>8. RoomTold(q) /\ ClosingTold(q) BY <1>2 DEF Good, RoomTold, ClosingTold
<1> QED BY <1>1, <1>3, <1>5, <1>6, <1>7, <1>8 DEF Good

\* A value joins the buffer: of channel<T>, and of channel<void>.
With(r, o, count) ==
  [r EXCEPT !.buffered = count, !.buffer = Append(@, o), !.get = "buffer",
            !.put = IF Len(r.buffer) + 1 = r.capacity THEN "block" ELSE "buffer"]

LEMMA PutBuffersGood ==
  ASSUME NEW r \in ChannelRecords, Good(r), r.put = "buffer", NEW o \in Puts, NEW count \in Nat
  PROVE  LET q == With(r, o, count) IN
           q \in ChannelRecords /\ Good(q) /\ q.waiters = r.waiters /\ q.buffered = count /\ Len(q.buffer) = Len(r.buffer) + 1
<1>1. Append(r.buffer, o) \in Seq(Puts) /\ Len(Append(r.buffer, o)) = Len(r.buffer) + 1 BY Fields
<1> DEFINE q == With(r, o, count)
<1>2. q \in ChannelRecords BY <1>1 DEF ChannelRecords, States, With
<1>3. q.waiters = r.waiters /\ q.buffer = Append(r.buffer, o) /\ q.harm = r.harm /\ q.get = "buffer" /\ q.buffered = count
      /\ q.capacity = r.capacity /\ q.put = IF Len(r.buffer) + 1 = r.capacity THEN "block" ELSE "buffer"
  BY DEF ChannelRecords, With
<1> HIDE DEF q
<1>4. Waiting(r) = {} /\ Waiting(q) = {} BY <1>3 DEF Good, PutTells, Waiting
<1>5. GetTells(q) /\ PutTells(q)
  <2>1. q.put \in {"block", "buffer"} BY <1>3
  <2> QED BY <1>3, <1>4, <2>1 DEF GetTells, PutTells
<1>6. q.buffer # << >> /\ Len(q.buffer) = Len(r.buffer) + 1 BY <1>1, <1>3, <1>2, Fields
<1>7. Filled(q) /\ ClosingTold(q) BY <1>3, <1>6 DEF Good, Filled, ClosingTold
<1>8. RoomTold(q) BY <1>3, <1>4, <1>6, Fields DEF Good, RoomTold
<1> QED BY <1>2, <1>3, <1>5, <1>6, <1>7, <1>8 DEF Good, q

LEMMA PutToGetterGood ==
  ASSUME NEW r \in ChannelRecords, Good(r), r.put = "waiter",
         NEW q, q = [r EXCEPT !.waiters = Tail(@),
                              !.put = IF Tail(r.waiters) = << >> THEN Fresh(r.capacity).put ELSE @]
  PROVE  /\ q \in ChannelRecords /\ Good(q) /\ q.waiters = Tail(r.waiters)
         /\ r.waiters # << >> /\ Head(r.waiters) \in Gets
<1>1. r.waiters # << >> /\ Waiting(r) \subseteq Gets /\ r.waiters \in Seq(Calls) BY Fields DEF Good, PutTells
<1>2. Head(r.waiters) \in Gets /\ Tail(r.waiters) \in Seq(Calls) /\ Range(Tail(r.waiters)) \subseteq Waiting(r)
      /\ (Tail(r.waiters) = << >> <=> Range(Tail(r.waiters)) = {})
  <2>1. Head(r.waiters) \in Range(r.waiters) /\ Range(Tail(r.waiters)) \subseteq Range(r.waiters)
        /\ Tail(r.waiters) \in Seq(Calls)
    BY <1>1, RangeTail
  <2>2. Tail(r.waiters) = << >> <=> Range(Tail(r.waiters)) = {} BY <2>1, RangeOf
  <2> QED BY <1>1, <2>1, <2>2 DEF Waiting
<1>3. Fresh(r.capacity).put = IF r.capacity > 0 THEN "buffer" ELSE "block" BY DEF Fresh
<1>4. q \in ChannelRecords BY <1>2, <1>3 DEF ChannelRecords, States
<1>5. q.waiters = Tail(r.waiters) /\ q.buffer = r.buffer /\ q.harm = r.harm /\ q.get = r.get /\ q.capacity = r.capacity
      /\ q.put = IF Tail(r.waiters) = << >> THEN Fresh(r.capacity).put ELSE "waiter"
  BY DEF ChannelRecords
<1>6. r.get = "block" /\ r.buffer = << >> /\ Len(r.buffer) = 0 /\ r.capacity \in Nat
  <2>1. \E g \in Waiting(r) : g \notin Puts BY <1>1, Fields
  <2> QED BY <2>1, Fields DEF Good, GetTells, PutTells, States
<1>7. Waiting(q) \subseteq Gets /\ (Waiting(q) = {} <=> Tail(r.waiters) = << >>) BY <1>1, <1>2, <1>5 DEF Waiting
<1>8. GetTells(q) /\ PutTells(q) BY <1>3, <1>5, <1>6, <1>7 DEF GetTells, PutTells
<1>9. Filled(q) /\ ClosingTold(q) BY <1>3, <1>5, <1>6 DEF Good, Filled, ClosingTold
<1>10. RoomTold(q)
  <2>1. Waiting(q) \cap Puts = {} BY <1>7
  <2>2. q.put # "closed" /\ Len(q.buffer) = 0 BY <1>3, <1>5, <1>6
  <2>3. q.put = "block" => q.capacity = 0 BY <1>3, <1>5, <1>6
  <2>4. q.put = "buffer" => q.capacity > 0 BY <1>3, <1>5, <1>6
  <2>5. Len(q.buffer) <= q.capacity
    <3>1. q.capacity = r.capacity BY <1>5
    <3> QED BY <1>6, <2>2, <3>1
  <2> QED BY <2>1, <2>2, <2>3, <2>4, <2>5 DEF RoomTold
<1> QED BY <1>1, <1>2, <1>4, <1>5, <1>8, <1>9, <1>10 DEF Good

LEMMA GetWaitsGood ==
  ASSUME NEW r \in ChannelRecords, Good(r), r.get = "block", NEW g \in Gets,
         NEW q, q = [r EXCEPT !.waiters = Append(@, g), !.put = IF @ = "closed" THEN @ ELSE "waiter"]
  PROVE  q \in ChannelRecords /\ Good(q) /\ q.waiters = Append(r.waiters, g)
<1>1. q \in ChannelRecords
  <2>1. Append(r.waiters, g) \in Seq(Calls) BY Fields, RangeAppend DEF Calls
  <2> QED BY <2>1 DEF ChannelRecords, States
<1>2. q.waiters = Append(r.waiters, g) /\ q.buffer = r.buffer /\ q.harm = r.harm /\ q.get = "block"
      /\ q.capacity = r.capacity /\ q.put = IF r.put = "closed" THEN "closed" ELSE "waiter"
  BY DEF ChannelRecords
<1>3. Waiting(q) = Waiting(r) \cup {g} BY <1>2, Fields, RangeAppend DEF Calls, Waiting
<1>4. Waiting(r) \subseteq Gets /\ r.buffer = << >> BY DEF Good, GetTells
<1>5. GetTells(q) BY <1>2, <1>3, <1>4 DEF GetTells
<1>6. PutTells(q)
  <2>1. q.put \in {"closed", "waiter"} BY <1>2
  <2>2. Waiting(q) \subseteq Gets /\ Waiting(q) # {} BY <1>3, <1>4
  <2> QED BY <2>1, <2>2, OnlyGets
<1>7. Filled(q) /\ ClosingTold(q) BY <1>2 DEF Good, Filled, ClosingTold
<1>8. RoomTold(q)
  <2>1. Waiting(q) \cap Puts = {} BY <1>3, <1>4
  <2>2. q.harm = {} => q.put = "waiter" BY <1>2 DEF Good, RoomTold
  <2>3. q.harm = {} => Len(q.buffer) <= q.capacity BY <1>2 DEF Good, RoomTold
  <2> QED BY <2>1, <2>2, <2>3 DEF RoomTold
<1> QED BY <1>1, <1>2, <1>5, <1>6, <1>7, <1>8 DEF Good

\* The first value is taken and a waiting put fills its place: only the number
\* of values matters.
Refill(r, values) == [r EXCEPT !.buffer = values, !.waiters = Tail(@)]

LEMMA GetRefillsGood ==
  ASSUME NEW r \in ChannelRecords, Good(r), r.get = "buffer", r.waiters # << >>,
         NEW values \in Seq(Puts), Len(values) = Len(r.buffer)
  PROVE  LET q == Refill(r, values) IN
         /\ q \in ChannelRecords /\ Good(q) /\ q.waiters = Tail(r.waiters) /\ q.buffered = r.buffered
         /\ q.buffer = values /\ Head(r.waiters) \in Puts
<1>1. Waiting(r) \subseteq Puts /\ r.waiters \in Seq(Calls) BY Fields DEF Good, GetTells
<1>2. Head(r.waiters) \in Range(r.waiters) /\ Range(Tail(r.waiters)) \subseteq Range(r.waiters)
      /\ Tail(r.waiters) \in Seq(Calls)
  BY <1>1, RangeTail
<1> DEFINE q == Refill(r, values)
<1>3. q \in ChannelRecords BY <1>2 DEF ChannelRecords, Refill
<1>4. q.waiters = Tail(r.waiters) /\ q.buffer = values /\ q.harm = r.harm /\ q.get = "buffer" /\ q.buffered = r.buffered
      /\ q.capacity = r.capacity /\ q.put = r.put
  BY DEF ChannelRecords, Refill
<1> HIDE DEF q
<1>5. Waiting(q) \subseteq Waiting(r) /\ Waiting(r) # {} BY <1>2, <1>4, Fields DEF Waiting
<1>6. Waiting(r) \cap Puts # {} /\ ~(Waiting(r) \subseteq Gets) BY <1>1, <1>5
<1>7. r.put # "waiter" /\ r.put # "buffer" BY <1>5, <1>6 DEF Good, PutTells
<1>8. GetTells(q) BY <1>1, <1>4, <1>5 DEF GetTells
<1>9. PutTells(q) BY <1>1, <1>4, <1>5, <1>7 DEF PutTells
<1>10. q.buffer = << >> <=> r.buffer = << >>
  <2>1. Len(values) = 0 <=> Len(r.buffer) = 0 OBVIOUS
  <2>2. (values = << >> <=> Len(values) = 0) /\ (r.buffer = << >> <=> Len(r.buffer) = 0)
    BY <1>3, <1>4, Fields
  <2> QED BY <1>4, <2>1, <2>2
<1>11. Filled(q) /\ ClosingTold(q) BY <1>4, <1>10 DEF Good, Filled, ClosingTold
<1>12. RoomTold(q)
  <2>1. r.harm = {} => Len(r.buffer) = r.capacity BY <1>6 DEF Good, RoomTold
  <2> QED BY <1>4, <1>7, <2>1 DEF RoomTold
<1> QED BY <1>1, <1>2, <1>3, <1>4, <1>8, <1>9, <1>11, <1>12 DEF Good, Waiting, q

Without(r, count) ==
  [r EXCEPT !.buffered = count, !.buffer = Tail(@),
            !.get = IF Tail(r.buffer) = << >> THEN WhenDrained(r) ELSE "buffer",
            !.put = IF @ = "closed" THEN @ ELSE "buffer"]

LEMMA GetTakesGood ==
  ASSUME NEW r \in ChannelRecords, Good(r), r.get = "buffer", r.waiters = << >>, r.buffer # << >>, NEW count \in Nat
  PROVE  LET q == Without(r, count) IN
         q \in ChannelRecords /\ Good(q) /\ q.waiters = << >> /\ q.buffered = count /\ Len(q.buffer) = Len(r.buffer) - 1
<1>1. Tail(r.buffer) \in Seq(Puts) /\ Len(Tail(r.buffer)) = Len(r.buffer) - 1 BY Fields, HeadTailProperties
<1> DEFINE q == Without(r, count)
<1>2. q \in ChannelRecords BY <1>1 DEF ChannelRecords, States, WhenDrained, Without
<1>3. q.waiters = << >> /\ q.buffer = Tail(r.buffer) /\ q.harm = r.harm /\ q.buffered = count /\ q.capacity = r.capacity
      /\ q.put = IF r.put = "closed" THEN "closed" ELSE "buffer"
  BY DEF ChannelRecords, Without
<1>4. q.get = IF Tail(r.buffer) = << >> THEN WhenDrained(r) ELSE "buffer" BY DEF ChannelRecords, Without
<1> HIDE DEF q
<1>5. q.get = IF q.buffer = << >> THEN WhenDrained(r) ELSE "buffer" BY <1>3, <1>4
<1>6. Waiting(q) = {} /\ Len(q.buffer) = Len(r.buffer) - 1 BY <1>1, <1>2, <1>3, Fields
<1>7. GetTells(q)
  <2>1. q.get # "waiter" /\ (q.get = "closed" => q.put = "closed") BY <1>3, <1>5 DEF WhenDrained
  <2>2. q.buffer # << >> => q.get = "buffer" BY <1>5
  <2> QED BY <1>6, <2>1, <2>2, NobodyGet
<1>8. PutTells(q) BY <1>3, <1>6 DEF PutTells
<1>9. Filled(q) /\ ClosingTold(q) BY <1>3, <1>5 DEF Good, Filled, ClosingTold, WhenDrained
<1>10. RoomTold(q)
  <2> SUFFICES ASSUME q.harm = {}
               PROVE  /\ q.put = "closed" => q.get # "block"
                      /\ q.put = "block" => Len(q.buffer) = q.capacity
                      /\ q.put = "buffer" => Len(q.buffer) < q.capacity
                      /\ Waiting(q) \cap Puts # {} => Len(q.buffer) = q.capacity
                      /\ Len(q.buffer) <= q.capacity
    BY DEF RoomTold
  <2>1. q.put = "closed" => q.get # "block" BY <1>3, <1>5 DEF WhenDrained
  <2>2. r.put = "block" => Len(r.buffer) = r.capacity BY <1>3 DEF Good, RoomTold
  <2>3. r.put = "buffer" => Len(r.buffer) < r.capacity BY <1>3 DEF Good, RoomTold
  <2>4. r.put # "waiter" BY Fields DEF Good, PutTells
  <2>5. ASSUME r.put # "closed" PROVE Len(q.buffer) < q.capacity
    <3>1. r.put \in {"block", "buffer"} BY <2>4, <2>5, Fields DEF States
    <3>2. Len(r.buffer) <= r.capacity /\ Len(r.buffer) \in Nat /\ r.capacity \in Nat BY <2>2, <2>3, <3>1, Fields
    <3> QED BY <1>3, <1>6, <3>2
  <2>6. Len(r.buffer) <= r.capacity /\ Len(r.buffer) \in Nat /\ r.capacity \in Nat
    BY <1>3, Fields DEF Good, RoomTold
  <2>7. Len(q.buffer) <= q.capacity BY <1>3, <1>6, <2>6
  <2> QED BY <1>3, <1>6, <2>1, <2>5, <2>7
<1> QED BY <1>2, <1>3, <1>6, <1>7, <1>8, <1>9, <1>10 DEF Good, q

LEMMA GetFromPutterGood ==
  ASSUME NEW r \in ChannelRecords, Good(r), r.get = "waiter",
         NEW q, q = [r EXCEPT !.waiters = Tail(@),
                              !.get = IF Tail(r.waiters) = << >> THEN WhenDrained(r) ELSE @]
  PROVE  /\ q \in ChannelRecords /\ Good(q) /\ q.waiters = Tail(r.waiters)
         /\ r.waiters # << >> /\ Head(r.waiters) \in Puts
<1>1. r.waiters # << >> /\ Waiting(r) \subseteq Puts /\ Waiting(r) # {} /\ r.waiters \in Seq(Calls)
  BY Fields DEF Good, GetTells
<1>2. Head(r.waiters) \in Range(r.waiters) /\ Range(Tail(r.waiters)) \subseteq Range(r.waiters)
      /\ Tail(r.waiters) \in Seq(Calls)
  BY <1>1, RangeTail
<1>3. q \in ChannelRecords BY <1>2 DEF ChannelRecords, States, WhenDrained
<1>4. q.waiters = Tail(r.waiters) /\ q.buffer = r.buffer /\ q.harm = r.harm /\ q.put = r.put /\ q.capacity = r.capacity
      /\ q.get = IF Tail(r.waiters) = << >> THEN WhenDrained(r) ELSE "waiter"
  BY DEF ChannelRecords
<1>5. Waiting(q) \subseteq Puts /\ (Waiting(q) = {} <=> Tail(r.waiters) = << >>)
  BY <1>1, <1>2, <1>3, <1>4, Fields DEF Waiting
<1>6. r.buffer = << >> /\ r.put \in {"block", "closed"}
  <2>1. ~(Waiting(r) \subseteq Gets) BY <1>1
  <2> QED BY <1>1, <2>1, Fields DEF Good, GetTells, PutTells, States
<1>7. GetTells(q)
  <2>1. CASE Tail(r.waiters) = << >>
    <3>1. Waiting(q) = {} /\ q.get = IF q.put = "closed" THEN "closed" ELSE "block"
      BY <1>4, <1>5, <2>1 DEF WhenDrained
    <3> QED BY <1>4, <1>6, <3>1, NobodyGet
  <2>2. CASE Tail(r.waiters) # << >>
    <3>1. q.get = "waiter" /\ Waiting(q) # {} BY <1>4, <1>5, <2>2
    <3> QED BY <1>4, <1>5, <1>6, <3>1 DEF GetTells
  <2> QED BY <2>1, <2>2
<1>8. PutTells(q) BY <1>4, <1>5, <1>6 DEF PutTells
<1>9. Filled(q) /\ ClosingTold(q) BY <1>4 DEF Good, Filled, ClosingTold, WhenDrained
<1>10. RoomTold(q)
  <2>1. r.harm = {} => Len(r.buffer) = r.capacity
    <3>1. Waiting(r) \cap Puts # {} BY <1>1
    <3> QED BY <3>1 DEF Good, RoomTold
  <2>2. q.put = "closed" => q.get # "block" BY <1>4 DEF WhenDrained
  <2>3. q.harm = {} => Len(q.buffer) <= q.capacity
    <3>1. r.capacity \in Nat /\ q.capacity = r.capacity /\ q.harm = r.harm /\ q.buffer = r.buffer BY <1>4, Fields
    <3> QED BY <2>1, <3>1
  <2> QED BY <1>4, <1>6, <2>1, <2>2, <2>3 DEF RoomTold
<1> QED BY <1>1, <1>2, <1>3, <1>4, <1>7, <1>8, <1>9, <1>10 DEF Good, Waiting

\* A channel with nobody waiting.
LEMMA NobodyGood ==
  ASSUME NEW q \in ChannelRecords, q.waiters = << >>, q.get # "waiter", q.put # "waiter",
         q.get = "closed" => q.put = "closed", q.buffer # << >> => q.get = "buffer",
         Filled(q), ClosingTold(q),
         q.harm = {} => /\ q.put = "closed" => q.get # "block"
                        /\ q.put = "block" => Len(q.buffer) = q.capacity
                        /\ q.put = "buffer" => Len(q.buffer) < q.capacity
                        /\ Len(q.buffer) <= q.capacity
  PROVE  Good(q)
<1>1. Waiting(q) = {} BY Fields
<1>2. GetTells(q) BY <1>1, NobodyGet
<1>3. PutTells(q) BY <1>1 DEF PutTells
<1>4. RoomTold(q) BY <1>1 DEF RoomTold
<1> QED BY <1>2, <1>3, <1>4 DEF Good

LEMMA CloseGood ==
  ASSUME NEW r \in ChannelRecords, Good(r)
  PROVE  /\ r.get = "block" =>
              LET q == [r EXCEPT !.put = "closed", !.get = "closed", !.waiters = << >>]
              IN q \in ChannelRecords /\ Good(q)
         /\ r.get # "block" => LET q == [r EXCEPT !.put = "closed"] IN q \in ChannelRecords /\ Good(q)
<1>1. ASSUME r.get = "block", NEW q, q = [r EXCEPT !.put = "closed", !.get = "closed", !.waiters = << >>]
      PROVE  q \in ChannelRecords /\ Good(q)
  <2>1. q \in ChannelRecords
    <3>1. << >> \in Seq(Calls) OBVIOUS
    <3> QED BY <1>1, <3>1 DEF ChannelRecords, States
  <2>2. q.put = "closed" /\ q.get = "closed" /\ q.waiters = << >> /\ q.buffer = r.buffer /\ q.harm = r.harm
    BY <1>1 DEF ChannelRecords
  <2>3. q.buffer = << >> BY <1>1, <2>2 DEF Good, GetTells
  <2>4. Filled(q) /\ ClosingTold(q) BY <2>2 DEF Filled, ClosingTold
  <2>5. Len(q.buffer) = 0 /\ q.capacity \in Nat BY <2>1, <2>3, Fields
  <2> QED BY <2>1, <2>2, <2>3, <2>4, <2>5, NobodyGood
<1>2. ASSUME r.get # "block", NEW q, q = [r EXCEPT !.put = "closed"]
      PROVE  q \in ChannelRecords /\ Good(q)
  <2>1. q \in ChannelRecords BY <1>2 DEF ChannelRecords, States
  <2>2. q.put = "closed" /\ q.get = r.get /\ q.waiters = r.waiters /\ q.buffer = r.buffer /\ q.harm = r.harm
        /\ q.capacity = r.capacity
    BY <1>2 DEF ChannelRecords
  <2>3. Waiting(q) = Waiting(r) BY <2>2 DEF Waiting
  <2>4. GetTells(q) BY <2>2, <2>3 DEF Good, GetTells
  <2>5. PutTells(q) BY <2>2 DEF PutTells
  <2>6. Filled(q) /\ ClosingTold(q) BY <2>2 DEF Good, Filled, ClosingTold
  <2>7. RoomTold(q) BY <1>2, <2>2, <2>3 DEF Good, RoomTold
  <2> QED BY <2>1, <2>4, <2>5, <2>6, <2>7 DEF Good
<1> QED BY <1>1, <1>2

\* What a harm that is none says of the record before.
LEMMA NoHarm ==
  ASSUME NEW r \in ChannelRecords, Good(r)
  PROVE  /\ Harm(r) \in SUBSET {"capacity", "closing", "reset"} /\ r.harm \subseteq Harm(r)
         /\ "capacity" \notin Harm(r) /\ r.put = "waiter" => r.capacity = 0
         /\ "closing" \notin Harm(r) /\ r.put = "closed" => r.get # "waiter"
         /\ "closing" \in Harm(r) => "closing" \in r.harm \/ r.put = "closed"
<1>1. r.put = "waiter" => Waiting(r) \cap Gets # {} BY DEF Good, PutTells
<1>2. r.capacity \in Nat /\ r.harm \in SUBSET {"capacity", "closing", "reset"} BY Fields
<1>3. "capacity" \notin Harm(r) /\ r.put = "waiter" => r.capacity = 0 BY <1>1, <1>2 DEF Harm
<1>4. "closing" \notin Harm(r) /\ r.put = "closed" => r.get # "waiter" BY DEF Harm
<1>5. Harm(r) \in SUBSET {"capacity", "closing", "reset"} /\ r.harm \subseteq Harm(r) BY <1>2 DEF Harm
<1>6. "closing" \in Harm(r) => "closing" \in r.harm \/ r.put = "closed" BY DEF Harm
<1> QED BY <1>3, <1>4, <1>5, <1>6

LEMMA CancelledGood ==
  ASSUME NEW r \in ChannelRecords, Good(r), NEW q, q = Cancelled(r)
  PROVE  q \in ChannelRecords /\ Good(q) /\ q.waiters = << >>
         /\ q.buffer = r.buffer /\ q.buffered = r.buffered /\ q.life = r.life
<1>1. q \in ChannelRecords
  <2>1. << >> \in Seq(Calls) /\ Harm(r) \in SUBSET {"capacity", "closing", "reset"} BY NoHarm
  <2> QED BY <2>1 DEF Cancelled, ChannelRecords, States
<1>2. q.waiters = << >> /\ q.buffer = r.buffer /\ q.buffered = r.buffered /\ q.life = r.life /\ q.capacity = r.capacity
      /\ q.get = (IF r.get = "waiter" THEN "block" ELSE r.get)
      /\ q.put = (IF r.put = "waiter" THEN "block" ELSE r.put) /\ q.harm = Harm(r)
  BY DEF Cancelled, ChannelRecords
<1>3. Filled(q) BY <1>2, NoHarm DEF Good, Filled
<1>4. ClosingTold(q)
  <2>1. ASSUME Harm(r) = {"closing"} PROVE r.put = "closed"
    <3>1. r.harm = {"closing"} \/ r.put = "closed" BY <2>1, NoHarm
    <3> QED BY <3>1 DEF Good, ClosingTold
  <2> QED BY <1>2, <2>1 DEF ClosingTold
<1>5. q.buffer # << >> => q.get = "buffer" BY <1>2 DEF Good, GetTells
<1>6. q.get = "closed" => q.put = "closed" BY <1>2 DEF Good, GetTells
<1>7. ASSUME q.harm = {}
      PROVE  /\ q.put = "closed" => q.get # "block"
             /\ q.put = "block" => Len(q.buffer) = q.capacity
             /\ q.put = "buffer" => Len(q.buffer) < q.capacity
             /\ Len(q.buffer) <= q.capacity
  <2>0. Harm(r) = {} /\ r.harm \subseteq Harm(r) BY <1>2, <1>7, NoHarm
  <2>1. r.harm = {} /\ "capacity" \notin Harm(r) /\ "closing" \notin Harm(r) BY <2>0
  <2>2. r.put = "waiter" => Len(r.buffer) = 0
    <3>1. r.put = "waiter" => \E g \in Waiting(r) : g \in Gets /\ g \notin Puts BY Fields DEF Good, PutTells
    <3>2. r.put = "waiter" => r.get = "block" BY <3>1, Fields DEF Good, GetTells, States
    <3> QED BY <3>2, Fields DEF Good, GetTells
  <2>3. r.put = "waiter" => Len(r.buffer) = r.capacity BY <2>1, <2>2, NoHarm
  <2>4. q.put = "closed" => q.get # "block" BY <1>2, <2>1, NoHarm DEF Good, RoomTold
  <2> QED BY <1>2, <2>1, <2>3, <2>4 DEF Good, RoomTold
<1>8. Good(q)
  <2>1. q.get # "waiter" /\ q.put # "waiter" BY <1>2
  <2> QED BY <1>1, <1>2, <1>3, <1>4, <1>5, <1>6, <1>7, <2>1, NobodyGood
<1> QED BY <1>1, <1>2, <1>8

LEMMA ResetBaseType ==
  ASSUME NEW r \in ChannelRecords
  PROVE  ResetBase(r) \in ChannelRecords
<1> DEFINE p == Cancelled(r)
           h == (Harm(r) \ {"closing"}) \cup (IF r.buffer # << >> THEN {"reset"} ELSE {})
<1>1. Harm(r) \in SUBSET {"capacity", "closing", "reset"} BY Fields DEF Harm
<1>2. p \in ChannelRecords
  <2>1. << >> \in Seq(Calls) OBVIOUS
  <2> QED BY <1>1, <2>1 DEF Cancelled, ChannelRecords, States
<1>3. h \in SUBSET {"capacity", "closing", "reset"} BY <1>1
<1>4. Fresh(r.capacity).put \in States BY DEF Fresh, States
<1>5. ResetBase(r) = [p EXCEPT !.get = IF @ = "closed" THEN "block" ELSE @,
                               !.put = IF @ = "closed" THEN Fresh(r.capacity).put ELSE @, !.harm = h]
  BY DEF ResetBase
<1> HIDE DEF p, h
<1> QED BY <1>2, <1>3, <1>4, <1>5 DEF ChannelRecords, States

\* _Reset, and the values dropped.
Emptied(r, count) == [ResetBase(r) EXCEPT !.buffered = count, !.buffer = << >>]

LEMMA ResetGood ==
  ASSUME NEW r \in ChannelRecords, Good(r), NEW count \in Nat
  PROVE  LET q == Emptied(r, count) IN
         q \in ChannelRecords /\ Good(q) /\ q.waiters = << >> /\ q.buffer = << >> /\ q.buffered = count /\ q.life = r.life
<1> DEFINE p == Cancelled(r)
           q == Emptied(r, count)
<1>1. p \in ChannelRecords /\ Good(p) /\ p.waiters = << >> /\ p.buffer = r.buffer /\ p.life = r.life BY CancelledGood
<1>2. p.capacity = r.capacity /\ p.harm = Harm(r) /\ p.get # "waiter" /\ p.put # "waiter"
  BY DEF Cancelled, ChannelRecords
<1> DEFINE dropped == IF r.buffer # << >> THEN {"reset"} ELSE {}
<1>3. q.waiters = << >> /\ q.buffer = << >> /\ q.buffered = count /\ q.life = r.life /\ q.capacity = r.capacity
      /\ q.get = (IF p.get = "closed" THEN "block" ELSE p.get)
      /\ q.put = (IF p.put = "closed" THEN Fresh(r.capacity).put ELSE p.put)
      /\ q.harm = (Harm(r) \ {"closing"}) \cup dropped
  BY <1>1, <1>2 DEF ResetBase, ChannelRecords, Emptied
<1>4. Fresh(r.capacity).put = IF r.capacity > 0 THEN "buffer" ELSE "block" BY DEF Fresh
<1>5. q \in ChannelRecords
  <2>1. << >> \in Seq(Puts) /\ ResetBase(r) \in ChannelRecords BY ResetBaseType
  <2> QED BY <2>1 DEF ChannelRecords, Emptied
<1> HIDE DEF p, q
<1>6. Filled(q)
  <2> SUFFICES ASSUME "reset" \notin q.harm, q.get = "buffer" PROVE FALSE
    BY DEF Filled
  <2>1. r.buffer = << >> /\ "reset" \notin p.harm BY <1>2, <1>3
  <2>2. p.get = "buffer" BY <1>3
  <2> QED BY <1>1, <2>1, <2>2 DEF Good, Filled
<1>7. ClosingTold(q) BY <1>3 DEF ClosingTold
<1>8. ASSUME q.harm = {}
      PROVE  /\ q.put = "closed" => q.get # "block"
             /\ q.put = "block" => Len(q.buffer) = q.capacity
             /\ q.put = "buffer" => Len(q.buffer) < q.capacity
             /\ Len(q.buffer) <= q.capacity
  <2>1. r.buffer = << >> /\ p.harm \in {{}, {"closing"}} BY <1>2, <1>3, <1>8
  <2>2. r.capacity \in Nat /\ Len(q.buffer) = 0 /\ Len(p.buffer) = 0 /\ p.capacity = r.capacity
    BY <1>1, <1>2, <1>3, <1>5, <2>1, Fields
  <2>3. p.put # "closed" => p.harm = {} BY <1>1, <2>1 DEF Good, ClosingTold
  <2>4. p.put = "block" => r.capacity = 0 BY <1>1, <2>2, <2>3 DEF Good, RoomTold
  <2>5. p.put = "buffer" => 0 < r.capacity BY <1>1, <2>2, <2>3 DEF Good, RoomTold
  <2> QED BY <1>3, <1>4, <2>2, <2>4, <2>5
<1>9. Good(q)
  <2>1. q.get # "waiter" /\ q.put # "waiter" /\ q.get # "closed" BY <1>2, <1>3, <1>4 DEF p
  <2> QED BY <1>3, <1>5, <1>6, <1>7, <1>8, <2>1, NobodyGood
<1> QED BY <1>3, <1>5, <1>9 DEF q

----------------------------------------------------------------------------
(* The invariant of all channels.                                          *)

\* A channel that is not in use has no waiters; the counter of a channel<void>
\* is the number of its tokens.
Kept(v, r) ==
  IF r.life = "live" THEN Good(r) /\ (v => r.buffered = Len(r.buffer)) ELSE r.waiters = << >>

Records == \A c \in Chans : Kept(void, chan[c])

\* Every waiting call is in one queue, once.
NoRepeat(q) == \A i, j \in DOMAIN q : q[i] = q[j] => i = j

Told  == \A p \in Calls : outcome[p] = "waiting" <=> \E c \in Chans : p \in Waiting(chan[c])
Apart == \A c, d \in Chans : c # d => Waiting(chan[c]) \cap Waiting(chan[d]) = {}
Once  == \A c \in Chans : NoRepeat(chan[c].waiters)

LEMMA AppendNoRepeat ==
  ASSUME NEW S, NEW q \in Seq(S), NoRepeat(q), NEW e \in S, e \notin Range(q)
  PROVE  NoRepeat(Append(q, e))
<1>1. DOMAIN q = 1 .. Len(q) /\ Len(q) \in Nat BY LenProperties
<1>2. DOMAIN Append(q, e) = 1 .. Len(q) + 1 /\ Append(q, e)[Len(q) + 1] = e
      /\ \A i \in 1 .. Len(q) : Append(q, e)[i] = q[i]
  BY <1>1
<1>3. \A i \in DOMAIN Append(q, e) : i = Len(q) + 1 \/ i \in DOMAIN q BY <1>1, <1>2
<1>4. \A i \in DOMAIN q : q[i] # e BY DEF Range
<1> QED BY <1>1, <1>2, <1>3, <1>4 DEF NoRepeat

LEMMA TailNoRepeat ==
  ASSUME NEW S, NEW q \in Seq(S), NoRepeat(q), q # << >>
  PROVE  Head(q) \notin Range(Tail(q)) /\ NoRepeat(Tail(q))
<1>1. DOMAIN q = 1 .. Len(q) /\ Len(q) \in Nat /\ Len(q) > 0 BY LenProperties, EmptySeq
<1>2. Tail(q) \in Seq(S) /\ Len(Tail(q)) = Len(q) - 1 /\ \A i \in 1 .. Len(Tail(q)) : Tail(q)[i] = q[i+1]
  BY HeadTailProperties
<1>3. DOMAIN Tail(q) = 1 .. Len(q) - 1 /\ Head(q) = q[1] BY <1>1, <1>2, LenProperties
<1>4. \A i \in DOMAIN Tail(q) : i \in Nat /\ i + 1 \in DOMAIN q /\ i + 1 # 1 /\ Tail(q)[i] = q[i + 1] BY <1>1, <1>2, <1>3
<1>5. 1 \in DOMAIN q BY <1>1
<1>6. Head(q) \notin Range(Tail(q)) BY <1>3, <1>4, <1>5 DEF NoRepeat, Range
<1>7. NoRepeat(Tail(q))
  <2> SUFFICES ASSUME NEW i \in DOMAIN Tail(q), NEW j \in DOMAIN Tail(q), Tail(q)[i] = Tail(q)[j] PROVE i = j
    BY DEF NoRepeat
  <2>1. q[i + 1] = q[j + 1] BY <1>4
  <2>2. i + 1 = j + 1 BY <1>4, <2>1 DEF NoRepeat
  <2> QED BY <1>4, <2>2
<1> QED BY <1>6, <1>7

\* What a call does to the queues of waiters.
OthersKeep(C) == \A d \in Chans \ C : chan'[d].waiters = chan[d].waiters

NobodyMoves ==
  OthersKeep({}) /\ \A p \in Calls : outcome'[p] = "waiting" <=> outcome[p] = "waiting"

Joins(c, p) ==
  /\ chan'[c].waiters = Append(chan[c].waiters, p) /\ OthersKeep({c})
  /\ outcome[p] = "unused" /\ Settle({p}, "waiting")

FirstServed(c, p) ==
  /\ chan[c].waiters # << >> /\ chan'[c].waiters = Tail(chan[c].waiters) /\ OthersKeep({c})
  /\ outcome[p] = "unused" /\ Settle({p, Head(chan[c].waiters)}, "success")

AllLeave(c, result) ==
  chan'[c].waiters = << >> /\ OthersKeep({c}) /\ Settle(Waiting(chan[c]), result)

HandedOver(c, d) ==
  /\ c # d /\ chan'[c].waiters = chan[d].waiters /\ chan'[d].waiters = << >> /\ OthersKeep({c, d})
  /\ Settle(Waiting(chan[c]), "canceled")

WaitersMove ==
  \/ NobodyMoves
  \/ \E c \in Chans : \/ \E p \in Calls : Joins(c, p) \/ FirstServed(c, p)
                      \/ \E result \in Outcomes \ {"waiting"} : AllLeave(c, result)
                      \/ \E d \in Chans : HandedOver(c, d)

\* What every step establishes.
Result == Types' /\ Records' /\ WaitersMove

LEMMA OneChanged ==
  ASSUME Types, Records, NEW c \in Chans, NEW q \in ChannelRecords, chan' = [chan EXCEPT ![c] = q],
         UNCHANGED void, Kept(void, q)
  PROVE  chan' \in [Chans -> ChannelRecords] /\ Records' /\ chan'[c] = q /\ OthersKeep({c})
<1>1. chan'[c] = q /\ (\A d \in Chans : d # c => chan'[d] = chan[d]) /\ chan' \in [Chans -> ChannelRecords]
  BY DEF Types
<1>2. \A d \in Chans : Kept(void', chan'[d]) BY <1>1 DEF Records
<1>3. \A d \in Chans : Kept(void, chan[d])' BY <1>2 DEF Kept, Good, GetTells, PutTells, Filled, RoomTold, ClosingTold, Waiting
<1> QED BY <1>1, <1>3 DEF Records, OthersKeep

LEMMA Settled ==
  ASSUME Types, NEW ps, NEW result \in Outcomes, Settle(ps, result)
  PROVE  /\ outcome' \in [Calls -> Outcomes]
         /\ \A p \in Calls : outcome'[p] = IF p \in ps THEN result ELSE outcome[p]
  BY DEF Types, Settle

\* A call that ends at once.
LEMMA EndsAtOnce ==
  ASSUME Types, NEW p \in Calls, outcome[p] = "unused", NEW result \in Outcomes \ {"waiting"}, Settle({p}, result),
         OthersKeep({})
  PROVE  outcome' \in [Calls -> Outcomes] /\ NobodyMoves
<1>1. \A x \in Calls : outcome'[x] = IF x \in {p} THEN result ELSE outcome[x] BY Settled
<1> QED BY <1>1, Settled DEF NobodyMoves

LEMMA InUse ==
  ASSUME Types, Records, NEW c \in Chans, Usable(c)
  PROVE  /\ chan[c] \in ChannelRecords /\ chan[c].life = "live" /\ Good(chan[c])
         /\ void => chan[c].buffered = Len(chan[c].buffer)
  BY DEF Types, Records, Kept, Usable

----------------------------------------------------------------------------
(* Puts and gets.                                                          *)

LEMMA NothingChanges ==
  ASSUME Types, Records, UNCHANGED <<void, chan, got, undefined>>, NEW p \in Calls, outcome[p] = "unused",
         NEW result \in Outcomes \ {"waiting"}, Settle({p}, result)
  PROVE  Result
<1>1. OthersKeep({}) BY DEF OthersKeep
<1>2. outcome' \in [Calls -> Outcomes] /\ NobodyMoves BY <1>1, EndsAtOnce
<1>3. Records' BY DEF Records, Kept, Good, GetTells, PutTells, Filled, RoomTold, ClosingTold, Waiting
<1>4. Types' BY <1>2 DEF Types
<1> QED BY <1>2, <1>3, <1>4 DEF Result, WaitersMove

LEMMA EndedPutResult ==
  ASSUME Types, Records, UNCHANGED void, NEW c \in Chans, NEW o \in Puts,
         PutWouldBlock(c, o) \/ PutRefused(c, o)
  PROVE  Result
<1>1. PICK result \in {"would_block", "broken_pipe"} :
        outcome[o] = "unused" /\ Settle({o}, result) /\ UNCHANGED <<chan, got, undefined>>
  BY DEF PutWouldBlock, PutRefused, MayPut
<1>2. o \in Calls /\ result \in Outcomes \ {"waiting"} BY DEF Calls, Outcomes
<1> QED BY <1>1, <1>2, NothingChanges

LEMMA EndedGetResult ==
  ASSUME Types, Records, UNCHANGED void, NEW c \in Chans, NEW g \in Gets,
         GetWouldBlock(c, g) \/ GetRefused(c, g)
  PROVE  Result
<1>1. PICK result \in {"would_block", "broken_pipe"} :
        outcome[g] = "unused" /\ Settle({g}, result) /\ UNCHANGED <<chan, got, undefined>>
  BY DEF GetWouldBlock, GetRefused, MayGet
<1>2. g \in Calls /\ result \in Outcomes \ {"waiting"} BY DEF Calls, Outcomes
<1> QED BY <1>1, <1>2, NothingChanges

LEMMA WaitsResult ==
  ASSUME Types, Records, UNCHANGED void, NEW c \in Chans, NEW p \in Calls,
         (p \in Puts /\ PutWaits(c, p)) \/ (p \in Gets /\ GetWaits(c, p))
  PROVE  Result
<1>1. /\ Usable(c) /\ outcome[p] = "unused" /\ Settle({p}, "waiting") /\ UNCHANGED <<got, undefined>>
  BY DEF PutWaits, GetWaits, MayPut, MayGet
<1>2. chan[c] \in ChannelRecords /\ chan[c].life = "live" /\ Good(chan[c]) /\ (void => chan[c].buffered = Len(chan[c].buffer))
  BY <1>1, InUse
<1>3. PICK q \in ChannelRecords :
        /\ chan' = [chan EXCEPT ![c] = q] /\ Good(q) /\ q.waiters = Append(chan[c].waiters, p)
        /\ q.life = chan[c].life /\ q.buffered = chan[c].buffered /\ q.buffer = chan[c].buffer
  <2>1. CASE p \in Puts /\ PutWaits(c, p)
    <3> DEFINE q == [chan[c] EXCEPT !.waiters = Append(@, p), !.get = GetWithPutter(chan[c])]
    <3>1. chan[c].put = "block" /\ chan' = [chan EXCEPT ![c] = q] BY <2>1 DEF PutWaits, MayPut, Update
    <3>2. q \in ChannelRecords /\ Good(q) BY <1>2, <2>1, <3>1, PutWaitsGood
    <3>3. q.waiters = Append(chan[c].waiters, p) /\ q.life = chan[c].life /\ q.buffered = chan[c].buffered
          /\ q.buffer = chan[c].buffer
      BY <1>2 DEF ChannelRecords
    <3> QED BY <3>1, <3>2, <3>3
  <2>2. CASE p \in Gets /\ GetWaits(c, p)
    <3> DEFINE q == [chan[c] EXCEPT !.waiters = Append(@, p), !.put = IF @ = "closed" THEN @ ELSE "waiter"]
    <3>1. chan[c].get = "block" /\ chan' = [chan EXCEPT ![c] = q] BY <2>2 DEF GetWaits, MayGet, Update
    <3>2. q \in ChannelRecords /\ Good(q) BY <1>2, <2>2, <3>1, GetWaitsGood
    <3>3. q.waiters = Append(chan[c].waiters, p) /\ q.life = chan[c].life /\ q.buffered = chan[c].buffered
          /\ q.buffer = chan[c].buffer
      BY <1>2 DEF ChannelRecords
    <3> QED BY <3>1, <3>2, <3>3
  <2> QED BY <2>1, <2>2
<1>4. Kept(void, q) BY <1>2, <1>3 DEF Kept
<1>5. chan' \in [Chans -> ChannelRecords] /\ Records' /\ chan'[c] = q /\ OthersKeep({c}) BY <1>3, <1>4, OneChanged
<1>6. outcome' \in [Calls -> Outcomes] BY <1>1, Settled DEF Outcomes
<1>7. Joins(c, p) BY <1>1, <1>3, <1>5 DEF Joins
<1>8. Types' BY <1>1, <1>5, <1>6 DEF Types
<1> QED BY <1>5, <1>7, <1>8 DEF Result, WaitersMove

\* A call that ends at once, and leaves the waiters alone.
LEMMA AloneResult ==
  ASSUME Types, Records, UNCHANGED <<void, undefined>>, NEW c \in Chans, NEW p \in Calls, outcome[p] = "unused",
         NEW q \in ChannelRecords, chan' = [chan EXCEPT ![c] = q], Kept(void, q), q.waiters = chan[c].waiters,
         Settle({p}, "success"), got' \in [Gets -> Puts \cup {NoValue}]
  PROVE  Result
<1>1. chan' \in [Chans -> ChannelRecords] /\ Records' /\ chan'[c] = q /\ OthersKeep({c}) BY OneChanged
<1>2. OthersKeep({}) BY <1>1 DEF OthersKeep
<1>3. outcome' \in [Calls -> Outcomes] /\ NobodyMoves BY <1>2, EndsAtOnce DEF Outcomes
<1>4. Types' BY <1>1, <1>3 DEF Types
<1> QED BY <1>1, <1>3, <1>4 DEF Result, WaitersMove

\* A call that ends, and ends the first of the waiting calls.
LEMMA ServesResult ==
  ASSUME Types, Records, UNCHANGED <<void, undefined>>, NEW c \in Chans, NEW p \in Calls, outcome[p] = "unused",
         NEW q \in ChannelRecords, chan' = [chan EXCEPT ![c] = q], Kept(void, q),
         chan[c].waiters # << >>, q.waiters = Tail(chan[c].waiters),
         Settle({p, Head(chan[c].waiters)}, "success"), got' \in [Gets -> Puts \cup {NoValue}]
  PROVE  Result
<1>1. chan' \in [Chans -> ChannelRecords] /\ Records' /\ chan'[c] = q /\ OthersKeep({c}) BY OneChanged
<1>2. outcome' \in [Calls -> Outcomes] BY Settled DEF Outcomes
<1>3. FirstServed(c, p) BY <1>1 DEF FirstServed
<1>4. Types' BY <1>1, <1>2 DEF Types
<1> QED BY <1>1, <1>3, <1>4 DEF Result, WaitersMove

LEMMA PutBuffersResult ==
  ASSUME Types, Records, ~void, UNCHANGED void, NEW c \in Chans, NEW o \in Puts, PutBuffers(c, o)
  PROVE  Result
<1> DEFINE r == chan[c]
           q == [r EXCEPT !.buffer = Append(@, o), !.get = "buffer", !.put = IF NowFull(r) THEN "block" ELSE @]
           b == With(r, o, r.buffered)
<1>1. /\ Usable(c) /\ outcome[o] = "unused" /\ r.put = "buffer" /\ Settle({o}, "success")
      /\ UNCHANGED <<got, undefined>> /\ chan' = [chan EXCEPT ![c] = q]
  BY DEF PutBuffers, MayPut, Update
<1>2. r \in ChannelRecords /\ r.life = "live" /\ Good(r) BY <1>1, InUse
<1>3. q = b BY <1>1, <1>2 DEF ChannelRecords, With, NowFull
<1>4. r.buffered \in Nat BY <1>2, Fields
<1>5. b \in ChannelRecords /\ Good(b) /\ b.waiters = r.waiters
  <2> HIDE DEF r
  <2> QED BY <1>1, <1>2, <1>4, PutBuffersGood
<1>6. q.life = "live" BY <1>2 DEF ChannelRecords
<1>7. Kept(void, q) BY <1>3, <1>5, <1>6 DEF Kept
<1>8. q \in ChannelRecords /\ q.waiters = chan[c].waiters BY <1>3, <1>5
<1>9. got' \in [Gets -> Puts \cup {NoValue}] BY <1>1 DEF Types
<1>10. o \in Calls /\ UNCHANGED <<void, undefined>> BY <1>1 DEF Calls
<1> HIDE DEF q, b, r
<1> QED BY <1>1, <1>7, <1>8, <1>9, <1>10, AloneResult

LEMMA VoidPutBuffersResult ==
  ASSUME Types, Records, void, UNCHANGED void, NEW c \in Chans, NEW o \in Puts, VoidPutBuffers(c, o)
  PROVE  Result
<1> DEFINE r == chan[c]
           q == [r EXCEPT !.buffered = r.buffered + 1, !.buffer = Append(@, o), !.get = "buffer",
                          !.put = IF CountIsFull(r) THEN "block" ELSE @]
           b == With(r, o, r.buffered + 1)
<1>1. /\ Usable(c) /\ outcome[o] = "unused" /\ r.put = "buffer" /\ Settle({o}, "success")
      /\ UNCHANGED <<got, undefined>> /\ chan' = [chan EXCEPT ![c] = q]
  BY DEF VoidPutBuffers, MayPut, Update
<1>2. r \in ChannelRecords /\ r.life = "live" /\ Good(r) /\ r.buffered = Len(r.buffer) BY <1>1, InUse
<1>3. q = b BY <1>1, <1>2 DEF ChannelRecords, With, CountIsFull
<1>4. r.buffered + 1 \in Nat BY <1>2, Fields
<1>5. b \in ChannelRecords /\ Good(b) /\ b.waiters = r.waiters /\ b.buffered = r.buffered + 1
      /\ Len(b.buffer) = Len(r.buffer) + 1
  <2> HIDE DEF r
  <2> QED BY <1>1, <1>2, <1>4, PutBuffersGood
<1>6. q.life = "live" BY <1>2 DEF ChannelRecords
<1>7. Kept(void, q) BY <1>2, <1>3, <1>5, <1>6 DEF Kept
<1>8. q \in ChannelRecords /\ q.waiters = chan[c].waiters BY <1>3, <1>5
<1>9. got' \in [Gets -> Puts \cup {NoValue}] BY <1>1 DEF Types
<1>10. o \in Calls /\ UNCHANGED <<void, undefined>> BY <1>1 DEF Calls
<1> HIDE DEF q, b, r
<1> QED BY <1>1, <1>7, <1>8, <1>9, <1>10, AloneResult

LEMMA PutToGetterResult ==
  ASSUME Types, Records, UNCHANGED void, NEW c \in Chans, NEW o \in Puts, PutToGetter(c, o)
  PROVE  Result
<1> DEFINE r == chan[c]
           g == Head(r.waiters)
           q == [r EXCEPT !.waiters = Tail(@),
                          !.put = IF Tail(r.waiters) = << >> THEN Fresh(r.capacity).put ELSE @]
<1>1. /\ Usable(c) /\ outcome[o] = "unused" /\ r.put = "waiter" /\ Settle({o, g}, "success")
      /\ UNCHANGED undefined /\ chan' = [chan EXCEPT ![c] = q] /\ got' = [got EXCEPT ![g] = o]
  BY DEF PutToGetter, MayPut, Update
<1>2. r \in ChannelRecords /\ r.life = "live" /\ Good(r) /\ (void => r.buffered = Len(r.buffer)) BY <1>1, InUse
<1>3. q \in ChannelRecords /\ Good(q) /\ q.waiters = Tail(r.waiters) /\ r.waiters # << >> /\ g \in Gets
  <2> HIDE DEF r
  <2> QED BY <1>1, <1>2, PutToGetterGood
<1>4. q.life = "live" /\ q.buffered = r.buffered /\ q.buffer = r.buffer BY <1>2 DEF ChannelRecords
<1>5. Kept(void, q) BY <1>2, <1>3, <1>4 DEF Kept
<1>6. got' \in [Gets -> Puts \cup {NoValue}] BY <1>1, <1>3 DEF Types
<1>7. o \in Calls BY DEF Calls
<1>8. q.waiters = Tail(chan[c].waiters) /\ chan[c].waiters # << >> /\ Settle({o, Head(chan[c].waiters)}, "success")
  BY <1>1, <1>3
<1> HIDE DEF q, r, g
<1> QED BY <1>1, <1>3, <1>5, <1>6, <1>7, <1>8, ServesResult

LEMMA GetFromPutterResult ==
  ASSUME Types, Records, UNCHANGED void, NEW c \in Chans, NEW g \in Gets, GetFromPutter(c, g)
  PROVE  Result
<1> DEFINE r == chan[c]
           o == Head(r.waiters)
           q == [r EXCEPT !.waiters = Tail(@),
                          !.get = IF Tail(r.waiters) = << >> THEN WhenDrained(r) ELSE @]
<1>1. /\ Usable(c) /\ outcome[g] = "unused" /\ r.get = "waiter" /\ Settle({o, g}, "success")
      /\ UNCHANGED undefined /\ chan' = [chan EXCEPT ![c] = q] /\ got' = [got EXCEPT ![g] = o]
  BY DEF GetFromPutter, MayGet, Update
<1>2. r \in ChannelRecords /\ r.life = "live" /\ Good(r) /\ (void => r.buffered = Len(r.buffer)) BY <1>1, InUse
<1>3. q \in ChannelRecords /\ Good(q) /\ q.waiters = Tail(r.waiters) /\ r.waiters # << >> /\ o \in Puts
  <2> HIDE DEF r
  <2> QED BY <1>1, <1>2, GetFromPutterGood
<1>4. q.life = "live" /\ q.buffered = r.buffered /\ q.buffer = r.buffer BY <1>2 DEF ChannelRecords
<1>5. Kept(void, q) BY <1>2, <1>3, <1>4 DEF Kept
<1>6. got' \in [Gets -> Puts \cup {NoValue}] BY <1>1, <1>3 DEF Types
<1>7. g \in Calls /\ {o, g} = {g, o} BY DEF Calls
<1>8. q.waiters = Tail(chan[c].waiters) /\ chan[c].waiters # << >> /\ Settle({g, Head(chan[c].waiters)}, "success")
  BY <1>1, <1>3, <1>7
<1> HIDE DEF q, r, o
<1> QED BY <1>1, <1>3, <1>5, <1>6, <1>7, <1>8, ServesResult

LEMMA GetBufferedResult ==
  ASSUME Types, Records, ~void, UNCHANGED void, NEW c \in Chans, NEW g \in Gets, GetBuffered(c, g)
  PROVE  Result
<1> DEFINE r == chan[c]
<1>1. /\ Usable(c) /\ outcome[g] = "unused" /\ r.get = "buffer" /\ r.buffer # << >>
      /\ UNCHANGED undefined /\ got' = [got EXCEPT ![g] = Head(r.buffer)]
  BY DEF GetBuffered, MayGet
<1>2. r \in ChannelRecords /\ r.life = "live" /\ Good(r) BY <1>1, InUse
<1>3. Head(r.buffer) \in Puts /\ Tail(r.buffer) \in Seq(Puts) /\ Len(Tail(r.buffer)) = Len(r.buffer) - 1
      /\ Len(r.buffer) \in Nat
  BY <1>1, <1>2, Fields, HeadTailProperties
<1>4. got' \in [Gets -> Puts \cup {NoValue}] BY <1>1, <1>3 DEF Types
<1>5. g \in Calls /\ UNCHANGED <<void, undefined>> BY <1>1 DEF Calls
<1>6. CASE r.waiters # << >> /\ Settle({g, Head(r.waiters)}, "success")
           /\ chan' = [chan EXCEPT ![c] = [r EXCEPT !.buffer = Refilled(r), !.waiters = Tail(@)]]
  <2> DEFINE q == [r EXCEPT !.buffer = Refilled(r), !.waiters = Tail(@)]
  <2>1. Head(r.waiters) \in Puts
    <3>1. Waiting(r) \subseteq Puts /\ r.waiters \in Seq(Calls) BY <1>1, <1>2, Fields DEF Good, GetTells
    <3>2. Head(r.waiters) \in Range(r.waiters) BY <1>6, <3>1, RangeTail
    <3> QED BY <3>1, <3>2 DEF Waiting
  <2>2. Refilled(r) \in Seq(Puts) /\ Len(Refilled(r)) = Len(r.buffer) BY <1>3, <2>1 DEF Refilled
  <2>3. q \in ChannelRecords /\ Good(q) /\ q.waiters = Tail(r.waiters)
    <3>1. q = Refill(r, Refilled(r)) BY DEF Refill
    <3> HIDE DEF r, q
    <3> QED BY <1>1, <1>2, <1>6, <2>2, <3>1, GetRefillsGood
  <2>4. q.life = "live" BY <1>2 DEF ChannelRecords
  <2>5. Kept(void, q) BY <2>3, <2>4 DEF Kept
  <2>6. chan[c].waiters # << >> /\ q.waiters = Tail(chan[c].waiters) /\ Settle({g, Head(chan[c].waiters)}, "success")
        /\ chan' = [chan EXCEPT ![c] = q]
    BY <1>6, <2>3
  <2> HIDE DEF q, r
  <2> QED BY <1>1, <1>4, <1>5, <2>3, <2>5, <2>6, ServesResult
<1>7. CASE r.waiters = << >> /\ Settle({g}, "success")
           /\ chan' = [chan EXCEPT ![c] = [r EXCEPT !.buffer = Tail(@),
                    !.get = IF TakesLast(r) THEN WhenDrained(r) ELSE @,
                    !.put = IF @ = "closed" THEN @ ELSE "buffer"]]
  <2> DEFINE q == [r EXCEPT !.buffer = Tail(@), !.get = IF TakesLast(r) THEN WhenDrained(r) ELSE @,
                            !.put = IF @ = "closed" THEN @ ELSE "buffer"]
             b == Without(r, r.buffered)
  <2>1. q = b BY <1>1, <1>2 DEF ChannelRecords, TakesLast, Without
  <2>2. r.buffered \in Nat BY <1>2, Fields
  <2>3. b \in ChannelRecords /\ Good(b) /\ b.waiters = << >>
    <3> HIDE DEF r
    <3> QED BY <1>1, <1>2, <1>7, <2>2, GetTakesGood
  <2>4. q.life = "live" BY <1>2 DEF ChannelRecords
  <2>5. Kept(void, q) BY <2>1, <2>3, <2>4 DEF Kept
  <2>6. q \in ChannelRecords /\ q.waiters = chan[c].waiters /\ chan' = [chan EXCEPT ![c] = q] /\ Settle({g}, "success")
    BY <1>7, <2>1, <2>3
  <2> HIDE DEF q, b, r
  <2> QED BY <1>1, <1>4, <1>5, <2>5, <2>6, AloneResult
<1> QED BY <1>6, <1>7 DEF GetBuffered, Update

LEMMA VoidGetBufferedResult ==
  ASSUME Types, Records, void, UNCHANGED void, NEW c \in Chans, NEW g \in Gets, VoidGetBuffered(c, g)
  PROVE  Result
<1> DEFINE r == chan[c]
           tokens == r.buffer \o r.waiters
<1>1. /\ Usable(c) /\ outcome[g] = "unused" /\ r.get = "buffer" /\ tokens # << >>
      /\ UNCHANGED undefined /\ got' = [got EXCEPT ![g] = Head(tokens)]
  BY DEF VoidGetBuffered, MayGet
<1>2. r \in ChannelRecords /\ r.life = "live" /\ Good(r) /\ r.buffered = Len(r.buffer) BY <1>1, InUse
<1>3. r.buffer \in Seq(Puts) /\ r.waiters \in Seq(Puts)
  <2>1. Waiting(r) \subseteq Puts /\ r.waiters \in Seq(Calls) BY <1>1, <1>2, Fields DEF Good, GetTells
  <2>2. \A i \in 1 .. Len(r.waiters) : r.waiters[i] \in Puts
    BY <2>1, RangeOf DEF Waiting
  <2> QED BY <1>2, <2>1, <2>2, Fields
<1>4. tokens \in Seq(Puts) /\ Len(tokens) = Len(r.buffer) + Len(r.waiters) BY <1>3, ConcatProperties
<1>5. Head(tokens) \in Puts
  <2> HIDE DEF tokens
  <2> QED BY <1>1, <1>4, HeadTailProperties
<1>6. got' \in [Gets -> Puts \cup {NoValue}] BY <1>1, <1>5 DEF Types
<1>7. g \in Calls /\ UNCHANGED <<void, undefined>> BY <1>1 DEF Calls
<1>8. CASE r.waiters # << >> /\ Settle({g, Head(r.waiters)}, "success")
           /\ chan' = [chan EXCEPT ![c] = [r EXCEPT !.waiters = Tail(@), !.buffer = SubSeq(tokens, 2, Len(@) + 1)]]
  <2> DEFINE values == SubSeq(tokens, 2, Len(r.buffer) + 1)
             q == [r EXCEPT !.waiters = Tail(@), !.buffer = values]
             b == Refill(r, values)
  <2>1. values \in Seq(Puts) /\ Len(values) = Len(r.buffer)
    <3>1. Len(r.buffer) \in Nat /\ Len(r.waiters) \in Nat /\ Len(r.waiters) > 0 BY <1>3, <1>8, EmptySeq, LenProperties
    <3>2. Len(tokens) = Len(r.buffer) + Len(r.waiters) /\ tokens \in Seq(Puts) BY <1>4
    <3> HIDE DEF tokens, r
    <3> DEFINE n == Len(r.buffer)
               m == Len(r.waiters)
    <3>3. n \in Nat /\ m \in Nat /\ m > 0 /\ Len(tokens) = n + m BY <3>1, <3>2
    <3>4. \A i \in 2 .. n + 1 : i \in 1 .. Len(tokens)
      <4> HIDE DEF n, m
      <4> QED BY <3>3
    <3>5. \A i \in 2 .. Len(r.buffer) + 1 : tokens[i] \in Puts BY <3>2, <3>4, ElementOfSeq
    <3> QED BY <3>1, <3>5, SubSeqProperties
  <2>2. q = b BY <1>2 DEF ChannelRecords, Refill
  <2>3. b \in ChannelRecords /\ Good(b) /\ b.waiters = Tail(r.waiters) /\ b.buffered = r.buffered /\ b.buffer = values
    <3> HIDE DEF r, values
    <3> QED BY <1>1, <1>2, <1>8, <2>1, GetRefillsGood
  <2>4. b.life = "live" BY <1>2 DEF ChannelRecords, Refill
  <2>5. Kept(void, b) BY <1>2, <2>1, <2>3, <2>4 DEF Kept
  <2>6. chan[c].waiters # << >> /\ b.waiters = Tail(chan[c].waiters) /\ Settle({g, Head(chan[c].waiters)}, "success")
        /\ chan' = [chan EXCEPT ![c] = b]
    BY <1>8, <2>2, <2>3
  <2> HIDE DEF q, b, r
  <2> QED BY <1>1, <1>6, <1>7, <2>3, <2>5, <2>6, ServesResult
<1>9. CASE r.waiters = << >> /\ r.buffered > 0 /\ Settle({g}, "success")
           /\ chan' = [chan EXCEPT ![c] = [r EXCEPT !.buffered = @ - 1, !.buffer = Tail(@),
                     !.get = IF r.buffered = 1 THEN WhenDrained(r) ELSE @,
                     !.put = IF @ = "closed" THEN @ ELSE "buffer"]]
  <2> DEFINE q == Without(r, r.buffered - 1)
  <2>1. r.buffer # << >> /\ Len(r.buffer) \in Nat BY <1>2, <1>9, Fields
  <2>2. r.buffered = 1 <=> Tail(r.buffer) = << >>
    <3>1. Tail(r.buffer) \in Seq(Puts) /\ Len(Tail(r.buffer)) = Len(r.buffer) - 1 BY <1>3, <2>1, HeadTailProperties
    <3>2. Tail(r.buffer) = << >> <=> Len(Tail(r.buffer)) = 0 BY <3>1, EmptySeq
    <3> QED BY <1>2, <2>1, <3>1, <3>2
  <2>3. r.buffered - 1 \in Nat BY <1>2, <1>9, <2>1
  <2>4. q \in ChannelRecords /\ Good(q) /\ q.waiters = << >> /\ q.buffered = r.buffered - 1
        /\ Len(q.buffer) = Len(r.buffer) - 1
    <3> HIDE DEF r
    <3> QED BY <1>1, <1>2, <1>9, <2>1, <2>3, GetTakesGood
  <2>5. q.life = "live" BY <1>2 DEF ChannelRecords, Without
  <2>6. Kept(void, q) BY <1>2, <2>4, <2>5 DEF Kept
  <2>7. q.waiters = chan[c].waiters /\ chan' = [chan EXCEPT ![c] = q] /\ Settle({g}, "success")
    <3>1. q = [r EXCEPT !.buffered = @ - 1, !.buffer = Tail(@),
                        !.get = IF r.buffered = 1 THEN WhenDrained(r) ELSE @,
                        !.put = IF @ = "closed" THEN @ ELSE "buffer"]
      BY <1>1, <1>2, <2>2 DEF ChannelRecords, Without
    <3> HIDE DEF q
    <3> QED BY <1>9, <2>4, <3>1
  <2> HIDE DEF q, r
  <2> QED BY <1>1, <1>6, <1>7, <2>4, <2>6, <2>7, AloneResult
<1> QED BY <1>8, <1>9 DEF VoidGetBuffered, Update

----------------------------------------------------------------------------
(* close, cancel, reset, construction, moves, destruction.                 *)

\* All waiting calls of a channel end, or nobody waits any more.
LEMMA LeaveResult ==
  ASSUME Types, Records, UNCHANGED <<void, got, undefined>>, NEW c \in Chans,
         NEW q \in ChannelRecords, chan' = [chan EXCEPT ![c] = q], Kept(void, q), q.waiters = << >>,
         NEW result \in Outcomes \ {"waiting"}, Settle(Waiting(chan[c]), result)
  PROVE  Result
<1>1. chan' \in [Chans -> ChannelRecords] /\ Records' /\ chan'[c] = q /\ OthersKeep({c}) BY OneChanged
<1>2. outcome' \in [Calls -> Outcomes] BY Settled
<1>3. AllLeave(c, result) BY <1>1 DEF AllLeave
<1>4. Types' BY <1>1, <1>2 DEF Types
<1> QED BY <1>1, <1>3, <1>4 DEF Result, WaitersMove

LEMMA CloseResult ==
  ASSUME Types, Records, UNCHANGED void, NEW c \in Chans, Close(c)
  PROVE  Result
<1> DEFINE r == chan[c]
           shut == [r EXCEPT !.put = "closed", !.get = "closed", !.waiters = << >>]
           closed == [r EXCEPT !.put = "closed"]
<1>1. Usable(c) /\ UNCHANGED <<got, undefined>> BY DEF Close
<1>2. r \in ChannelRecords /\ r.life = "live" /\ Good(r) /\ (void => r.buffered = Len(r.buffer)) BY <1>1, InUse
<1>3. CASE r.get = "block" /\ chan' = [chan EXCEPT ![c] = shut] /\ Settle(Waiting(r), "broken_pipe")
  <2>1. shut \in ChannelRecords /\ Good(shut)
    <3> HIDE DEF r
    <3> QED BY <1>2, <1>3, CloseGood
  <2>2. shut.life = "live" /\ shut.waiters = << >> /\ shut.buffered = r.buffered /\ shut.buffer = r.buffer
    BY <1>2 DEF ChannelRecords
  <2>3. Kept(void, shut) BY <1>2, <2>1, <2>2 DEF Kept
  <2>4. "broken_pipe" \in Outcomes \ {"waiting"} BY DEF Outcomes
  <2> HIDE DEF shut
  <2> QED BY <1>1, <1>3, <2>1, <2>2, <2>3, <2>4, LeaveResult
<1>4. CASE r.get # "block" /\ chan' = [chan EXCEPT ![c] = closed] /\ UNCHANGED outcome
  <2>1. closed \in ChannelRecords /\ Good(closed)
    <3> HIDE DEF r
    <3> QED BY <1>2, <1>4, CloseGood
  <2>2. closed.life = "live" /\ closed.waiters = r.waiters /\ closed.buffered = r.buffered /\ closed.buffer = r.buffer
    BY <1>2 DEF ChannelRecords
  <2>3. Kept(void, closed) BY <1>2, <2>1, <2>2 DEF Kept
  <2> HIDE DEF closed
  <2>4. chan' \in [Chans -> ChannelRecords] /\ Records' /\ chan'[c] = closed /\ OthersKeep({c})
    BY <1>4, <2>1, <2>3, OneChanged
  <2>5. NobodyMoves BY <1>4, <2>2, <2>4 DEF NobodyMoves, OthersKeep
  <2>6. Types' BY <1>1, <1>4, <2>4 DEF Types
  <2> QED BY <2>4, <2>5, <2>6 DEF Result, WaitersMove
<1> QED BY <1>3, <1>4 DEF Close, Update

LEMMA CancelResult ==
  ASSUME Types, Records, UNCHANGED void, NEW c \in Chans, Cancel(c)
  PROVE  Result
<1> DEFINE q == Cancelled(chan[c])
<1>1. Usable(c) /\ UNCHANGED <<got, undefined>> /\ chan' = [chan EXCEPT ![c] = q] /\ Settle(Waiting(chan[c]), "canceled")
  BY DEF Cancel, Update
<1>2. chan[c] \in ChannelRecords /\ chan[c].life = "live" /\ Good(chan[c]) /\ (void => chan[c].buffered = Len(chan[c].buffer))
  BY <1>1, InUse
<1>3. q \in ChannelRecords /\ Good(q) /\ q.waiters = << >> /\ q.buffer = chan[c].buffer
      /\ q.buffered = chan[c].buffered /\ q.life = "live"
  BY <1>2, CancelledGood
<1>4. Kept(void, q) BY <1>2, <1>3 DEF Kept
<1>5. "canceled" \in Outcomes \ {"waiting"} BY DEF Outcomes
<1> HIDE DEF q
<1> QED BY <1>1, <1>3, <1>4, <1>5, LeaveResult

LEMMA ResetResult ==
  ASSUME Types, Records, UNCHANGED void, NEW c \in Chans, (~void /\ Reset(c)) \/ (void /\ VoidReset(c))
  PROVE  Result
<1> DEFINE r == chan[c]
           q == [ResetBase(r) EXCEPT !.buffer = << >>]
           z == [ResetBase(r) EXCEPT !.buffered = 0, !.buffer = << >>]
<1>1. /\ Usable(c) /\ UNCHANGED <<got, undefined>> /\ Settle(Waiting(r), "canceled")
      /\ (~void /\ chan' = [chan EXCEPT ![c] = q]) \/ (void /\ chan' = [chan EXCEPT ![c] = z])
  BY DEF Reset, VoidReset, Update
<1>2. r \in ChannelRecords /\ r.life = "live" /\ Good(r) BY <1>1, InUse
<1>3. "canceled" \in Outcomes \ {"waiting"} BY DEF Outcomes
<1>4. ASSUME NEW count \in Nat, chan' = [chan EXCEPT ![c] = Emptied(r, count)], void => count = 0
      PROVE  Result
  <2> DEFINE x == Emptied(r, count)
  <2>1. x \in ChannelRecords /\ Good(x) /\ x.waiters = << >> /\ x.buffer = << >> /\ x.buffered = count /\ x.life = "live"
    <3> HIDE DEF r
    <3> QED BY <1>2, <1>4, ResetGood
  <2>2. Kept(void, x) BY <1>4, <2>1 DEF Kept
  <2>3. chan' = [chan EXCEPT ![c] = x] BY <1>4
  <2> HIDE DEF x, r
  <2> QED BY <1>1, <1>3, <2>1, <2>2, <2>3, LeaveResult DEF r
<1>5. CASE ~void /\ chan' = [chan EXCEPT ![c] = q]
  <2>1. ResetBase(r) \in ChannelRecords /\ r.buffered \in Nat BY <1>2, Fields, ResetBaseType
  <2>2. ResetBase(r).buffered = r.buffered BY <1>2 DEF ResetBase, Cancelled, ChannelRecords
  <2>3. q = Emptied(r, r.buffered)
    <3>1. [ResetBase(r) EXCEPT !.buffer = << >>] = [ResetBase(r) EXCEPT !.buffered = r.buffered, !.buffer = << >>]
      BY <2>1, <2>2 DEF ChannelRecords
    <3> QED BY <3>1 DEF Emptied
  <2>4. chan' = [chan EXCEPT ![c] = Emptied(r, r.buffered)] /\ (void => r.buffered = 0) BY <1>5, <2>3
  <2> HIDE DEF q, r
  <2> QED BY <1>4, <2>1, <2>4
<1>6. CASE void /\ chan' = [chan EXCEPT ![c] = z]
  <2>1. chan' = [chan EXCEPT ![c] = Emptied(r, 0)] BY <1>6 DEF Emptied
  <2> HIDE DEF z, r
  <2> QED BY <1>4, <2>1
<1> QED BY <1>1, <1>5, <1>6

LEMMA ConstructResult ==
  ASSUME Types, Records, UNCHANGED void, NEW c \in Chans, Construct(c) \/ VoidConstruct(c)
  PROVE  Result
<1>1. PICK capacity \in Nat : chan[c].life = "none" /\ chan' = [chan EXCEPT ![c] = Fresh(capacity)]
                              /\ UNCHANGED <<outcome, got, undefined>>
  BY DEF Construct, VoidConstruct, ConstructWith, Update
<1> DEFINE q == Fresh(capacity)
<1>2. q \in ChannelRecords /\ Good(q) BY FreshGood
<1>3. q.buffered = Len(q.buffer) /\ q.waiters = << >> /\ q.life = "live" BY DEF Fresh
<1>4. Kept(void, q) BY <1>2, <1>3 DEF Kept
<1>5. chan[c].waiters = << >> BY <1>1 DEF Records, Kept
<1> HIDE DEF q
<1>6. chan' \in [Chans -> ChannelRecords] /\ Records' /\ chan'[c] = q /\ OthersKeep({c})
  BY <1>1, <1>2, <1>4, OneChanged DEF q
<1>7. NobodyMoves BY <1>1, <1>3, <1>5, <1>6 DEF NobodyMoves, OthersKeep
<1>8. Types' BY <1>1, <1>6 DEF Types
<1> QED BY <1>6, <1>7, <1>8 DEF Result, WaitersMove

LEMMA DestroyResult ==
  ASSUME Types, Records, UNCHANGED void, NEW c \in Chans, Destroy(c)
  PROVE  Result
<1>1. UNCHANGED <<got, undefined>> /\ chan' = [chan EXCEPT ![c] = Absent] /\ Settle(Waiting(chan[c]), "destroyed")
  BY DEF Destroy, Update
<1>2. Fresh(0) \in ChannelRecords BY FreshGood
<1>3. Absent \in ChannelRecords /\ Absent.waiters = << >> /\ Absent.life = "none"
  BY <1>2 DEF Absent, Fresh, ChannelRecords
<1>4. Kept(void, Absent) BY <1>3 DEF Kept
<1>5. "destroyed" \in Outcomes \ {"waiting"} BY DEF Outcomes
<1> QED BY <1>1, <1>3, <1>4, <1>5, LeaveResult

\* What is moved from keeps no waiters.
LEMMA MovedResult ==
  ASSUME Types, Records, UNCHANGED <<void, got, undefined>>, NEW c \in Chans, NEW d \in Chans, c # d, Usable(d),
         NEW q \in ChannelRecords, q.waiters = << >>, q.life = "moved",
         chan' = [chan EXCEPT ![c] = chan[d], ![d] = q], Settle(Waiting(chan[c]), "canceled")
  PROVE  Result
<1>1. chan'[c] = chan[d] /\ chan'[d] = q /\ (\A x \in Chans \ {c, d} : chan'[x] = chan[x])
      /\ chan' \in [Chans -> ChannelRecords]
  BY DEF Types
<1>2. Kept(void, q) BY DEF Kept
<1>3. Records'
  <2>1. \A x \in Chans : Kept(void', chan'[x]) BY <1>1, <1>2 DEF Records
  <2> QED BY <2>1 DEF Records, Kept, Good, GetTells, PutTells, Filled, RoomTold, ClosingTold, Waiting
<1>4. HandedOver(c, d) BY <1>1 DEF HandedOver, OthersKeep
<1>5. outcome' \in [Calls -> Outcomes] BY Settled DEF Outcomes
<1>6. Types' BY <1>1, <1>5 DEF Types
<1> QED BY <1>3, <1>4, <1>6 DEF Result, WaitersMove

LEMMA MoveConstructResult ==
  ASSUME Types, Records, UNCHANGED void, NEW c \in Chans, NEW d \in Chans,
         MoveConstruct(c, d) \/ VoidMoveConstruct(c, d)
  PROVE  Result
<1> DEFINE left  == [chan[d] EXCEPT !.waiters = << >>, !.life = "moved"]
           empty == [chan[d] EXCEPT !.waiters = << >>, !.buffered = 0, !.life = "moved"]
<1>1. Usable(d) /\ chan[c].life = "none" /\ UNCHANGED <<outcome, got, undefined>>
  BY DEF MoveConstruct, VoidMoveConstruct
<1>2. chan[d] \in ChannelRecords /\ c # d BY <1>1 DEF Usable, Types
<1>3. chan' = [chan EXCEPT ![c] = chan[d], ![d] = left] \/ chan' = [chan EXCEPT ![c] = chan[d], ![d] = empty]
  <2>1. chan'[c] = chan[d] /\ (chan'[d] = left \/ chan'[d] = empty) /\ (\A x \in Chans \ {c, d} : chan'[x] = chan[x])
        /\ DOMAIN chan' = Chans /\ chan' = [x \in Chans |-> chan'[x]]
    BY <1>2 DEF MoveConstruct, VoidMoveConstruct, Types
  <2> HIDE DEF left, empty
  <2> QED BY <1>2, <2>1 DEF Types
<1>4. << >> \in Seq(Calls) OBVIOUS
<1>5. left \in ChannelRecords /\ left.waiters = << >> /\ left.life = "moved" BY <1>2, <1>4 DEF ChannelRecords
<1>6. empty \in ChannelRecords /\ empty.waiters = << >> /\ empty.life = "moved" BY <1>2, <1>4 DEF ChannelRecords
<1>7. Settle(Waiting(chan[c]), "canceled")
  <2>1. chan[c] \in ChannelRecords /\ chan[c].waiters = << >> BY <1>1 DEF Records, Kept, Types
  <2>2. Waiting(chan[c]) = {} BY <2>1, Fields
  <2>3. outcome = [p \in Calls |-> outcome[p]] BY DEF Types
  <2> QED BY <1>1, <2>2, <2>3 DEF Settle
<1> HIDE DEF left, empty
<1> QED BY <1>1, <1>2, <1>3, <1>5, <1>6, <1>7, MovedResult

LEMMA MoveAssignResult ==
  ASSUME Types, Records, UNCHANGED void, NEW c \in Chans, NEW d \in Chans,
         MoveAssign(c, d) \/ VoidMoveAssign(c, d)
  PROVE  Result
<1> DEFINE target == ResetBase(chan[c])
           left  == [target EXCEPT !.life = "moved", !.buffer = << >>]
           empty == [target EXCEPT !.life = "moved", !.buffer = << >>, !.buffered = 0]
<1>1. /\ Usable(d) /\ c # d /\ UNCHANGED <<got, undefined>> /\ Settle(Waiting(chan[c]), "canceled")
      /\ chan' = [chan EXCEPT ![c] = chan[d], ![d] = left] \/ chan' = [chan EXCEPT ![c] = chan[d], ![d] = empty]
  BY DEF MoveAssign, VoidMoveAssign
<1>2. target \in ChannelRecords /\ target.waiters = << >>
  <2>1. chan[c] \in ChannelRecords BY DEF Types
  <2>2. ResetBase(chan[c]).waiters = << >> BY <2>1 DEF ResetBase, Cancelled, ChannelRecords
  <2> QED BY <2>1, <2>2, ResetBaseType
<1> HIDE DEF target
<1>3. << >> \in Seq(Puts) OBVIOUS
<1>4. left \in ChannelRecords /\ left.waiters = << >> /\ left.life = "moved" BY <1>2, <1>3 DEF ChannelRecords
<1>5. empty \in ChannelRecords /\ empty.waiters = << >> /\ empty.life = "moved" BY <1>2, <1>3 DEF ChannelRecords
<1> HIDE DEF left, empty
<1> QED BY <1>1, <1>4, <1>5, MovedResult

\* A get from nothing happens only where a reset dropped values.
LEMMA NothingResult ==
  ASSUME Types, Records, UNCHANGED void, NEW c \in Chans, NEW g \in Gets,
         (~void /\ GetFromNothing(c, g)) \/ (void /\ VoidGetWraps(c, g))
  PROVE  Result /\ undefined' /\ "reset" \in chan'[c].harm
<1>1. Usable(c) /\ chan[c].get = "buffer" /\ undefined' = TRUE /\ UNCHANGED <<chan, outcome, got>>
  BY DEF GetFromNothing, VoidGetWraps, MayGet
<1>2. chan[c] \in ChannelRecords /\ Good(chan[c]) /\ (void => chan[c].buffered = Len(chan[c].buffer)) BY <1>1, InUse
<1>3. chan[c].buffer = << >> BY <1>2, Fields DEF GetFromNothing, VoidGetWraps
<1>4. "reset" \in chan[c].harm BY <1>1, <1>2, <1>3 DEF Good, Filled
<1>5. NobodyMoves BY <1>1 DEF NobodyMoves, OthersKeep
<1>6. Types' BY <1>1 DEF Types
<1>7. Records' BY <1>1 DEF Records, Kept, Good, GetTells, PutTells, Filled, RoomTold, ClosingTold, Waiting
<1> QED BY <1>1, <1>4, <1>5, <1>6, <1>7 DEF Result, WaitersMove

----------------------------------------------------------------------------
(* Every step.                                                             *)

\* A call takes from nothing, which only a reset leads to.
TakesFromNothing(c, g) == (~void /\ GetFromNothing(c, g)) \/ (void /\ VoidGetWraps(c, g))

LEMMA StepResult ==
  ASSUME Types, Records, UNCHANGED void, NEW c \in Chans,
         BaseNext(c) \/ (~void /\ ValueNext(c)) \/ (void /\ VoidNext(c))
  PROVE  Result
<1>1. CASE BaseNext(c) BY <1>1, CloseResult, CancelResult, DestroyResult DEF BaseNext
<1>2. CASE ~void /\ ValueNext(c)
  <2>1. ASSUME NEW o \in Puts, Put(c, o) PROVE Result
    <3>1. o \in Calls BY DEF Calls
    <3>2. CASE PutWouldBlock(c, o) \/ PutRefused(c, o) BY <3>2, EndedPutResult
    <3>3. CASE PutWaits(c, o) BY <3>1, <3>3, WaitsResult
    <3>4. CASE PutBuffers(c, o) BY <1>2, <3>4, PutBuffersResult
    <3>5. CASE PutToGetter(c, o) BY <3>5, PutToGetterResult
    <3> QED BY <2>1, <3>2, <3>3, <3>4, <3>5 DEF Put
  <2>2. ASSUME NEW g \in Gets, Get(c, g) PROVE Result
    <3>1. g \in Calls BY DEF Calls
    <3>2. CASE GetWouldBlock(c, g) \/ GetRefused(c, g) BY <3>2, EndedGetResult
    <3>3. CASE GetWaits(c, g) BY <3>1, <3>3, WaitsResult
    <3>4. CASE GetBuffered(c, g) BY <1>2, <3>4, GetBufferedResult
    <3>5. CASE GetFromNothing(c, g) BY <1>2, <3>5, NothingResult
    <3>6. CASE GetFromPutter(c, g) BY <3>6, GetFromPutterResult
    <3> QED BY <2>2, <3>2, <3>3, <3>4, <3>5, <3>6 DEF Get
  <2>3. CASE Reset(c) BY <1>2, <2>3, ResetResult
  <2>4. CASE Construct(c) BY <2>4, ConstructResult
  <2>5. ASSUME NEW d \in Chans, MoveConstruct(c, d) PROVE Result BY <2>5, MoveConstructResult
  <2>6. ASSUME NEW d \in Chans, MoveAssign(c, d) PROVE Result BY <2>6, MoveAssignResult
  <2> QED BY <1>2, <2>1, <2>2, <2>3, <2>4, <2>5, <2>6 DEF ValueNext
<1>3. CASE void /\ VoidNext(c)
  <2>1. ASSUME NEW o \in Puts, VoidPut(c, o) \/ VoidStartPut(c, o) PROVE Result
    <3>1. o \in Calls BY DEF Calls
    <3>2. CASE PutWouldBlock(c, o) \/ PutRefused(c, o) BY <3>2, EndedPutResult
    <3>3. CASE PutWaits(c, o) BY <3>1, <3>3, WaitsResult
    <3>4. CASE VoidPutBuffers(c, o) BY <1>3, <3>4, VoidPutBuffersResult
    <3>5. CASE PutToGetter(c, o) BY <3>5, PutToGetterResult
    <3> QED BY <2>1, <3>2, <3>3, <3>4, <3>5 DEF VoidPut, VoidStartPut
  <2>2. ASSUME NEW g \in Gets, VoidGet(c, g) \/ VoidStartGet(c, g) PROVE Result
    <3>1. g \in Calls BY DEF Calls
    <3>2. CASE GetWouldBlock(c, g) \/ GetRefused(c, g) BY <3>2, EndedGetResult
    <3>3. CASE GetWaits(c, g) BY <3>1, <3>3, WaitsResult
    <3>4. CASE VoidGetBuffered(c, g) BY <1>3, <3>4, VoidGetBufferedResult
    <3>5. CASE VoidGetWraps(c, g) BY <1>3, <3>5, NothingResult
    <3>6. CASE GetFromPutter(c, g) BY <3>6, GetFromPutterResult
    <3> QED BY <2>2, <3>2, <3>3, <3>4, <3>5, <3>6 DEF VoidGet, VoidStartGet
  <2>3. CASE VoidReset(c) BY <1>3, <2>3, ResetResult
  <2>4. CASE VoidConstruct(c) BY <2>4, ConstructResult
  <2>5. ASSUME NEW d \in Chans, VoidMoveConstruct(c, d) PROVE Result BY <2>5, MoveConstructResult
  <2>6. ASSUME NEW d \in Chans, VoidMoveAssign(c, d) PROVE Result BY <2>6, MoveAssignResult
  <2> QED BY <1>3, <2>1, <2>2, <2>3, <2>4, <2>5, <2>6 DEF VoidNext
<1> QED BY <1>1, <1>2, <1>3

\* No call is made after one that took from nothing.
LEMMA Defined ==
  ASSUME Types, Next
  PROVE  /\ ~undefined
         /\ undefined' => \E c \in Chans, g \in Gets : TakesFromNothing(c, g)
<1>1. PICK c \in Chans : BaseNext(c) \/ (~void /\ ValueNext(c)) \/ (void /\ VoidNext(c)) BY DEF Next
<1>2. CASE BaseNext(c) BY <1>2 DEF BaseNext, Close, Cancel, Destroy, Usable
<1>3. CASE ~void /\ ValueNext(c)
  <2>1. CASE \E g \in Gets : GetFromNothing(c, g)
    BY <1>3, <2>1 DEF TakesFromNothing, GetFromNothing, MayGet, Usable
  <2>2. CASE \E o \in Puts : Put(c, o)
    BY <2>2 DEF Put, PutWouldBlock, PutWaits, PutBuffers, PutToGetter, PutRefused, MayPut, Usable
  <2>3. CASE \E g \in Gets : GetWouldBlock(c, g) \/ GetWaits(c, g) \/ GetBuffered(c, g) \/ GetFromPutter(c, g) \/ GetRefused(c, g)
    BY <2>3 DEF GetWouldBlock, GetWaits, GetBuffered, GetFromPutter, GetRefused, MayGet, Usable
  <2>4. CASE Reset(c) \/ Construct(c) BY <2>4 DEF Reset, Construct, ConstructWith, Usable
  <2>5. CASE \E d \in Chans : MoveConstruct(c, d) \/ MoveAssign(c, d)
    BY <2>5 DEF MoveConstruct, MoveAssign, Usable
  <2> QED BY <1>3, <2>1, <2>2, <2>3, <2>4, <2>5 DEF ValueNext, Get
<1>4. CASE void /\ VoidNext(c)
  <2>1. CASE \E g \in Gets : VoidGetWraps(c, g)
    BY <1>4, <2>1 DEF TakesFromNothing, VoidGetWraps, MayGet, Usable
  <2>2. CASE \E o \in Puts : VoidPut(c, o) \/ VoidStartPut(c, o)
    BY <2>2 DEF VoidPut, VoidStartPut, PutWouldBlock, PutWaits, VoidPutBuffers, PutToGetter, PutRefused, MayPut, Usable
  <2>3. CASE \E g \in Gets : GetWouldBlock(c, g) \/ GetWaits(c, g) \/ VoidGetBuffered(c, g) \/ GetFromPutter(c, g) \/ GetRefused(c, g)
    <3>1. PICK g \in Gets : GetWouldBlock(c, g) \/ GetWaits(c, g) \/ VoidGetBuffered(c, g) \/ GetFromPutter(c, g) \/ GetRefused(c, g)
      BY <2>3
    <3>2. CASE VoidGetBuffered(c, g)
      <4>1. Usable(c) /\ UNCHANGED undefined BY <3>2 DEF VoidGetBuffered, MayGet
      <4> QED BY <4>1 DEF Usable
    <3>3. CASE GetWouldBlock(c, g) \/ GetWaits(c, g) \/ GetFromPutter(c, g) \/ GetRefused(c, g)
      <4>1. Usable(c) /\ UNCHANGED undefined BY <3>3 DEF GetWouldBlock, GetWaits, GetFromPutter, GetRefused, MayGet
      <4> QED BY <4>1 DEF Usable
    <3> QED BY <3>1, <3>2, <3>3
  <2>4. CASE VoidReset(c) \/ VoidConstruct(c) BY <2>4 DEF VoidReset, VoidConstruct, ConstructWith, Usable
  <2>5. CASE \E d \in Chans : VoidMoveConstruct(c, d) \/ VoidMoveAssign(c, d)
    BY <2>5 DEF VoidMoveConstruct, VoidMoveAssign, Usable
  <2> QED BY <1>4, <2>1, <2>2, <2>3, <2>4, <2>5 DEF VoidNext, VoidGet, VoidStartGet
<1> QED BY <1>1, <1>2, <1>3, <1>4

\* The queues of waiters: an element is in one place.
LEMMA JoinsKeeps ==
  ASSUME Types, Told, Apart, Once, Types', NEW c \in Chans, NEW p \in Calls, Joins(c, p)
  PROVE  Told' /\ Apart' /\ Once'
<1>1. /\ chan'[c].waiters = Append(chan[c].waiters, p) /\ outcome[p] = "unused"
      /\ \A d \in Chans \ {c} : chan'[d].waiters = chan[d].waiters
      /\ \A x \in Calls : outcome'[x] = IF x \in {p} THEN "waiting" ELSE outcome[x]
  BY Settled DEF Joins, OthersKeep, Outcomes
<1>2. \A d \in Chans : chan[d].waiters \in Seq(Calls) BY Fields DEF Types
<1>3. Waiting(chan'[c]) = Waiting(chan[c]) \cup {p} BY <1>1, <1>2, RangeAppend DEF Waiting
<1>4. \A d \in Chans \ {c} : Waiting(chan'[d]) = Waiting(chan[d]) BY <1>1 DEF Waiting
<1>5. \A d \in Chans : p \notin Waiting(chan[d]) BY <1>1 DEF Told
<1>6. \A x \in Calls : outcome'[x] = "waiting" <=> \E d \in Chans : x \in Waiting(chan'[d])
  BY <1>1, <1>3, <1>4 DEF Told
<1>7. \A x, y \in Chans : x # y => Waiting(chan'[x]) \cap Waiting(chan'[y]) = {} BY <1>3, <1>4, <1>5 DEF Apart
<1>8. \A d \in Chans : NoRepeat(chan'[d].waiters)
  <2>1. NoRepeat(chan'[c].waiters)
    <3> DEFINE q == chan[c].waiters
    <3>1. q \in Seq(Calls) /\ NoRepeat(q) /\ p \notin Range(q) BY <1>2, <1>5 DEF Once, Waiting
    <3> HIDE DEF q
    <3>2. NoRepeat(Append(q, p)) BY <3>1, AppendNoRepeat
    <3> QED BY <1>1, <3>2 DEF q
  <2> QED BY <1>1, <2>1 DEF Once
<1> QED BY <1>6, <1>7, <1>8 DEF Told, Apart, Once, Waiting, NoRepeat

LEMMA FirstServedKeeps ==
  ASSUME Types, Told, Apart, Once, Types', NEW c \in Chans, NEW p \in Calls, FirstServed(c, p)
  PROVE  Told' /\ Apart' /\ Once'
<1> DEFINE q == chan[c].waiters
<1>1. /\ q # << >> /\ chan'[c].waiters = Tail(q) /\ outcome[p] = "unused"
      /\ \A d \in Chans \ {c} : chan'[d].waiters = chan[d].waiters
      /\ \A x \in Calls : outcome'[x] = IF x \in {p, Head(q)} THEN "success" ELSE outcome[x]
  BY Settled DEF FirstServed, OthersKeep, Outcomes
<1>2. q \in Seq(Calls) /\ NoRepeat(q) BY Fields DEF Types, Once
<1>3. Waiting(chan[c]) = Waiting(chan'[c]) \cup {Head(q)} /\ Head(q) \notin Waiting(chan'[c]) /\ NoRepeat(Tail(q))
  <2> HIDE DEF q
  <2>1. Range(q) = {Head(q)} \cup Range(Tail(q)) BY <1>1, <1>2, RangeTail
  <2>2. Head(q) \notin Range(Tail(q)) /\ NoRepeat(Tail(q)) BY <1>1, <1>2, TailNoRepeat
  <2> QED BY <1>1, <2>1, <2>2 DEF Waiting, q
<1>4. \A d \in Chans \ {c} : Waiting(chan'[d]) = Waiting(chan[d]) BY <1>1 DEF Waiting
<1>5. \A d \in Chans : p \notin Waiting(chan[d]) BY <1>1 DEF Told
<1>6. \A d \in Chans \ {c} : Head(q) \notin Waiting(chan[d]) BY <1>3 DEF Apart
<1> HIDE DEF q
<1>7. \A x \in Calls : outcome'[x] = "waiting" <=> \E d \in Chans : x \in Waiting(chan'[d])
  <2> SUFFICES ASSUME NEW x \in Calls
               PROVE  outcome'[x] = "waiting" <=> \E d \in Chans : x \in Waiting(chan'[d])
    OBVIOUS
  <2>1. CASE x \in {p, Head(q)} BY <1>1, <1>3, <1>4, <1>5, <1>6, <2>1
  <2>2. CASE x \notin {p, Head(q)} BY <1>1, <1>3, <1>4, <2>2 DEF Told
  <2> QED BY <2>1, <2>2
<1>8. \A x, y \in Chans : x # y => Waiting(chan'[x]) \cap Waiting(chan'[y]) = {} BY <1>3, <1>4 DEF Apart
<1>9. \A d \in Chans : NoRepeat(chan'[d].waiters) BY <1>1, <1>3 DEF Once
<1> QED BY <1>7, <1>8, <1>9 DEF Told, Apart, Once, Waiting, NoRepeat

LEMMA AllLeaveKeeps ==
  ASSUME Types, Told, Apart, Once, Types', NEW c \in Chans, NEW result \in Outcomes \ {"waiting"}, AllLeave(c, result)
  PROVE  Told' /\ Apart' /\ Once'
<1>1. /\ chan'[c].waiters = << >>
      /\ \A d \in Chans \ {c} : chan'[d].waiters = chan[d].waiters
      /\ \A x \in Calls : outcome'[x] = IF x \in Waiting(chan[c]) THEN result ELSE outcome[x]
  BY Settled DEF AllLeave, OthersKeep
<1>2. Waiting(chan'[c]) = {} BY <1>1, Fields DEF Types
<1>3. \A d \in Chans \ {c} : Waiting(chan'[d]) = Waiting(chan[d]) BY <1>1 DEF Waiting
<1>4. \A x \in Calls : outcome'[x] = "waiting" <=> \E d \in Chans : x \in Waiting(chan'[d])
  BY <1>1, <1>2, <1>3 DEF Told, Apart
<1>5. \A x, y \in Chans : x # y => Waiting(chan'[x]) \cap Waiting(chan'[y]) = {} BY <1>2, <1>3 DEF Apart
<1>6. \A d \in Chans : NoRepeat(chan'[d].waiters)
  <2>1. NoRepeat(<< >>) BY DEF NoRepeat
  <2> QED BY <1>1, <2>1 DEF Once
<1> QED BY <1>4, <1>5, <1>6 DEF Told, Apart, Once, Waiting, NoRepeat

LEMMA HandedOverKeeps ==
  ASSUME Types, Told, Apart, Once, Types', NEW c \in Chans, NEW d \in Chans, HandedOver(c, d)
  PROVE  Told' /\ Apart' /\ Once'
<1>1. /\ c # d /\ chan'[c].waiters = chan[d].waiters /\ chan'[d].waiters = << >>
      /\ \A x \in Chans \ {c, d} : chan'[x].waiters = chan[x].waiters
      /\ \A x \in Calls : outcome'[x] = IF x \in Waiting(chan[c]) THEN "canceled" ELSE outcome[x]
  BY Settled DEF HandedOver, OthersKeep, Outcomes
<1>2. Waiting(chan'[d]) = {} BY <1>1, Fields DEF Types
<1>3. Waiting(chan'[c]) = Waiting(chan[d]) /\ \A x \in Chans \ {c, d} : Waiting(chan'[x]) = Waiting(chan[x])
  BY <1>1 DEF Waiting
<1>4. \A x \in Calls : outcome'[x] = "waiting" <=> \E y \in Chans : x \in Waiting(chan'[y])
  <2> SUFFICES ASSUME NEW x \in Calls
               PROVE  outcome'[x] = "waiting" <=> \E y \in Chans : x \in Waiting(chan'[y])
    OBVIOUS
  <2>1. CASE x \in Waiting(chan[c])
    BY <1>1, <1>2, <1>3, <2>1 DEF Apart
  <2>2. CASE x \notin Waiting(chan[c])
    <3>1. (\E y \in Chans : x \in Waiting(chan'[y])) <=> \E y \in Chans : x \in Waiting(chan[y])
      BY <1>1, <1>2, <1>3, <2>2
    <3> QED BY <1>1, <2>2, <3>1 DEF Told
  <2> QED BY <2>1, <2>2
<1>5. \A x, y \in Chans : x # y => Waiting(chan'[x]) \cap Waiting(chan'[y]) = {} BY <1>1, <1>2, <1>3 DEF Apart
<1>6. \A x \in Chans : NoRepeat(chan'[x].waiters)
  <2>1. NoRepeat(<< >>) BY DEF NoRepeat
  <2> QED BY <1>1, <2>1 DEF Once
<1> QED BY <1>4, <1>5, <1>6 DEF Told, Apart, Once, Waiting, NoRepeat

LEMMA NobodyMovesKeeps ==
  ASSUME Told, Apart, Once, NobodyMoves
  PROVE  Told' /\ Apart' /\ Once'
<1>1. \A d \in Chans : chan'[d].waiters = chan[d].waiters BY DEF NobodyMoves, OthersKeep
<1>2. \A x \in Calls : outcome'[x] = "waiting" <=> outcome[x] = "waiting" BY DEF NobodyMoves
<1>3. \A d \in Chans : Waiting(chan'[d]) = Waiting(chan[d]) BY <1>1 DEF Waiting
<1>4. \A x \in Calls : outcome'[x] = "waiting" <=> \E d \in Chans : x \in Waiting(chan'[d]) BY <1>2, <1>3 DEF Told
<1>5. \A x, y \in Chans : x # y => Waiting(chan'[x]) \cap Waiting(chan'[y]) = {} BY <1>3 DEF Apart
<1>6. \A d \in Chans : NoRepeat(chan'[d].waiters) BY <1>1 DEF Once
<1> QED BY <1>4, <1>5, <1>6 DEF Told, Apart, Once, Waiting, NoRepeat

----------------------------------------------------------------------------
(* The inductive invariant and the theorems.                               *)

TakenAfterReset == undefined => \E c \in Chans : "reset" \in chan[c].harm

ChannelInv == Types /\ Records /\ Told /\ Apart /\ Once /\ TakenAfterReset

LEMMA InitKept == Init => ChannelInv
<1> SUFFICES ASSUME Init PROVE ChannelInv OBVIOUS
<1>1. Fresh(0) \in ChannelRecords BY FreshGood
<1>2. Absent \in ChannelRecords /\ Absent.life = "none" /\ Absent.waiters = << >>
  BY <1>1 DEF Absent, Fresh, ChannelRecords
<1>3. Waiting(Absent) = {} BY <1>2, Fields
<1> HIDE DEF Absent
<1>4. \A c \in Chans : chan[c] = Absent BY DEF Init
<1>5. Types
  <2>1. chan \in [Chans -> ChannelRecords] BY <1>2 DEF Init
  <2>2. outcome \in [Calls -> Outcomes] BY DEF Init, Outcomes
  <2>3. got \in [Gets -> Puts \cup {NoValue}] BY DEF Init
  <2> QED BY <2>1, <2>2, <2>3 DEF Init, Types
<1>6. Records BY <1>2, <1>4 DEF Records, Kept
<1>7. Told /\ Apart BY <1>3, <1>4 DEF Told, Apart, Init
<1>8. Once BY <1>2, <1>4 DEF Once, NoRepeat
<1>9. TakenAfterReset BY DEF Init, TakenAfterReset
<1> QED BY <1>5, <1>6, <1>7, <1>8, <1>9 DEF ChannelInv

LEMMA NextKeeps == ChannelInv /\ [Next]_vars => ChannelInv'
<1> SUFFICES ASSUME ChannelInv, [Next]_vars PROVE ChannelInv' OBVIOUS
<1> USE DEF ChannelInv
<1>1. CASE Next
  <2>1. PICK c \in Chans : UNCHANGED void /\ (BaseNext(c) \/ (~void /\ ValueNext(c)) \/ (void /\ VoidNext(c)))
    BY <1>1 DEF Next
  <2>2. Result BY <2>1, StepResult
  <2>3. Types' /\ Records' /\ WaitersMove BY <2>2 DEF Result
  <2>4. Told' /\ Apart' /\ Once'
    BY <2>3, NobodyMovesKeeps, JoinsKeeps, FirstServedKeeps, AllLeaveKeeps, HandedOverKeeps DEF WaitersMove
  <2>5. ASSUME undefined' PROVE \E d \in Chans : "reset" \in chan'[d].harm
    <3>1. PICK d \in Chans, g \in Gets : TakesFromNothing(d, g) BY <1>1, <2>5, Defined
    <3>2. "reset" \in chan'[d].harm BY <2>1, <3>1, NothingResult DEF TakesFromNothing
    <3> QED BY <3>2
  <2>6. TakenAfterReset' BY <2>5 DEF TakenAfterReset
  <2> QED BY <2>3, <2>4, <2>6
<1>2. CASE UNCHANGED vars
  <2>1. Types' BY <1>2 DEF Types, vars
  <2>2. Records' BY <1>2 DEF Records, Kept, Good, GetTells, PutTells, Filled, RoomTold, ClosingTold, Waiting, vars
  <2>3. Told' /\ Apart' /\ Once' BY <1>2 DEF Told, Apart, Once, Waiting, vars
  <2>4. TakenAfterReset' BY <1>2 DEF TakenAfterReset, vars
  <2> QED BY <2>1, <2>2, <2>3, <2>4
<1> QED BY <1>1, <1>2

LEMMA ChannelInvariant == Spec => []ChannelInv
BY InitKept, NextKeeps, PTL DEF Spec

LEMMA InvTyped == ChannelInv => TypeOK
<1> SUFFICES ASSUME ChannelInv PROVE TypeOK OBVIOUS
<1>1. Types /\ Records /\ Told BY DEF ChannelInv
<1>2. \A c \in Chans : Waiting(chan[c]) \subseteq Puts \/ Waiting(chan[c]) \subseteq Gets
  <2> SUFFICES ASSUME NEW c \in Chans
               PROVE  Waiting(chan[c]) \subseteq Puts \/ Waiting(chan[c]) \subseteq Gets
    OBVIOUS
  <2>1. chan[c] \in ChannelRecords BY <1>1 DEF Types
  <2>2. CASE chan[c].life = "live"
    <3>1. GetTells(chan[c]) /\ chan[c].get \in States BY <1>1, <2>1, <2>2, Fields DEF Records, Kept, Good
    <3> QED BY <3>1 DEF GetTells, States
  <2>3. CASE chan[c].life # "live" BY <1>1, <2>1, <2>3, Fields DEF Records, Kept
  <2> QED BY <2>2, <2>3
<1>3. {p \in Calls : outcome[p] = "waiting"} = UNION {Waiting(chan[c]) : c \in Chans}
  <2>1. \A c \in Chans : Waiting(chan[c]) \subseteq Calls BY <1>1, Fields DEF Types
  <2> QED BY <1>1, <2>1 DEF Told
<1> QED BY <1>1, <1>2, <1>3 DEF Types, TypeOK

\* Whatever is called, on channels that were moved from, closed or reset too,
\* the queues of waiters never mix puts and gets, and hold exactly the calls
\* that wait (channel_base.h:102-233, channel.h:146-461).
THEOREM ChannelTypeCorrect == Spec => []TypeOK
BY ChannelInvariant, InvTyped, PTL

\* What the states of a channel tell, see StatesMatchContents.
LEMMA StatesTell ==
  ASSUME NEW r \in ChannelRecords, Good(r), r.harm = {}
  PROVE  /\ r.get = IF r.buffer # << >> THEN "buffer"
                    ELSE IF Waiting(r) \cap Puts # {} THEN "waiter"
                    ELSE IF r.put = "closed" THEN "closed" ELSE "block"
         /\ r.put # "closed" =>
              r.put = IF Waiting(r) \cap Gets # {} THEN "waiter"
                      ELSE IF Len(r.buffer) < r.capacity THEN "buffer" ELSE "block"
         /\ Waiting(r) \cap Gets # {} => r.buffer = << >> /\ r.put # "closed"
         /\ Waiting(r) \cap Puts # {} => Len(r.buffer) = r.capacity
<1>1. r.get \in States /\ r.put \in States /\ r.capacity \in Nat /\ Len(r.buffer) \in Nat BY Fields
<1>2. GetTells(r) /\ PutTells(r) /\ Filled(r) /\ RoomTold(r) BY DEF Good
<1>3. Puts \cap Gets = {} /\ "reset" \notin r.harm OBVIOUS
<1>4. CASE r.get = "buffer"
  <2>1. r.buffer # << >> /\ Waiting(r) \subseteq Puts BY <1>2, <1>3, <1>4 DEF Filled, GetTells
  <2>2. Waiting(r) \cap Gets = {} /\ r.put # "waiter" BY <1>2, <1>3, <2>1 DEF PutTells
  <2> QED BY <1>1, <1>2, <1>4, <2>1, <2>2 DEF RoomTold, States
<1>5. CASE r.get = "waiter"
  <2>1. r.buffer = << >> /\ Waiting(r) \subseteq Puts /\ Waiting(r) # {} BY <1>2, <1>5 DEF GetTells
  <2>2. Waiting(r) \cap Gets = {} /\ Waiting(r) \cap Puts # {} /\ r.put # "waiter" BY <1>2, <1>3, <2>1 DEF PutTells
  <2> QED BY <1>1, <1>2, <1>5, <2>1, <2>2 DEF RoomTold, States
<1>6. CASE r.get = "closed"
  <2>1. r.buffer = << >> /\ Waiting(r) = {} /\ r.put = "closed" BY <1>2, <1>6 DEF GetTells
  <2> QED BY <1>6, <2>1
<1>7. CASE r.get = "block"
  <2>1. r.buffer = << >> /\ Waiting(r) \subseteq Gets /\ r.put # "closed" BY <1>2, <1>7 DEF GetTells, RoomTold
  <2>2. Waiting(r) \cap Puts = {} BY <1>3, <2>1
  <2>3. CASE Waiting(r) = {}
    <3>1. r.put \in {"block", "buffer"} BY <1>1, <1>2, <2>1, <2>3 DEF PutTells, States
    <3> QED BY <1>1, <1>2, <1>7, <2>1, <2>2, <2>3, <3>1 DEF RoomTold
  <2>4. CASE Waiting(r) # {}
    <3>1. ~(Waiting(r) \subseteq Puts) BY <2>2, <2>4
    <3>2. r.put = "waiter" BY <1>1, <1>2, <2>1, <2>4, <3>1 DEF PutTells, States
    <3> QED BY <1>7, <2>1, <2>2, <2>4, <3>2
  <2> QED BY <2>3, <2>4
<1> QED BY <1>1, <1>4, <1>5, <1>6, <1>7 DEF States

LEMMA SoundGood ==
  ASSUME ChannelInv, NEW c \in Chans, Sound(c)
  PROVE  chan[c] \in ChannelRecords /\ Good(chan[c]) /\ chan[c].harm = {}
BY DEF ChannelInv, Types, Records, Kept, Sound

LEMMA InvMatches == ChannelInv => StatesMatchContents
<1> SUFFICES ASSUME ChannelInv PROVE StatesMatchContents OBVIOUS
<1>1. TypeOK BY InvTyped
<1>2. ASSUME NEW c \in Chans, Sound(c)
      PROVE  LET r == chan[c] IN
        /\ r.get = IF r.buffer # << >> THEN "buffer"
                   ELSE IF Waiting(r) \cap Puts # {} THEN "waiter"
                   ELSE IF r.put = "closed" THEN "closed" ELSE "block"
        /\ r.put # "closed" =>
             r.put = IF Waiting(r) \cap Gets # {} THEN "waiter"
                     ELSE IF Len(r.buffer) < r.capacity THEN "buffer" ELSE "block"
  BY <1>2, SoundGood, StatesTell
<1> QED BY <1>1, <1>2 DEF StatesMatchContents

LEMMA InvWaits == ChannelInv => NobodyWaitsInVain
<1> SUFFICES ASSUME ChannelInv, NEW c \in Chans, Sound(c)
             PROVE  LET r == chan[c] IN
               /\ Waiting(r) \cap Gets # {} => r.buffer = << >> /\ r.put # "closed"
               /\ Waiting(r) \cap Puts # {} => Len(r.buffer) = r.capacity
  BY DEF NobodyWaitsInVain
<1> QED BY SoundGood, StatesTell

\* What the code tests instead of the contents tells the contents: for every
\* capacity and every sequence of calls, until a call that is harmful.
THEOREM ChannelStatesMatch == Spec => []StatesMatchContents
BY ChannelInvariant, InvMatches, PTL

\* On a sound channel nobody waits for what is there.
THEOREM ChannelNobodyWaits == Spec => []NobodyWaitsInVain
BY ChannelInvariant, InvWaits, PTL

\* A get takes from nothing only after a reset that dropped values.
THEOREM ChannelDefined == Spec => []DefinedUnlessReset
<1>1. ChannelInv => DefinedUnlessReset BY DEF ChannelInv, TakenAfterReset, DefinedUnlessReset
<1> QED BY <1>1, ChannelInvariant, PTL

----------------------------------------------------------------------------
(* Two sequences behind each other.                                        *)

AddsBehind(a, b, e) == a \o Append(b, e) = Append(a \o b, e)

LEMMA AppendBehind ==
  ASSUME NEW S, NEW a \in Seq(S), NEW b \in Seq(S), NEW e \in S
  PROVE  AddsBehind(a, b, e)
<1>1. <<e>> \in Seq(S) /\ a \o b \in Seq(S) OBVIOUS
<1>2. Append(b, e) = b \o <<e>> /\ Append(a \o b, e) = (a \o b) \o <<e>> BY <1>1, AppendIsConcat
<1>3. (a \o b) \o <<e>> = a \o (b \o <<e>>) BY <1>1, ConcatAssociative
<1> QED BY <1>2, <1>3 DEF AddsBehind

LEMMA FirstOfTwo ==
  ASSUME NEW S, NEW a \in Seq(S), NEW b \in Seq(S), a # << >>
  PROVE  a \o b # << >> /\ Head(a \o b) = Head(a) /\ Tail(a \o b) = Tail(a) \o b
<1> DEFINE n == Len(a)
           m == Len(b)
<1>1. n \in Nat /\ m \in Nat /\ n > 0 BY LenProperties, EmptySeq
<1>2. /\ a \o b \in Seq(S) /\ Len(a \o b) = n + m
      /\ \A i \in 1 .. n + m : (a \o b)[i] = IF i <= n THEN a[i] ELSE b[i - n]
  BY ConcatProperties
<1>3. /\ Head(a) = a[1] /\ Tail(a) \in Seq(S) /\ Len(Tail(a)) = n - 1
      /\ \A i \in 1 .. Len(Tail(a)) : Tail(a)[i] = a[i + 1]
  BY HeadTailProperties
<1>4. a \o b # << >> BY <1>1, <1>2, EmptySeq
<1>5. /\ Head(a \o b) = (a \o b)[1] /\ Tail(a \o b) \in Seq(S) /\ Len(Tail(a \o b)) = n + m - 1
      /\ \A i \in 1 .. Len(Tail(a \o b)) : Tail(a \o b)[i] = (a \o b)[i + 1]
  BY <1>2, <1>4, HeadTailProperties
<1>6. /\ Tail(a) \o b \in Seq(S) /\ Len(Tail(a) \o b) = n - 1 + m
      /\ \A i \in 1 .. n - 1 + m : (Tail(a) \o b)[i] = IF i <= n - 1 THEN Tail(a)[i] ELSE b[i - (n - 1)]
  BY <1>3, ConcatProperties
<1> HIDE DEF n, m
<1>7. Head(a \o b) = Head(a) BY <1>1, <1>2, <1>3, <1>5
<1>8. \A i \in 1 .. Len(Tail(a \o b)) : Tail(a \o b)[i] = (Tail(a) \o b)[i]
  <2> SUFFICES ASSUME NEW i \in 1 .. n + m - 1 PROVE Tail(a \o b)[i] = (Tail(a) \o b)[i] BY <1>5
  <2>1. i + 1 \in 1 .. n + m /\ i \in 1 .. n - 1 + m /\ i \in Int BY <1>1
  <2>2. Tail(a \o b)[i] = IF i + 1 <= n THEN a[i + 1] ELSE b[i + 1 - n] BY <1>1, <1>2, <1>5, <2>1
  <2>3. (Tail(a) \o b)[i] = IF i <= n - 1 THEN Tail(a)[i] ELSE b[i - (n - 1)] BY <1>6, <2>1
  <2>4. i <= n - 1 => i \in 1 .. Len(Tail(a)) BY <1>1, <1>3, <2>1
  <2>5. i <= n - 1 => Tail(a)[i] = a[i + 1] BY <1>3, <2>4
  <2>6. (i + 1 <= n <=> i <= n - 1) /\ i + 1 - n = i - (n - 1) BY <1>1, <2>1
  <2> QED BY <2>2, <2>3, <2>5, <2>6
<1>9. Len(Tail(a \o b)) = Len(Tail(a) \o b) BY <1>1, <1>5, <1>6
<1>10. Tail(a \o b) = Tail(a) \o b BY <1>5, <1>6, <1>8, <1>9, SeqEqual
<1> QED BY <1>4, <1>7, <1>10

Parts(both, a, b) ==
  SubSeq(both, 1, Len(a)) = a /\ SubSeq(both, Len(a) + 1, Len(both)) = b /\ Len(both) = Len(a) + Len(b)

LEMMA PartsOfTwo ==
  ASSUME NEW S, NEW a \in Seq(S), NEW b \in Seq(S), NEW both, both = a \o b
  PROVE  Parts(both, a, b)
<1> DEFINE n == Len(a)
           m == Len(b)
<1>1. n \in Nat /\ m \in Nat BY LenProperties
<1>2. /\ both \in Seq(S) /\ Len(both) = n + m
      /\ \A i \in 1 .. n + m : both[i] = IF i <= n THEN a[i] ELSE b[i - n]
  BY ConcatProperties
<1>3. \A i \in 1 .. n + m : both[i] \in S BY <1>2, ElementOfSeq
<1>4. SubSeq(both, 1, n) = a
  <2> DEFINE s == SubSeq(both, 1, n)
  <2>1. \A i \in 1 .. n : i \in 1 .. n + m BY <1>1
  <2>2. \A i \in 1 .. n : both[i] \in S BY <1>3, <2>1
  <2>3. /\ s \in Seq(S) /\ Len(s) = IF 1 <= n THEN n - 1 + 1 ELSE 0
        /\ \A i \in 1 .. n - 1 + 1 : s[i] = both[1 + i - 1]
    BY <1>1, <2>2, SubSeqProperties
  <2> HIDE DEF s
  <2>4. Len(s) = n
    <3> HIDE DEF n
    <3> QED BY <1>1, <2>3
  <2>5. \A i \in 1 .. Len(s) : s[i] = a[i]
    <3> HIDE DEF n, m
    <3> SUFFICES ASSUME NEW i \in 1 .. n PROVE s[i] = a[i] BY <2>4
    <3>1. i \in 1 .. n - 1 + 1 /\ 1 + i - 1 = i /\ i <= n BY <1>1
    <3> QED BY <1>2, <2>1, <2>3, <3>1
  <2> QED BY <2>3, <2>4, <2>5, SeqEqual DEF s
<1>5. SubSeq(both, n + 1, n + m) = b
  <2> DEFINE s == SubSeq(both, n + 1, n + m)
  <2>1. \A i \in n + 1 .. n + m : i \in 1 .. n + m BY <1>1
  <2>2. \A i \in n + 1 .. n + m : both[i] \in S BY <1>3, <2>1
  <2>0. n + 1 \in Int /\ n + m \in Int BY <1>1
  <2>3. /\ s \in Seq(S) /\ Len(s) = IF n + 1 <= n + m THEN n + m - (n + 1) + 1 ELSE 0
        /\ \A i \in 1 .. n + m - (n + 1) + 1 : s[i] = both[n + 1 + i - 1]
    BY <2>0, <2>2, SubSeqProperties
  <2> HIDE DEF s
  <2>4. Len(s) = m
    <3> HIDE DEF n, m
    <3> QED BY <1>1, <2>3
  <2>5. \A i \in 1 .. Len(s) : s[i] = b[i]
    <3> HIDE DEF n, m
    <3> SUFFICES ASSUME NEW i \in 1 .. m PROVE s[i] = b[i] BY <2>4
    <3>1. i \in 1 .. n + m - (n + 1) + 1 /\ n + 1 + i - 1 = n + i /\ n + i \in 1 .. n + m BY <1>1
    <3>2. ~(n + i <= n) /\ n + i - n = i BY <1>1
    <3>3. s[i] = both[n + i] BY <2>3, <3>1
    <3> PICK k : k = n + i OBVIOUS
    <3>4. k \in 1 .. n + m /\ ~(k <= n) /\ k - n = i BY <1>1, <3>1, <3>2
    <3>5. both[k] = b[k - n] BY <1>2, <3>4
    <3> QED BY <3>3, <3>4, <3>5
  <2> QED BY <2>3, <2>4, <2>5, SeqEqual DEF s
<1> QED BY <1>2, <1>4, <1>5 DEF Parts

Behind(s, a, b) ==
  /\ Len(s) = Len(a) + Len(b) /\ Len(a) \in Nat /\ Len(b) \in Nat
  /\ SubSeq(s, 1, Len(a)) = a /\ SubSeq(s, Len(a) + 1, Len(s)) = b
  /\ a # << >> => s # << >> /\ Head(s) = Head(a)
  /\ a = << >> => s = b
  /\ b = << >> => s = a /\ Len(s) = Len(a)

LEMMA BehindIs ==
  ASSUME NEW S, NEW a \in Seq(S), NEW b \in Seq(S), NEW s, s = a \o b
  PROVE  s \in Seq(S) /\ Behind(s, a, b)
<1>1. Len(a) \in Nat /\ Len(b) \in Nat /\ s \in Seq(S) BY LenProperties
<1>2. a # << >> => s # << >> /\ Head(s) = Head(a) BY FirstOfTwo, Zenon
<1>3. (a = << >> => s = b) /\ (b = << >> => s = a) BY ConcatEmptySeq, Zenon
<1>4. Parts(s, a, b) BY PartsOfTwo
<1> QED BY <1>1, <1>2, <1>3, <1>4 DEF Behind, Parts

\* The first of the second sequence goes over to the first one.
LEMMA FirstGoesOver ==
  ASSUME NEW S, NEW a \in Seq(S), NEW b \in Seq(S), b # << >>
  PROVE  Append(a, Head(b)) \o Tail(b) = a \o b
<1>1. Head(b) \in S /\ Tail(b) \in Seq(S) /\ <<Head(b)>> \in Seq(S) BY HeadTailProperties
<1>2. Append(a, Head(b)) = a \o <<Head(b)>> BY <1>1, AppendIsConcat
<1>3. (a \o <<Head(b)>>) \o Tail(b) = a \o (<<Head(b)>> \o Tail(b)) BY <1>1, ConcatAssociative
<1>4. <<Head(b)>> \o Tail(b) = b
  <2>1. Len(b) \in Nat /\ Len(b) > 0 BY LenProperties, EmptySeq
  <2>2. Len(Tail(b)) = Len(b) - 1 /\ Head(b) = b[1] /\ \A i \in 1 .. Len(Tail(b)) : Tail(b)[i] = b[i + 1]
    BY HeadTailProperties
  <2> DEFINE c == <<Head(b)>> \o Tail(b)
  <2>3. c \in Seq(S) /\ Len(c) = 1 + Len(Tail(b))
        /\ \A i \in 1 .. 1 + Len(Tail(b)) : c[i] = IF i <= 1 THEN <<Head(b)>>[i] ELSE Tail(b)[i - 1]
    BY <1>1, ConcatProperties
  <2> HIDE DEF c
  <2>4. \A i \in 1 .. Len(c) : c[i] = b[i]
    <3> SUFFICES ASSUME NEW i \in 1 .. Len(b) PROVE c[i] = b[i] BY <2>1, <2>2, <2>3
    <3>1. i \in 1 .. 1 + Len(Tail(b)) BY <2>1, <2>2
    <3>2. CASE i = 1 BY <2>2, <2>3, <3>1, <3>2
    <3>3. CASE i # 1
      <4>1. i - 1 \in 1 .. Len(Tail(b)) /\ ~(i <= 1) /\ i - 1 + 1 = i BY <2>1, <2>2, <3>3
      <4> QED BY <2>2, <2>3, <3>1, <4>1
    <3> QED BY <3>2, <3>3
  <2>5. Len(c) = Len(b) BY <2>1, <2>2, <2>3
  <2> QED BY <2>3, <2>4, <2>5, SeqEqual DEF c
<1> QED BY <1>2, <1>3, <1>4

\* The first value of the first sequence is taken, and the first of the
\* second one takes the last place.
TakesPlace(values, a, b) == values \o Tail(b) = Tail(a \o b)

MovesUp(a, b) ==
  /\ TakesPlace(Append(Tail(a), Head(b)), a, b)
  /\ SubSeq(a \o b, 2, Len(a) + 1) = Append(Tail(a), Head(b))

LEMMA MovingUp ==
  ASSUME NEW S, NEW a \in Seq(S), NEW b \in Seq(S), a # << >>, b # << >>
  PROVE  MovesUp(a, b)
<1> DEFINE h == Head(b)
           p == Append(a, h)
           u == Append(Tail(a), h)
           t == a \o b
           n == Len(a)
           s == SubSeq(t, 2, n + 1)
<1>1. h \in S /\ Tail(b) \in Seq(S) /\ Tail(a) \in Seq(S) /\ n \in Nat /\ t \in Seq(S)
  BY HeadTailProperties, LenProperties
<1>2. p \in Seq(S) /\ Len(p) = n + 1 /\ p # << >> BY <1>1, AppendProperties
<1>3. p \o Tail(b) = t BY FirstGoesOver
<1>4. Tail(p) = u
  <2>1. << h >> \in Seq(S) BY <1>1
  <2>2. p = a \o << h >> /\ u = Tail(a) \o << h >> BY <1>1, AppendIsConcat
  <2>3. Tail(a \o << h >>) = Tail(a) \o << h >>
    <3> PICK e : e = << h >> OBVIOUS
    <3> HIDE DEF h
    <3>1. Tail(a \o e) = Tail(a) \o e BY <2>1, FirstOfTwo
    <3> QED BY <3>1
  <2> QED BY <2>2, <2>3
<1> HIDE DEF h, p, u, t, n
<1>5. Tail(p \o Tail(b)) = Tail(p) \o Tail(b) BY <1>1, <1>2, FirstOfTwo
<1>6. u \o Tail(b) = Tail(t) BY <1>3, <1>4, <1>5
<1>7. Len(t) \in Nat /\ Len(t) >= n + 1 /\ \A i \in 1 .. n + 1 : t[i] = p[i]
  <2> PICK e : e = Tail(b) OBVIOUS
  <2>1. /\ e \in Seq(S) /\ Len(p \o e) = Len(p) + Len(e) /\ Len(e) \in Nat
        /\ \A i \in 1 .. Len(p) + Len(e) : (p \o e)[i] = IF i <= Len(p) THEN p[i] ELSE e[i - Len(p)]
    <3>1. p \in Seq(S) /\ e \in Seq(S) BY <1>1, <1>2
    <3>2. Len(e) \in Nat BY <3>1, LenProperties
    <3>3. /\ Len(p \o e) = Len(p) + Len(e)
          /\ \A i \in 1 .. Len(p) + Len(e) : (p \o e)[i] = IF i <= Len(p) THEN p[i] ELSE e[i - Len(p)]
      BY <3>1, ConcatProperties
    <3> QED BY <3>1, <3>2, <3>3
  <2>2. p \o e = t BY <1>3
  <2> PICK m : m = Len(e) OBVIOUS
  <2>3. Len(t) = n + 1 + m /\ m \in Nat /\ \A i \in 1 .. n + 1 + m : t[i] = IF i <= n + 1 THEN p[i] ELSE e[i - (n + 1)]
    <3>1. \A k : k = Len(p) => Len(t) = k + m /\ \A i \in 1 .. k + m : t[i] = IF i <= k THEN p[i] ELSE e[i - k]
      BY <2>1, <2>2, Zenon
    <3> QED BY <1>2, <2>1, <3>1, Zenon
  <2>4. \A i \in 1 .. n + 1 : i \in 1 .. n + 1 + m /\ i <= n + 1 BY <1>1, <2>3
  <2>5. \A i \in 1 .. n + 1 : t[i] = p[i] BY <2>3, <2>4
  <2>6. n + 1 + m \in Nat /\ n + 1 + m >= n + 1 BY <1>1, <2>3
  <2> QED BY <2>3, <2>5, <2>6
<1>8. u \in Seq(S) /\ Len(u) = n /\ \A i \in 1 .. n : u[i] = p[i + 1]
  <2>1. u \in Seq(S) /\ Len(u) = Len(p) - 1 /\ \A i \in 1 .. Len(u) : u[i] = p[i + 1]
    <3>1. /\ Tail(p) \in Seq(S) /\ Len(Tail(p)) = Len(p) - 1
          /\ \A i \in 1 .. Len(Tail(p)) : Tail(p)[i] = p[i + 1]
      BY <1>2, HeadTailProperties
    <3> QED BY <1>4, <3>1, Zenon
  <2>2. Len(u) = n BY <1>1, <1>2, <2>1
  <2> QED BY <2>1, <2>2
<1>9. s \in Seq(S) /\ Len(s) = n /\ \A i \in 1 .. n : s[i] = t[i + 1]
  <2>1. \A i \in 2 .. n + 1 : i \in 1 .. Len(t) BY <1>1, <1>7
  <2>2. \A i \in 2 .. n + 1 : t[i] \in S BY <1>1, <2>1, ElementOfSeq
  <2> PICK two, k : two = 2 /\ k = n + 1 OBVIOUS
  <2>3. two \in Int /\ k \in Int /\ s = SubSeq(t, two, k) BY <1>1
  <2> HIDE DEF s
  <2>31. \A i \in two .. k : t[i] \in S BY <2>2
  <2>32. /\ s \in Seq(S) /\ Len(s) = IF two <= k THEN k - two + 1 ELSE 0
         /\ \A i \in 1 .. k - two + 1 : s[i] = t[two + i - 1]
    BY <2>3, <2>31, SubSeqProperties
  <2>5. \A i \in 1 .. n : i \in 1 .. k - two + 1 /\ two + i - 1 = i + 1 BY <1>1
  <2>6. Len(s) = n
    <3>0. n \in Nat /\ two = 2 /\ k = n + 1 BY <1>1
    <3>2. k - two + 1 = n BY <3>0
    <3>3. ~(two <= k) => n = 0 BY <3>0
    <3> QED BY <2>32, <3>2, <3>3
  <2>7. \A i \in 1 .. n : s[i] = t[i + 1]
    <3> SUFFICES ASSUME NEW i \in 1 .. n PROVE s[i] = t[i + 1] OBVIOUS
    <3>1. s[i] = t[two + i - 1] BY <2>32, <2>5
    <3> QED BY <2>5, <3>1
  <2> QED BY <2>32, <2>6, <2>7
<1> HIDE DEF s
<1>10. \A i \in 1 .. n : s[i] = u[i]
  <2> SUFFICES ASSUME NEW i \in 1 .. n PROVE s[i] = u[i] OBVIOUS
  <2>1. i + 1 \in 1 .. n + 1 BY <1>1
  <2> QED BY <1>7, <1>8, <1>9, <2>1
<1>11. s = u BY <1>8, <1>9, <1>10, SeqEqual
<1> QED BY <1>6, <1>11 DEF MovesUp, TakesPlace, h, u, t, n, s

----------------------------------------------------------------------------
(* What a channel's record holds.                                          *)

Holds(r, items, gets) ==
  /\ items \in Seq(Puts) /\ gets \in Seq(Gets)
  /\ ContentsOf(r) = [capacity |-> r.capacity, open |-> r.put # "closed", items |-> items, gets |-> gets]

LEMMA HoldsFields ==
  ASSUME NEW r, NEW items, NEW gets, Holds(r, items, gets)
  PROVE  ContentsOf(r).items = items /\ ContentsOf(r).gets = gets
BY DEF Holds

\* Who waits is next in line with the value it brings, or waits for one.
LEMMA HoldsAll ==
  ASSUME NEW r \in ChannelRecords, r.life = "live"
  PROVE  /\ Waiting(r) \subseteq Puts => r.waiters \in Seq(Puts) /\ Holds(r, r.buffer \o r.waiters, << >>)
         /\ Waiting(r) \subseteq Gets => r.waiters \in Seq(Gets) /\ Holds(r, r.buffer, r.waiters)
<1>1. r.waiters \in Seq(Calls) /\ r.buffer \in Seq(Puts) BY Fields
<1>2. \A S : Waiting(r) \subseteq S => r.waiters \in Seq(S)
  <2> SUFFICES ASSUME NEW S, Waiting(r) \subseteq S PROVE r.waiters \in Seq(S) OBVIOUS
  <2>1. \A i \in 1 .. Len(r.waiters) : r.waiters[i] \in S BY <1>1, RangeOf DEF Waiting
  <2> QED BY <1>1, <2>1
<1>3. r.buffer \o << >> = r.buffer /\ << >> \in Seq(Gets) BY <1>1, ConcatEmptySeq
<1>4. Waiting(r) \subseteq Puts /\ Waiting(r) \subseteq Gets => r.waiters = << >> BY Fields
<1>5. ASSUME Waiting(r) \subseteq Puts PROVE r.waiters \in Seq(Puts) /\ Holds(r, r.buffer \o r.waiters, << >>)
  <2>1. r.waiters \in Seq(Puts) BY <1>2, <1>5
  <2>2. r.buffer \o r.waiters \in Seq(Puts) BY <1>1, <2>1
  <2> QED BY <1>3, <1>4, <1>5, <2>1, <2>2 DEF Holds, ContentsOf
<1>6. ASSUME Waiting(r) \subseteq Gets PROVE r.waiters \in Seq(Gets) /\ Holds(r, r.buffer, r.waiters)
  <2>1. r.waiters \in Seq(Gets) BY <1>2, <1>6
  <2>2. Waiting(r) \subseteq Puts => r.waiters = << >> BY <1>4, <1>6
  <2>3. r.buffer \o (IF Waiting(r) \subseteq Puts THEN r.waiters ELSE << >>) = r.buffer BY <1>3, <2>2
  <2> QED BY <1>1, <1>6, <2>1, <2>3 DEF Holds, ContentsOf
<1> QED BY <1>5, <1>6

\* What the two states say of what a channel holds, until a harmful call.
View(r, x) ==
  /\ x = [capacity |-> r.capacity, open |-> r.put # "closed", items |-> x.items, gets |-> x.gets]
  /\ x.capacity = r.capacity /\ (x.open <=> r.put # "closed")
  /\ x # NoValue /\ x.items \in Seq(Puts) /\ x.gets \in Seq(Gets)
  /\ r.put = "block" => x.gets = << >> /\ Len(x.items) >= r.capacity
  /\ r.put = "buffer" => x.gets = << >> /\ Len(x.items) < r.capacity
  /\ r.put = "waiter" => x.gets = r.waiters /\ x.gets # << >>
  /\ r.get \in {"block", "closed"} => x.items = << >>
  /\ r.get = "block" => r.put # "closed"
  /\ r.get = "closed" => r.put = "closed"
  /\ r.get = "buffer" => r.buffer # << >> /\ x.items # << >> /\ Head(x.items) = Head(r.buffer)
  /\ r.get = "waiter" => x.items # << >> /\ Head(x.items) = Head(r.waiters)
  /\ r.get # "block" => x.gets = << >>
  /\ r.get = "block" => Range(x.gets) = Waiting(r)
  /\ SubSeq(x.items, r.capacity + 1, Len(x.items)) = IF x.gets = << >> THEN r.waiters ELSE << >>
  /\ SubSeq(x.items, 1, Len(x.items) - Len(SubSeq(x.items, r.capacity + 1, Len(x.items)))) = r.buffer
  /\ Range(SubSeq(x.items, r.capacity + 1, Len(x.items))) \cup Range(x.gets) = Waiting(r)

LEMMA ViewIs ==
  ASSUME NEW r \in ChannelRecords, Good(r), r.life = "live", r.harm = {}, NEW x, x = ContentsOf(r)
  PROVE  View(r, x)
<1>1. /\ r.capacity \in Nat /\ r.get \in States /\ r.put \in States /\ r.waiters \in Seq(Calls)
      /\ r.buffer \in Seq(Puts) /\ Len(r.buffer) \in Nat
      /\ (r.buffer = << >> <=> Len(r.buffer) = 0) /\ (Waiting(r) = {} <=> r.waiters = << >>)
      /\ Waiting(r) \subseteq Calls
  BY Fields
<1>2. /\ GetTells(r) /\ PutTells(r)
      /\ r.get = "buffer" => r.buffer # << >>
      /\ r.put = "closed" => r.get # "block"
      /\ r.put = "block" => Len(r.buffer) = r.capacity
      /\ r.put = "buffer" => Len(r.buffer) < r.capacity
      /\ Waiting(r) \cap Puts # {} => Len(r.buffer) = r.capacity
      /\ Len(r.buffer) <= r.capacity
  BY DEF Good, Filled, RoomTold
<1>3. /\ r.get = "block" => Waiting(r) \subseteq Gets
      /\ r.get = "buffer" => Waiting(r) \subseteq Puts
      /\ r.get = "waiter" => Waiting(r) \subseteq Puts /\ Waiting(r) # {}
      /\ r.get = "closed" => Waiting(r) = {} /\ r.put = "closed"
      /\ r.buffer # << >> => r.get = "buffer"
      /\ r.put = "block" => Waiting(r) \subseteq Puts
      /\ r.put = "buffer" => Waiting(r) = {}
      /\ r.put = "waiter" => Waiting(r) \subseteq Gets /\ Waiting(r) # {}
  BY <1>2 DEF GetTells, PutTells
<1>4. Range(<< >>) = {} BY DEF Range
<1>5. PICK items \in Seq(Puts), gets \in Seq(Gets) : Holds(r, items, gets)
  BY <1>1, <1>3, HoldsAll DEF Holds, States
<1>6. x.capacity = r.capacity /\ x.open = (r.put # "closed") /\ x.items = items /\ x.gets = gets
      /\ x = [capacity |-> r.capacity, open |-> r.put # "closed", items |-> items, gets |-> gets]
  BY <1>5 DEF Holds
<1>7. x # NoValue
  <2>1. x \in [capacity : Nat, open : BOOLEAN, items : Seq(Puts), gets : Seq(Gets)] BY <1>1, <1>6
  <2> QED BY <2>1
<1>8. CASE Waiting(r) \subseteq Puts
  <2> PICK line : line = r.buffer \o r.waiters OBVIOUS
  <2>1. r.waiters \in Seq(Puts) /\ x.items = line /\ x.gets = << >>
    <3>1. r.waiters \in Seq(Puts) /\ Holds(r, line, << >>) BY <1>8, HoldsAll
    <3>2. ContentsOf(r).items = line /\ ContentsOf(r).gets = << >> BY <3>1, HoldsFields, Zenon
    <3> QED BY <3>1, <3>2
  <2>2. Behind(line, r.buffer, r.waiters) BY <1>1, <2>1, BehindIs
  <2>3. r.put # "waiter" BY <1>1, <1>3, <1>8
  <2>4. SubSeq(x.items, r.capacity + 1, Len(x.items)) = r.waiters
    <3>1. CASE r.waiters = << >>
      <4>1. Len(line) = Len(r.buffer) BY <2>2, <3>1 DEF Behind
      <4>2. r.capacity + 1 \in Int /\ Len(line) \in Int /\ Len(line) < r.capacity + 1 BY <1>1, <1>2, <4>1
      <4> QED BY <2>1, <3>1, <4>2, SubSeqEmpty
    <3>2. CASE r.waiters # << >>
      <4>1. Waiting(r) \cap Puts # {} BY <1>1, <1>8, <3>2
      <4> QED BY <1>2, <2>1, <2>2, <4>1 DEF Behind
    <3> QED BY <3>1, <3>2
  <2>5. SubSeq(x.items, 1, Len(x.items) - Len(r.waiters)) = r.buffer
    <3>1. Len(line) - Len(r.waiters) = Len(r.buffer) BY <2>2 DEF Behind
    <3> QED BY <2>1, <2>2, <3>1 DEF Behind
  <2>6. Range(r.waiters) \cup Range(x.gets) = Waiting(r) BY <1>4, <2>1 DEF Waiting
  <2>7. r.get \in {"block", "closed"} => x.items = << >>
    <3>1. r.get \in {"block", "closed"} => r.buffer = << >> /\ r.waiters = << >> BY <1>1, <1>3, <1>8
    <3> QED BY <2>1, <2>2, <3>1 DEF Behind
  <2>8. r.get = "buffer" => x.items # << >> /\ Head(x.items) = Head(r.buffer)
    BY <1>2, <2>1, <2>2 DEF Behind
  <2>9. r.get = "waiter" => x.items # << >> /\ Head(x.items) = Head(r.waiters)
    <3>1. r.get = "waiter" => r.buffer = << >> /\ r.waiters # << >> BY <1>1, <1>3
    <3> QED BY <2>1, <2>2, <3>1 DEF Behind
  <2>10. Len(line) >= Len(r.buffer) /\ (r.put = "buffer" => Len(line) = Len(r.buffer)) /\ Len(line) \in Nat
    <3>1. r.put = "buffer" => r.waiters = << >> BY <1>1, <1>3
    <3> PICK n, m, k : n = Len(r.buffer) /\ m = Len(r.waiters) /\ k = Len(line) OBVIOUS
    <3>2. n \in Nat /\ m \in Nat /\ k = n + m BY <2>2 DEF Behind
    <3>3. k >= n /\ k \in Nat
      <4>1. \A i, j \in Nat : i + j >= i /\ i + j \in Nat OBVIOUS
      <4> QED BY <3>2, <4>1, Zenon
    <3>4. r.put = "buffer" => k = n BY <2>2, <3>1 DEF Behind
    <3> QED BY <3>3, <3>4
  <2>11. r.put = "block" => Len(x.items) >= r.capacity BY <1>2, <2>1, <2>10
  <2>12. r.put = "buffer" => Len(x.items) < r.capacity BY <1>2, <2>1, <2>10
  <2>13. x.items \in Seq(Puts) /\ x.gets \in Seq(Gets) BY <1>5, <1>6
  <2>14. r.get = "block" => Range(x.gets) = Waiting(r)
    <3>1. r.get = "block" => Waiting(r) = {} BY <1>3, <1>8
    <3> QED BY <1>4, <2>1, <3>1
  <2> QED BY <1>2, <1>3, <1>6, <1>7, <2>1, <2>3, <2>14, <2>4, <2>5, <2>6, <2>7, <2>8, <2>9, <2>11, <2>12, <2>13 DEF View
<1>9. CASE ~(Waiting(r) \subseteq Puts)
  <2>1. r.get = "block" /\ Waiting(r) \subseteq Gets /\ r.buffer = << >> BY <1>1, <1>3, <1>9 DEF States
  <2>2. x.items = << >> /\ x.gets = r.waiters /\ r.waiters # << >>
    <3>1. r.waiters \in Seq(Gets) /\ x.items = r.buffer /\ x.gets = r.waiters
      <4>1. r.waiters \in Seq(Gets) /\ Holds(r, r.buffer, r.waiters) BY <2>1, HoldsAll
      <4> QED BY <4>1, HoldsFields
    <3> QED BY <1>1, <1>9, <2>1, <3>1
  <2>3. r.put = "waiter" BY <1>1, <1>2, <1>3, <1>9, <2>1 DEF States
  <2>4. SubSeq(x.items, r.capacity + 1, Len(x.items)) = << >>
    <3>1. r.capacity + 1 \in Int /\ Len(x.items) \in Int /\ Len(x.items) < r.capacity + 1 BY <1>1, <2>2
    <3> QED BY <3>1, SubSeqEmpty
  <2>5. SubSeq(x.items, 1, Len(x.items) - Len(<< >>)) = r.buffer
    <3>1. Len(x.items) - Len(<< >>) \in Int /\ 1 \in Int /\ Len(x.items) - Len(<< >>) < 1 BY <2>2
    <3>2. SubSeq(x.items, 1, Len(x.items) - Len(<< >>)) = << >> BY <3>1, SubSeqEmpty
    <3> QED BY <2>1, <3>2
  <2>6. Range(<< >>) \cup Range(x.gets) = Waiting(r) BY <1>4, <2>2 DEF Waiting
  <2>13. x.items \in Seq(Puts) /\ x.gets \in Seq(Gets) BY <1>5, <1>6
  <2>14. Range(x.gets) = Waiting(r) BY <2>2 DEF Waiting
  <2> QED BY <1>2, <2>14, <1>6, <1>7, <2>1, <2>2, <2>3, <2>4, <2>5, <2>6, <2>13 DEF View
<1> QED BY <1>8, <1>9

----------------------------------------------------------------------------
(* What a call changes of it.                                              *)

Gains(r, q, o) == ContentsOf(q) = [ContentsOf(r) EXCEPT !.items = Append(@, o)]
Gives(r, q)    == ContentsOf(q) = [ContentsOf(r) EXCEPT !.items = Tail(@)]
Asks(r, q, g)  == ContentsOf(q) = [ContentsOf(r) EXCEPT !.gets = Append(@, g)]
Answers(r, q)  == ContentsOf(q) = [ContentsOf(r) EXCEPT !.gets = Tail(@)]

Framed(r, q) == q.capacity = r.capacity /\ (q.put = "closed" <=> r.put = "closed")

LEMMA Changes ==
  ASSUME NEW r, NEW q, Framed(r, q), NEW items, NEW gets, Holds(r, items, gets)
  PROVE  /\ \A o : Holds(q, Append(items, o), gets) => Gains(r, q, o)
         /\ Holds(q, Tail(items), gets) => Gives(r, q)
         /\ \A g : Holds(q, items, Append(gets, g)) => Asks(r, q, g)
         /\ Holds(q, items, Tail(gets)) => Answers(r, q)
<1> DEFINE k == r.capacity
           b == r.put # "closed"
<1>1. ContentsOf(r) = [capacity |-> k, open |-> b, items |-> items, gets |-> gets] BY DEF Holds
<1>2. \A s, t : Holds(q, s, t) => ContentsOf(q) = [capacity |-> k, open |-> b, items |-> s, gets |-> t]
  BY DEF Holds, Framed
<1> HIDE DEF k, b
<1>3. \A s : [ContentsOf(r) EXCEPT !.items = s] = [capacity |-> k, open |-> b, items |-> s, gets |-> gets]
  BY <1>1
<1>4. \A t : [ContentsOf(r) EXCEPT !.gets = t] = [capacity |-> k, open |-> b, items |-> items, gets |-> t]
  BY <1>1
<1>5. ContentsOf(r).items = items /\ ContentsOf(r).gets = gets BY HoldsFields
<1>6. \A o : Holds(q, Append(items, o), gets) => Gains(r, q, o) BY <1>2, <1>3, <1>5 DEF Gains
<1>7. Holds(q, Tail(items), gets) => Gives(r, q) BY <1>2, <1>3, <1>5 DEF Gives
<1>8. \A g : Holds(q, items, Append(gets, g)) => Asks(r, q, g) BY <1>2, <1>4, <1>5 DEF Asks
<1>9. Holds(q, items, Tail(gets)) => Answers(r, q) BY <1>2, <1>4, <1>5 DEF Answers
<1> QED BY <1>6, <1>7, <1>8, <1>9

LEMMA PutWaitsGains ==
  ASSUME NEW r \in ChannelRecords, Good(r), r.life = "live", r.put = "block", NEW o \in Puts,
         NEW q, q = [r EXCEPT !.waiters = Append(@, o), !.get = GetWithPutter(r)]
  PROVE  Gains(r, q, o)
<1>1. q \in ChannelRecords /\ Waiting(q) = Waiting(r) \cup {o} BY PutWaitsGood
<1>2. q.waiters = Append(r.waiters, o) /\ q.buffer = r.buffer /\ q.life = "live" /\ Framed(r, q)
  BY DEF ChannelRecords, Framed
<1>3. Waiting(r) \subseteq Puts BY DEF Good, PutTells
<1>4. r.buffer \in Seq(Puts) /\ r.waiters \in Seq(Puts) /\ Holds(r, r.buffer \o r.waiters, << >>)
  BY <1>3, HoldsAll, Fields
<1>5. Waiting(q) \subseteq Puts BY <1>1, <1>3
<1>6. Holds(q, q.buffer \o q.waiters, << >>) BY <1>1, <1>2, <1>5, HoldsAll
<1>7. r.buffer \o Append(r.waiters, o) = Append(r.buffer \o r.waiters, o)
  <2>1. AddsBehind(r.buffer, r.waiters, o) BY <1>4, AppendBehind
  <2> QED BY <2>1 DEF AddsBehind
<1>8. Holds(q, Append(r.buffer \o r.waiters, o), << >>)
  <2>1. q.buffer \o q.waiters = Append(r.buffer \o r.waiters, o) BY <1>2, <1>7, Zenon
  <2> QED BY <1>6, <2>1, Zenon
<1> QED BY <1>2, <1>4, <1>8, Changes

\* A put that finds room, and one that finds a get.
LEMMA PutBuffersGains ==
  ASSUME NEW r \in ChannelRecords, Good(r), r.life = "live", r.put = "buffer", NEW o \in Puts, NEW count \in Nat,
         NEW q, q = With(r, o, count)
  PROVE  Gains(r, q, o)
<1>1. q \in ChannelRecords /\ q.waiters = r.waiters BY PutBuffersGood
<1>2. q.buffer = Append(r.buffer, o) /\ q.life = "live" /\ Framed(r, q) BY DEF ChannelRecords, With, Framed
<1>3. Waiting(r) = {} /\ Waiting(q) = {} BY <1>1 DEF Good, PutTells, Waiting
<1>4. r.waiters = << >> /\ q.waiters = << >> BY <1>1, <1>3, Fields
<1>5. Holds(r, r.buffer, << >>) /\ Holds(q, q.buffer, << >>) BY <1>1, <1>2, <1>3, <1>4, HoldsAll
<1> QED BY <1>2, <1>5, Changes

LEMMA PutToGetterAnswers ==
  ASSUME NEW r \in ChannelRecords, Good(r), r.life = "live", r.put = "waiter",
         NEW q, q = [r EXCEPT !.waiters = Tail(@),
                              !.put = IF Tail(r.waiters) = << >> THEN Fresh(r.capacity).put ELSE @]
  PROVE  Answers(r, q)
<1>1. q \in ChannelRecords /\ q.waiters = Tail(r.waiters) /\ r.waiters # << >> BY PutToGetterGood
<1>2. q.buffer = r.buffer /\ q.life = "live" /\ Framed(r, q) BY DEF ChannelRecords, Framed, Fresh
<1>3. Waiting(r) \subseteq Gets BY DEF Good, PutTells
<1>4. Waiting(q) \subseteq Waiting(r)
  <2>1. r.waiters \in Seq(Calls) BY Fields
  <2> QED BY <1>1, <2>1, RangeTail DEF Waiting
<1>5. Holds(r, r.buffer, r.waiters) /\ Holds(q, q.buffer, q.waiters) BY <1>1, <1>2, <1>3, <1>4, HoldsAll
<1> QED BY <1>1, <1>2, <1>5, Changes

LEMMA GetWaitsAsks ==
  ASSUME NEW r \in ChannelRecords, Good(r), r.life = "live", r.get = "block", NEW g \in Gets,
         NEW q, q = [r EXCEPT !.waiters = Append(@, g), !.put = IF @ = "closed" THEN @ ELSE "waiter"]
  PROVE  Asks(r, q, g)
<1>1. q \in ChannelRecords /\ q.waiters = Append(r.waiters, g) BY GetWaitsGood
<1>2. q.buffer = r.buffer /\ q.life = "live" /\ Framed(r, q) BY DEF ChannelRecords, Framed
<1>3. Waiting(r) \subseteq Gets BY DEF Good, GetTells
<1>4. Waiting(q) = Waiting(r) \cup {g}
  <2>1. r.waiters \in Seq(Calls) /\ g \in Calls BY Fields DEF Calls
  <2> QED BY <1>1, <2>1, RangeAppend DEF Waiting
<1>5. Holds(r, r.buffer, r.waiters) /\ Holds(q, q.buffer, q.waiters) BY <1>1, <1>2, <1>3, <1>4, HoldsAll
<1> QED BY <1>1, <1>2, <1>5, Changes

\* A get that takes the first value, whose place a waiting put takes.
LEMMA GetRefillsGives ==
  ASSUME NEW r \in ChannelRecords, Good(r), r.life = "live", r.get = "buffer", r.waiters # << >>,
         r.buffer # << >>, NEW values \in Seq(Puts), Len(values) = Len(r.buffer),
         TakesPlace(values, r.buffer, r.waiters),
         NEW q, q = Refill(r, values)
  PROVE  Gives(r, q)
<1>1. q \in ChannelRecords /\ q.waiters = Tail(r.waiters) /\ q.buffer = values BY GetRefillsGood
<1>2. q.life = "live" /\ Framed(r, q) BY DEF ChannelRecords, Framed, Refill
<1>3. Waiting(r) \subseteq Puts BY DEF Good, GetTells
<1>4. Waiting(q) \subseteq Waiting(r)
  <2>1. r.waiters \in Seq(Calls) BY Fields
  <2> QED BY <1>1, <2>1, RangeTail DEF Waiting
<1>5. Holds(r, r.buffer \o r.waiters, << >>) /\ Holds(q, q.buffer \o q.waiters, << >>)
  BY <1>1, <1>2, <1>3, <1>4, HoldsAll
<1>6. q.buffer \o q.waiters = Tail(r.buffer \o r.waiters) BY <1>1, Zenon DEF TakesPlace
<1>7. Holds(q, Tail(r.buffer \o r.waiters), << >>) BY <1>5, <1>6, Zenon
<1> QED BY <1>2, <1>5, <1>7, Changes

LEMMA GetTakesGives ==
  ASSUME NEW r \in ChannelRecords, Good(r), r.life = "live", r.get = "buffer", r.waiters = << >>, r.buffer # << >>,
         NEW count \in Nat, NEW q, q = Without(r, count)
  PROVE  Gives(r, q)
<1>1. q \in ChannelRecords /\ q.waiters = << >> BY GetTakesGood
<1>2. q.buffer = Tail(r.buffer) /\ q.life = "live" /\ Framed(r, q) BY DEF ChannelRecords, Framed, Without
<1>3. Waiting(r) = {} /\ Waiting(q) = {} BY <1>1, Fields
<1>4. Holds(r, r.buffer, << >>) /\ Holds(q, q.buffer, << >>) BY <1>1, <1>2, <1>3, HoldsAll
<1> QED BY <1>2, <1>4, Changes

LEMMA GetFromPutterGives ==
  ASSUME NEW r \in ChannelRecords, Good(r), r.life = "live", r.get = "waiter",
         NEW q, q = [r EXCEPT !.waiters = Tail(@),
                              !.get = IF Tail(r.waiters) = << >> THEN WhenDrained(r) ELSE @]
  PROVE  Gives(r, q)
<1>1. q \in ChannelRecords /\ q.waiters = Tail(r.waiters) /\ r.waiters # << >> BY GetFromPutterGood
<1>2. q.buffer = r.buffer /\ q.life = "live" /\ Framed(r, q) BY DEF ChannelRecords, Framed
<1>3. Waiting(r) \subseteq Puts /\ r.buffer = << >> BY DEF Good, GetTells
<1>4. Waiting(q) \subseteq Waiting(r) /\ r.waiters \in Seq(Calls) /\ q.waiters \in Seq(Calls)
  <2>1. r.waiters \in Seq(Calls) BY Fields
  <2> QED BY <1>1, <2>1, RangeTail DEF Waiting
<1>5. Holds(r, r.buffer \o r.waiters, << >>) /\ Holds(q, q.buffer \o q.waiters, << >>)
  BY <1>1, <1>2, <1>3, <1>4, HoldsAll
<1>6. r.buffer \o r.waiters = r.waiters /\ q.buffer \o q.waiters = q.waiters
  BY <1>2, <1>3, <1>4, ConcatEmptySeq
<1>7. Holds(r, r.waiters, << >>) /\ Holds(q, Tail(r.waiters), << >>) BY <1>1, <1>5, <1>6, Zenon
<1> QED BY <1>2, <1>7, Changes

----------------------------------------------------------------------------
(* Each call is one of a bounded queue, until a harmful one.               *)

LEMMA Usables ==
  ASSUME Types, Records, ~Harmed, NEW c \in Chans
  PROVE  /\ chan[c].life = "live" =>
              /\ chan[c] \in ChannelRecords /\ Good(chan[c]) /\ View(chan[c], queues[c])
              /\ void => chan[c].buffered = Len(chan[c].buffer)
         /\ chan[c].life # "live" => queues[c] = NoValue /\ Waiting(chan[c]) = {}
         /\ queues[c] = ContentsOf(chan[c])
<1>1. queues[c] = ContentsOf(chan[c]) /\ chan[c] \in ChannelRecords BY DEF queues, Types
<1>2. ASSUME chan[c].life = "live"
      PROVE  /\ Good(chan[c]) /\ View(chan[c], queues[c])
             /\ void => chan[c].buffered = Len(chan[c].buffer)
  <2>1. Good(chan[c]) /\ chan[c].harm = {} /\ (void => chan[c].buffered = Len(chan[c].buffer))
    BY <1>2 DEF Records, Kept, Harmed, Sound
  <2> QED BY <1>1, <1>2, <2>1, ViewIs
<1>3. chan[c].life # "live" => queues[c] = NoValue BY <1>1 DEF ContentsOf
<1>4. chan[c].life # "live" => Waiting(chan[c]) = {} BY <1>1, Fields DEF Records, Kept
<1> QED BY <1>1, <1>2, <1>3, <1>4

LEMMA QueueMoves ==
  ASSUME Types, NEW c \in Chans, NEW q, chan' = [chan EXCEPT ![c] = q]
  PROVE  queues' = [queues EXCEPT ![c] = ContentsOf(q)]
<1>1. chan'[c] = q /\ \A d \in Chans : d # c => chan'[d] = chan[d] BY DEF Types
<1>2. queues' = [d \in Chans |-> ContentsOf(chan'[d])] BY DEF queues, ContentsOf, Waiting
<1>3. queues = [d \in Chans |-> ContentsOf(chan[d])] BY DEF queues
<1>4. \A d \in Chans : ContentsOf(chan'[d]) = IF d = c THEN ContentsOf(q) ELSE ContentsOf(chan[d]) BY <1>1
<1> HIDE DEF queues
<1> QED BY <1>2, <1>3, <1>4

LEMMA PutEnds ==
  ASSUME Types, Records, ~Harmed, NEW c \in Chans, NEW o \in Puts, PutWouldBlock(c, o) \/ PutRefused(c, o)
  PROVE  Promise!Put(c, o)
<1>1. /\ chan[c].life = "live" /\ outcome[o] = "unused" /\ UNCHANGED <<chan, got>>
      /\ \/ chan[c].put = "block" /\ Settle({o}, "would_block")
         \/ chan[c].put = "closed" /\ Settle({o}, "broken_pipe")
  BY DEF PutWouldBlock, PutRefused, MayPut, Usable
<1>2. View(chan[c], queues[c]) BY <1>1, Usables
<1>3. queues' = queues BY <1>1 DEF queues, ContentsOf, Waiting
<1> HIDE DEF queues
<1>4. /\ queues[c] # NoValue /\ queues[c].capacity = chan[c].capacity /\ (queues[c].open <=> chan[c].put # "closed")
      /\ chan[c].put = "block" => queues[c].gets = << >> /\ Len(queues[c].items) >= chan[c].capacity
  BY <1>2 DEF View
<1> QED BY <1>1, <1>3, <1>4 DEF Promise!Put, Promise!Open, Promise!Settle, Promise!Calls, Settle, Calls

LEMMA PutJoins ==
  ASSUME Types, Records, ~Harmed, NEW c \in Chans, NEW o \in Puts, PutWaits(c, o)
  PROVE  Promise!Put(c, o)
<1> DEFINE q == [chan[c] EXCEPT !.waiters = Append(@, o), !.get = GetWithPutter(chan[c])]
<1>1. /\ chan[c].life = "live" /\ outcome[o] = "unused" /\ UNCHANGED got
      /\ chan[c].put = "block" /\ Settle({o}, "waiting") /\ chan' = [chan EXCEPT ![c] = q]
  BY DEF PutWaits, MayPut, Usable, Update
<1>2. View(chan[c], queues[c]) /\ chan[c] \in ChannelRecords /\ Good(chan[c]) /\ queues[c] = ContentsOf(chan[c])
  BY <1>1, Usables
<1>3. Gains(chan[c], q, o) BY <1>1, <1>2, PutWaitsGains
<1>4. queues' = [queues EXCEPT ![c] = ContentsOf(q)] BY <1>1, QueueMoves
<1> HIDE DEF queues, q
<1>5. queues' = [queues EXCEPT ![c].items = Append(@, o)] BY <1>2, <1>3, <1>4 DEF Gains
<1>6. /\ queues[c] # NoValue /\ queues[c].capacity = chan[c].capacity /\ queues[c].open
      /\ queues[c].gets = << >> /\ Len(queues[c].items) >= chan[c].capacity
  BY <1>1, <1>2 DEF View
<1> QED BY <1>1, <1>5, <1>6 DEF Promise!Put, Promise!Open, Promise!Settle, Promise!Calls, Settle, Calls

LEMMA PutIsBuffered ==
  ASSUME Types, Records, ~Harmed, NEW c \in Chans, NEW o \in Puts,
         (~void /\ PutBuffers(c, o)) \/ (void /\ VoidPutBuffers(c, o))
  PROVE  Promise!Put(c, o)
<1>1. /\ chan[c].life = "live" /\ outcome[o] = "unused" /\ UNCHANGED got
      /\ chan[c].put = "buffer" /\ Settle({o}, "success")
  BY DEF PutBuffers, VoidPutBuffers, MayPut, Usable
<1>2. View(chan[c], queues[c]) /\ chan[c] \in ChannelRecords /\ Good(chan[c]) /\ queues[c] = ContentsOf(chan[c])
      /\ (void => chan[c].buffered = Len(chan[c].buffer))
  BY <1>1, Usables
<1>3. chan[c].buffered \in Nat BY <1>2, Fields
<1>4. PICK count \in Nat : chan' = [chan EXCEPT ![c] = With(chan[c], o, count)]
  <2>1. CASE ~void /\ PutBuffers(c, o)
    <3>1. chan' = [chan EXCEPT ![c] = [chan[c] EXCEPT !.buffer = Append(@, o), !.get = "buffer",
                                         !.put = IF NowFull(chan[c]) THEN "block" ELSE @]]
      BY <2>1 DEF PutBuffers, Update
    <3>2. [chan[c] EXCEPT !.buffer = Append(@, o), !.get = "buffer", !.put = IF NowFull(chan[c]) THEN "block" ELSE @]
            = With(chan[c], o, chan[c].buffered)
      BY <1>1, <1>2 DEF ChannelRecords, With, NowFull
    <3> QED BY <1>3, <3>1, <3>2
  <2>2. CASE void /\ VoidPutBuffers(c, o)
    <3>1. chan' = [chan EXCEPT ![c] = [chan[c] EXCEPT !.buffered = @ + 1, !.buffer = Append(@, o), !.get = "buffer",
                                         !.put = IF CountIsFull(chan[c]) THEN "block" ELSE @]]
      BY <2>2 DEF VoidPutBuffers, Update
    <3>2. [chan[c] EXCEPT !.buffered = @ + 1, !.buffer = Append(@, o), !.get = "buffer",
                          !.put = IF CountIsFull(chan[c]) THEN "block" ELSE @]
            = With(chan[c], o, chan[c].buffered + 1)
      BY <1>1, <1>2, <2>2 DEF ChannelRecords, With, CountIsFull
    <3>3. chan[c].buffered + 1 \in Nat BY <1>3
    <3> QED BY <3>1, <3>2, <3>3, Zenon
  <2> QED BY <2>1, <2>2
<1> DEFINE q == With(chan[c], o, count)
<1>5. Gains(chan[c], q, o) BY <1>1, <1>2, PutBuffersGains
<1>6. queues' = [queues EXCEPT ![c] = ContentsOf(q)] BY <1>4, QueueMoves
<1> HIDE DEF queues, q
<1>7. queues' = [queues EXCEPT ![c].items = Append(@, o)] BY <1>2, <1>5, <1>6 DEF Gains
<1>8. /\ queues[c] # NoValue /\ queues[c].capacity = chan[c].capacity /\ queues[c].open
      /\ queues[c].gets = << >> /\ Len(queues[c].items) < chan[c].capacity
  BY <1>1, <1>2 DEF View
<1> QED BY <1>1, <1>7, <1>8 DEF Promise!Put, Promise!Open, Promise!Settle, Promise!Calls, Settle, Calls

LEMMA PutIsTaken ==
  ASSUME Types, Records, ~Harmed, NEW c \in Chans, NEW o \in Puts, PutToGetter(c, o)
  PROVE  Promise!Put(c, o)
<1> DEFINE r == chan[c]
           g == Head(r.waiters)
           q == [r EXCEPT !.waiters = Tail(@),
                          !.put = IF Tail(r.waiters) = << >> THEN Fresh(r.capacity).put ELSE @]
<1>1. /\ r.life = "live" /\ outcome[o] = "unused" /\ got' = [got EXCEPT ![g] = o]
      /\ r.put = "waiter" /\ Settle({o, g}, "success") /\ chan' = [chan EXCEPT ![c] = q]
  BY DEF PutToGetter, MayPut, Usable, Update
<1>2. View(r, queues[c]) /\ r \in ChannelRecords /\ Good(r) /\ queues[c] = ContentsOf(r)
  BY <1>1, Usables
<1>3. Answers(r, q)
  <2> HIDE DEF r
  <2> QED BY <1>1, <1>2, PutToGetterAnswers
<1>4. queues' = [queues EXCEPT ![c] = ContentsOf(q)] BY <1>1, QueueMoves
<1> HIDE DEF queues, q
<1>5. queues' = [queues EXCEPT ![c].gets = Tail(@)] BY <1>2, <1>3, <1>4 DEF Answers
<1>6. queues[c] # NoValue /\ queues[c].open /\ queues[c].gets = r.waiters /\ queues[c].gets # << >>
  BY <1>1, <1>2 DEF View
<1> QED BY <1>1, <1>5, <1>6 DEF Promise!Put, Promise!Open, Promise!Settle, Promise!Calls, Settle, Calls

\* A get that takes the first value, whose place the first waiting put takes.
LEMMA GetTakes ==
  ASSUME Types, Records, ~Harmed, NEW c \in Chans, NEW g \in Gets, outcome[g] = "unused",
         chan[c].life = "live", chan[c].get # "block", NEW q, Gives(chan[c], q),
         chan' = [chan EXCEPT ![c] = q], queues[c].items # << >>,
         got' = [got EXCEPT ![g] = Head(queues[c].items)],
         NEW ended, Settle(ended, "success"),
         ended = {g} \cup (IF chan[c].waiters = << >> THEN {} ELSE {Head(chan[c].waiters)})
  PROVE  Promise!Get(c, g)
<1>1. View(chan[c], queues[c]) /\ queues[c] = ContentsOf(chan[c]) BY Usables
<1>2. queues' = [queues EXCEPT ![c] = ContentsOf(q)] BY QueueMoves
<1> HIDE DEF queues
<1>3. queues' = [queues EXCEPT ![c].items = Tail(@)] BY <1>1, <1>2 DEF Gives
<1>4. queues[c] # NoValue /\ Promise!Excess(queues[c]) = chan[c].waiters BY <1>1 DEF View, Promise!Excess
<1> QED BY <1>3, <1>4 DEF Promise!Get, Promise!Open, Promise!Settle, Promise!Calls, Settle, Calls

LEMMA GetEnds ==
  ASSUME Types, Records, ~Harmed, NEW c \in Chans, NEW g \in Gets, GetWouldBlock(c, g) \/ GetRefused(c, g)
  PROVE  Promise!Get(c, g)
<1>1. /\ chan[c].life = "live" /\ outcome[g] = "unused" /\ UNCHANGED <<chan, got>>
      /\ \/ chan[c].get = "block" /\ Settle({g}, "would_block")
         \/ chan[c].get = "closed" /\ Settle({g}, "broken_pipe")
  BY DEF GetWouldBlock, GetRefused, MayGet, Usable
<1>2. View(chan[c], queues[c]) BY <1>1, Usables
<1>3. queues' = queues BY <1>1 DEF queues, ContentsOf, Waiting
<1> HIDE DEF queues
<1>4. /\ queues[c] # NoValue /\ queues[c].items = << >>
      /\ chan[c].get = "block" => queues[c].open
      /\ chan[c].get = "closed" => ~queues[c].open
  BY <1>1, <1>2 DEF View
<1> QED BY <1>1, <1>3, <1>4 DEF Promise!Get, Promise!Open, Promise!Settle, Promise!Calls, Settle, Calls

LEMMA GetJoins ==
  ASSUME Types, Records, ~Harmed, NEW c \in Chans, NEW g \in Gets, GetWaits(c, g)
  PROVE  Promise!Get(c, g)
<1> DEFINE q == [chan[c] EXCEPT !.waiters = Append(@, g), !.put = IF @ = "closed" THEN @ ELSE "waiter"]
<1>1. /\ chan[c].life = "live" /\ outcome[g] = "unused" /\ UNCHANGED got
      /\ chan[c].get = "block" /\ Settle({g}, "waiting") /\ chan' = [chan EXCEPT ![c] = q]
  BY DEF GetWaits, MayGet, Usable, Update
<1>2. View(chan[c], queues[c]) /\ chan[c] \in ChannelRecords /\ Good(chan[c]) /\ queues[c] = ContentsOf(chan[c])
  BY <1>1, Usables
<1>3. Asks(chan[c], q, g) BY <1>1, <1>2, GetWaitsAsks
<1>4. queues' = [queues EXCEPT ![c] = ContentsOf(q)] BY <1>1, QueueMoves
<1> HIDE DEF queues, q
<1>5. queues' = [queues EXCEPT ![c].gets = Append(@, g)] BY <1>2, <1>3, <1>4 DEF Asks
<1>6. queues[c] # NoValue /\ queues[c].open /\ queues[c].items = << >> BY <1>1, <1>2 DEF View
<1> QED BY <1>1, <1>5, <1>6 DEF Promise!Get, Promise!Open, Promise!Settle, Promise!Calls, Settle, Calls

LEMMA GetIsBuffered ==
  ASSUME Types, Records, ~Harmed, NEW c \in Chans, NEW g \in Gets,
         (~void /\ GetBuffered(c, g)) \/ (void /\ VoidGetBuffered(c, g))
  PROVE  Promise!Get(c, g)
<1> DEFINE r == chan[c]
           tokens == r.buffer \o r.waiters
           refilled == [r EXCEPT !.buffer = Refilled(r), !.waiters = Tail(@)]
           joined == [r EXCEPT !.waiters = Tail(@), !.buffer = SubSeq(tokens, 2, Len(r.buffer) + 1)]
           taken == [r EXCEPT !.buffer = Tail(@), !.get = IF TakesLast(r) THEN WhenDrained(r) ELSE @,
                              !.put = IF @ = "closed" THEN @ ELSE "buffer"]
           counted == [r EXCEPT !.buffered = @ - 1, !.buffer = Tail(@),
                                !.get = IF r.buffered = 1 THEN WhenDrained(r) ELSE @,
                                !.put = IF @ = "closed" THEN @ ELSE "buffer"]
<1>1. r.life = "live" /\ r.get = "buffer" /\ outcome[g] = "unused"
  BY DEF GetBuffered, VoidGetBuffered, MayGet, Usable
<1>2. /\ View(r, queues[c]) /\ r \in ChannelRecords /\ Good(r) /\ queues[c] = ContentsOf(r)
      /\ void => r.buffered = Len(r.buffer)
  BY <1>1, Usables
<1>3. r.buffer # << >> /\ queues[c].items # << >> /\ Head(queues[c].items) = Head(r.buffer)
  <2> HIDE DEF queues, r
  <2> QED BY <1>1, <1>2 DEF View
<1>4. r.buffer \in Seq(Puts) /\ r.waiters \in Seq(Puts)
  <2>1. Waiting(r) \subseteq Puts BY <1>1, <1>2 DEF Good, GetTells
  <2> HIDE DEF r
  <2> QED BY <1>1, <1>2, <2>1, Fields, HoldsAll
<1>5. Behind(tokens, r.buffer, r.waiters) BY <1>4, BehindIs
<1>6. Head(tokens) = Head(r.buffer) BY <1>3, <1>5 DEF Behind
<1>7. r.waiters # << >> => MovesUp(r.buffer, r.waiters) BY <1>3, <1>4, MovingUp
<1>8. got' = [got EXCEPT ![g] = Head(queues[c].items)]
  <2>1. got' = [got EXCEPT ![g] = Head(r.buffer)] BY <1>6 DEF GetBuffered, VoidGetBuffered
  <2> QED BY <1>3, <2>1
<1>9. \/ r.waiters # << >> /\ chan' = [chan EXCEPT ![c] = refilled] /\ Settle({g, Head(r.waiters)}, "success")
      \/ r.waiters # << >> /\ chan' = [chan EXCEPT ![c] = joined] /\ Settle({g, Head(r.waiters)}, "success")
      \/ r.waiters = << >> /\ chan' = [chan EXCEPT ![c] = taken] /\ Settle({g}, "success")
      \/ void /\ r.waiters = << >> /\ r.buffered > 0 /\ chan' = [chan EXCEPT ![c] = counted] /\ Settle({g}, "success")
  <2>1. CASE ~void /\ GetBuffered(c, g) BY <2>1 DEF GetBuffered, Update
  <2>2. CASE void /\ VoidGetBuffered(c, g) BY <2>2 DEF VoidGetBuffered, Update
  <2> QED BY <2>1, <2>2
<1>10. r.get # "block" BY <1>1
<1>11. ASSUME r.waiters # << >>, NEW q, q \in {refilled, joined}, chan' = [chan EXCEPT ![c] = q],
              Settle({g, Head(r.waiters)}, "success")
       PROVE  Promise!Get(c, g)
  <2> DEFINE values == Append(Tail(r.buffer), Head(r.waiters))
  <2>1. Refilled(r) = values /\ SubSeq(tokens, 2, Len(r.buffer) + 1) = values /\ TakesPlace(values, r.buffer, r.waiters)
    BY <1>7, <1>11 DEF Refilled, MovesUp
  <2>2. values \in Seq(Puts) /\ Len(values) = Len(r.buffer)
    <3>1. Tail(r.buffer) \in Seq(Puts) /\ Len(Tail(r.buffer)) = Len(r.buffer) - 1 /\ Head(r.waiters) \in Puts
      BY <1>3, <1>4, <1>11, HeadTailProperties
    <3>2. Len(r.buffer) \in Nat BY <1>2, Fields
    <3> HIDE DEF r
    <3> QED BY <3>1, <3>2, AppendProperties
  <2>3. q = Refill(r, values)
    <3>1. refilled = [r EXCEPT !.buffer = values, !.waiters = Tail(@)] BY <2>1
    <3>2. joined = [r EXCEPT !.waiters = Tail(@), !.buffer = values] BY <2>1
    <3> HIDE DEF refilled, joined, values
    <3>3. [r EXCEPT !.waiters = Tail(@), !.buffer = values] = [r EXCEPT !.buffer = values, !.waiters = Tail(@)]
      BY <1>2 DEF ChannelRecords
    <3> QED BY <1>11, <3>1, <3>2, <3>3 DEF Refill
  <2> HIDE DEF r, values, tokens, refilled, joined
  <2>4. Gives(r, q) BY <1>1, <1>2, <1>3, <1>11, <2>1, <2>2, <2>3, GetRefillsGives
  <2>5. {g, Head(r.waiters)} = {g} \cup (IF r.waiters = << >> THEN {} ELSE {Head(r.waiters)}) BY <1>11
  <2> HIDE DEF queues
  <2> QED BY <1>1, <1>3, <1>8, <1>10, <1>11, <2>4, <2>5, GetTakes DEF r
<1>12. ASSUME r.waiters = << >>, NEW count \in Nat, chan' = [chan EXCEPT ![c] = Without(r, count)],
              Settle({g}, "success")
       PROVE  Promise!Get(c, g)
  <2> DEFINE q == Without(r, count)
  <2>1. Gives(r, q)
    <3> HIDE DEF r
    <3> QED BY <1>1, <1>2, <1>3, <1>12, GetTakesGives
  <2>2. {g} = {g} \cup (IF r.waiters = << >> THEN {} ELSE {Head(r.waiters)}) BY <1>12
  <2>3. chan' = [chan EXCEPT ![c] = q] BY <1>12
  <2> HIDE DEF queues, q, r
  <2> QED BY <1>1, <1>3, <1>8, <1>10, <1>12, <2>1, <2>2, <2>3, GetTakes DEF r
<1>13. r.buffered \in Nat BY <1>2, Fields
<1>14. taken = Without(r, r.buffered) BY <1>1, <1>2 DEF ChannelRecords, TakesLast, Without
<1>15. ASSUME void, r.buffered > 0 PROVE counted = Without(r, r.buffered - 1) /\ r.buffered - 1 \in Nat
  <2>1. Tail(r.buffer) \in Seq(Puts) /\ Len(Tail(r.buffer)) = Len(r.buffer) - 1 /\ Len(r.buffer) \in Nat
    BY <1>2, <1>3, <1>4, HeadTailProperties, Fields
  <2>2. Tail(r.buffer) = << >> <=> Len(Tail(r.buffer)) = 0 BY <2>1, EmptySeq
  <2>3. r.buffered = 1 <=> Tail(r.buffer) = << >>
    <3>1. r.buffered = Len(r.buffer) BY <1>2, <1>15
    <3>2. PICK n \in Nat : n = Len(r.buffer) BY <2>1
    <3>3. Len(Tail(r.buffer)) = n - 1 BY <2>1, <3>2
    <3> QED BY <2>2, <3>1, <3>2, <3>3
  <2>4. counted = Without(r, r.buffered - 1) BY <1>1, <1>2, <2>3 DEF ChannelRecords, Without
  <2> QED BY <1>13, <1>15, <2>4
<1> HIDE DEF r, tokens, refilled, joined, taken, counted, queues
<1>16. CASE r.waiters # << >> BY <1>9, <1>11, <1>16
<1>17. CASE r.waiters = << >>
  <2>1. CASE chan' = [chan EXCEPT ![c] = taken] /\ Settle({g}, "success") BY <1>12, <1>13, <1>14, <1>17, <2>1
  <2>2. CASE void /\ r.buffered > 0 /\ chan' = [chan EXCEPT ![c] = counted] /\ Settle({g}, "success")
    BY <1>12, <1>15, <1>17, <2>2
  <2> QED BY <1>9, <1>17, <2>1, <2>2
<1> QED BY <1>16, <1>17

LEMMA GetIsServed ==
  ASSUME Types, Records, ~Harmed, NEW c \in Chans, NEW g \in Gets, GetFromPutter(c, g)
  PROVE  Promise!Get(c, g)
<1> DEFINE r == chan[c]
           o == Head(r.waiters)
           q == [r EXCEPT !.waiters = Tail(@),
                          !.get = IF Tail(r.waiters) = << >> THEN WhenDrained(r) ELSE @]
<1>1. /\ r.life = "live" /\ outcome[g] = "unused" /\ got' = [got EXCEPT ![g] = o]
      /\ r.get = "waiter" /\ Settle({o, g}, "success") /\ chan' = [chan EXCEPT ![c] = q]
  BY DEF GetFromPutter, MayGet, Usable, Update
<1>2. View(r, queues[c]) /\ r \in ChannelRecords /\ Good(r) /\ queues[c] = ContentsOf(r)
  BY <1>1, Usables
<1>3. Gives(r, q) /\ r.waiters # << >>
  <2> HIDE DEF r
  <2> QED BY <1>1, <1>2, GetFromPutterGives, GetFromPutterGood
<1> HIDE DEF queues, q, r
<1>4. queues[c].items # << >> /\ Head(queues[c].items) = o BY <1>1, <1>2 DEF View
<1>5. {o, g} = {g} \cup (IF r.waiters = << >> THEN {} ELSE {Head(r.waiters)}) BY <1>3
<1>6. r.get # "block" BY <1>1
<1> QED BY <1>1, <1>3, <1>4, <1>5, <1>6, GetTakes DEF r

----------------------------------------------------------------------------
(* close, cancel, reset, construction, moves, destruction.                 *)

LEMMA Everyone ==
  ASSUME NEW r, NEW x, View(r, x)
  PROVE  /\ Promise!Waiting(x) = Waiting(r)
         /\ SubSeq(x.items, 1, Len(x.items) - Len(Promise!Excess(x))) = r.buffer
<1>1. Range(Promise!Excess(x)) \cup Range(x.gets) = Waiting(r) BY DEF View, Promise!Excess
<1>2. \A s : Promise!Range(s) = Range(s) BY DEF Range, Promise!Range
<1>3. Promise!Waiting(x) = Waiting(r) BY <1>1, <1>2 DEF Promise!Waiting
<1> QED BY <1>3 DEF View, Promise!Excess

\* A queue with some of its fields replaced, one at a time.
AsQueue(x, k, b, items, gets) == x = [capacity |-> k, open |-> b, items |-> items, gets |-> gets]

Rewrites(x, k, b, items, new, s) ==
  /\ [x EXCEPT !.open = new, !.gets = << >>] = [capacity |-> k, open |-> new, items |-> items, gets |-> << >>]
  /\ [x EXCEPT !.gets = << >>, !.items = s] = [capacity |-> k, open |-> b, items |-> s, gets |-> << >>]
  /\ [x EXCEPT !.gets = << >>, !.items = s, !.open = new]
       = [capacity |-> k, open |-> new, items |-> s, gets |-> << >>]

LEMMA Rewritten ==
  ASSUME NEW x, NEW k, NEW b, NEW items, NEW gets, AsQueue(x, k, b, items, gets), NEW new, NEW s
  PROVE  Rewrites(x, k, b, items, new, s)
<1>1. PICK y, z : y = [x EXCEPT !.open = new] /\ z = [x EXCEPT !.gets = << >>] OBVIOUS
<1>10. PICK u : u = [z EXCEPT !.items = s] OBVIOUS
<1>2. y = [capacity |-> k, open |-> new, items |-> items, gets |-> gets] BY <1>1 DEF AsQueue
<1>3. z = [capacity |-> k, open |-> b, items |-> items, gets |-> << >>] BY <1>1 DEF AsQueue
<1>4. u = [capacity |-> k, open |-> b, items |-> s, gets |-> << >>] BY <1>3, <1>10
<1>5. [y EXCEPT !.gets = << >>] = [capacity |-> k, open |-> new, items |-> items, gets |-> << >>] BY <1>2
<1>6. [u EXCEPT !.open = new] = [capacity |-> k, open |-> new, items |-> s, gets |-> << >>] BY <1>4
<1>7. [x EXCEPT !.open = new, !.gets = << >>] = [y EXCEPT !.gets = << >>] BY <1>1
<1>8. [x EXCEPT !.gets = << >>, !.items = s] = u BY <1>1, <1>10
<1>9. [x EXCEPT !.gets = << >>, !.items = s, !.open = new] = [u EXCEPT !.open = new] BY <1>1, <1>10
<1> QED BY <1>4, <1>5, <1>6, <1>7, <1>8, <1>9 DEF Rewrites

LEMMA CloseEnds ==
  ASSUME Types, Records, ~Harmed, NEW c \in Chans, Close(c)
  PROVE  Promise!Close(c)
<1> DEFINE r == chan[c]
           shut == [r EXCEPT !.put = "closed", !.get = "closed", !.waiters = << >>]
           closed == [r EXCEPT !.put = "closed"]
<1>1. r.life = "live" /\ UNCHANGED got BY DEF Close, Usable
<1>2. View(r, queues[c]) /\ r \in ChannelRecords /\ Good(r) /\ queues[c] = ContentsOf(r)
  BY <1>1, Usables
<1>3. queues[c] # NoValue /\ \A s : Promise!Range(s) = Range(s)
  BY <1>2 DEF View, Range, Promise!Range
<1>4. r.buffer \in Seq(Puts) /\ Range(<< >>) = {} BY <1>2, Fields DEF Range
<1>5. CASE r.get = "block" /\ chan' = [chan EXCEPT ![c] = shut] /\ Settle(Waiting(r), "broken_pipe")
  <2>1. shut \in ChannelRecords
    <3> HIDE DEF r
    <3> QED BY <1>2, <1>5, CloseGood
  <2>2. shut.life = "live" /\ shut.put = "closed" /\ shut.waiters = << >> /\ shut.buffer = r.buffer
        /\ shut.capacity = r.capacity
    BY <1>1, <1>2 DEF ChannelRecords
  <2>3. queues' = [queues EXCEPT ![c] = ContentsOf(shut)] BY <1>5, QueueMoves
  <2> HIDE DEF queues, r, shut
  <2>4. Waiting(shut) = {} BY <1>4, <2>2 DEF Waiting
  <2>5. Holds(shut, r.buffer, << >>)
    <3>1. shut.waiters \in Seq(Gets) /\ Holds(shut, shut.buffer, shut.waiters) BY <2>1, <2>2, <2>4, HoldsAll
    <3> QED BY <2>2, <3>1
  <2>6. ContentsOf(shut) = [capacity |-> r.capacity, open |-> FALSE, items |-> r.buffer, gets |-> << >>]
    BY <2>2, <2>5 DEF Holds
  <2>7. r.buffer = << >> /\ queues[c].items = << >> /\ Range(queues[c].gets) = Waiting(r)
        /\ queues[c].capacity = r.capacity
    BY <1>2, <1>5 DEF View, Good, GetTells
  <2>8. ContentsOf(shut) = [queues[c] EXCEPT !.open = FALSE, !.gets = << >>]
    <3> PICK b : b = (r.put # "closed") OBVIOUS
    <3> PICK no : no = FALSE OBVIOUS
    <3>1. AsQueue(queues[c], r.capacity, b, queues[c].items, queues[c].gets) BY <1>2 DEF View, AsQueue
    <3>2. [queues[c] EXCEPT !.open = FALSE, !.gets = << >>]
            = [capacity |-> r.capacity, open |-> FALSE, items |-> queues[c].items, gets |-> << >>]
      <4>1. Rewrites(queues[c], r.capacity, b, queues[c].items, no, << >>) BY <3>1, Rewritten
      <4> QED BY <4>1, Zenon DEF Rewrites
    <3> QED BY <2>6, <2>7, <3>2, Zenon
  <2>9. queues' = [queues EXCEPT ![c].open = FALSE, ![c].gets = << >>] BY <2>3, <2>8 DEF queues
  <2> QED BY <1>1, <1>3, <1>5, <2>7, <2>9 DEF Promise!Close, Promise!Open, Promise!Settle, Promise!Calls, Settle, Calls
<1>6. CASE r.get # "block" /\ chan' = [chan EXCEPT ![c] = closed] /\ UNCHANGED outcome
  <2>1. closed.life = "live" /\ closed.put = "closed" /\ closed.waiters = r.waiters /\ closed.buffer = r.buffer
        /\ closed.capacity = r.capacity
    BY <1>1, <1>2 DEF ChannelRecords
  <2>2. queues' = [queues EXCEPT ![c] = ContentsOf(closed)] BY <1>6, QueueMoves
  <2> HIDE DEF queues, r, closed
  <2>3. queues[c].gets = << >> /\ queues[c].capacity = r.capacity BY <1>2, <1>6 DEF View
  <2>5. ContentsOf(closed) = [queues[c] EXCEPT !.open = FALSE, !.gets = << >>]
    <3> PICK b, n, items, gets : /\ b = (r.put # "closed") /\ n = (closed.put # "closed")
                                 /\ items = r.buffer \o (IF Waiting(r) \subseteq Puts THEN r.waiters ELSE << >>)
                                 /\ gets = IF Waiting(r) \subseteq Gets THEN r.waiters ELSE << >>
      OBVIOUS
    <3>1. Waiting(closed) = Waiting(r) /\ n = FALSE BY <2>1 DEF Waiting
    <3>2. ContentsOf(closed) = [capacity |-> r.capacity, open |-> n, items |-> items, gets |-> gets]
      BY <2>1, <3>1 DEF ContentsOf
    <3>3. queues[c] = [capacity |-> r.capacity, open |-> b, items |-> items, gets |-> gets]
      BY <1>1, <1>2 DEF ContentsOf
    <3> PICK no : no = FALSE OBVIOUS
    <3>4. [queues[c] EXCEPT !.open = FALSE, !.gets = << >>]
            = [capacity |-> r.capacity, open |-> FALSE, items |-> items, gets |-> << >>]
      <4>1. AsQueue(queues[c], r.capacity, b, items, gets) BY <3>3 DEF AsQueue
      <4>2. Rewrites(queues[c], r.capacity, b, items, no, << >>) BY <4>1, Rewritten
      <4> QED BY <4>2, Zenon DEF Rewrites
    <3>5. gets = << >> BY <2>3, <3>3
    <3> QED BY <3>1, <3>2, <3>4, <3>5, Zenon
  <2>6. queues' = [queues EXCEPT ![c].open = FALSE, ![c].gets = << >>] BY <2>2, <2>5 DEF queues
  <2>7. Promise!Settle(Promise!Range(queues[c].gets), "broken_pipe")
    <3>1. outcome = [p \in Calls |-> outcome[p]] BY DEF Types
    <3> QED BY <1>3, <1>4, <1>6, <2>3, <3>1 DEF Promise!Settle, Promise!Calls, Calls
  <2> QED BY <1>1, <1>3, <2>6, <2>7 DEF Promise!Close, Promise!Open
<1> QED BY <1>5, <1>6 DEF Close, Update

\* Nobody waits any more.
LEMMA Left ==
  ASSUME NEW q \in ChannelRecords, q.life = "live", q.waiters = << >>
  PROVE  ContentsOf(q) = [capacity |-> q.capacity, open |-> q.put # "closed", items |-> q.buffer, gets |-> << >>]
<1>1. Waiting(q) = {} BY Fields
<1> QED BY <1>1, HoldsAll DEF Holds

LEMMA CancelEnds ==
  ASSUME Types, Records, ~Harmed, NEW c \in Chans, Cancel(c)
  PROVE  Promise!Cancel(c)
<1> DEFINE r == chan[c]
           q == Cancelled(r)
<1>1. r.life = "live" /\ UNCHANGED got /\ chan' = [chan EXCEPT ![c] = q] /\ Settle(Waiting(r), "canceled")
  BY DEF Cancel, Update, Usable
<1>2. View(r, queues[c]) /\ r \in ChannelRecords /\ Good(r) /\ queues[c] = ContentsOf(r)
  BY <1>1, Usables
<1>3. q \in ChannelRecords /\ q.waiters = << >> /\ q.buffer = r.buffer /\ q.life = "live"
  <2> HIDE DEF r
  <2> QED BY <1>1, <1>2, CancelledGood
<1>4. q.capacity = r.capacity /\ (q.put = "closed" <=> r.put = "closed") BY <1>2 DEF Cancelled, ChannelRecords
<1>5. queues' = [queues EXCEPT ![c] = ContentsOf(q)] BY <1>1, QueueMoves
<1> HIDE DEF queues, r, q
<1>6. ContentsOf(q) = [capacity |-> q.capacity, open |-> q.put # "closed", items |-> q.buffer, gets |-> << >>]
  BY <1>3, Left
<1>7. ContentsOf(q) = [capacity |-> r.capacity, open |-> r.put # "closed", items |-> r.buffer, gets |-> << >>]
  BY <1>3, <1>4, <1>6
<1>8. Promise!Waiting(queues[c]) = Waiting(r)
      /\ SubSeq(queues[c].items, 1, Len(queues[c].items) - Len(Promise!Excess(queues[c]))) = r.buffer
  BY <1>2, Everyone
<1>9. ContentsOf(q) = [queues[c] EXCEPT !.gets = << >>, !.items = r.buffer]
  <2> PICK b : b = (r.put # "closed") OBVIOUS
  <2>1. AsQueue(queues[c], r.capacity, b, queues[c].items, queues[c].gets) BY <1>2 DEF View, AsQueue
  <2>2. [queues[c] EXCEPT !.gets = << >>, !.items = r.buffer]
          = [capacity |-> r.capacity, open |-> b, items |-> r.buffer, gets |-> << >>]
    <3>1. Rewrites(queues[c], r.capacity, b, queues[c].items, b, r.buffer) BY <2>1, Rewritten
    <3> QED BY <3>1 DEF Rewrites
  <2> QED BY <1>7, <2>2, Zenon
<1>10. queues' = [queues EXCEPT ![c].gets = << >>, ![c].items = r.buffer] BY <1>5, <1>9 DEF queues
<1>11. queues' = [queues EXCEPT ![c].gets = << >>, ![c].items = SubSeq(@, 1, Len(@) - Len(Promise!Excess(queues[c])))]
  BY <1>8, <1>10
<1>12. queues[c] # NoValue BY <1>2 DEF View
<1> QED BY <1>1, <1>8, <1>11, <1>12 DEF Promise!Cancel, Promise!Open, Promise!Settle, Promise!Calls, Settle, Calls

LEMMA ResetEmpties ==
  ASSUME Types, Records, ~Harmed, NEW c \in Chans, Reset(c) \/ VoidReset(c)
  PROVE  Promise!Reset(c)
<1> DEFINE r == chan[c]
           q == [ResetBase(r) EXCEPT !.buffer = << >>]
           z == [ResetBase(r) EXCEPT !.buffered = 0, !.buffer = << >>]
<1>1. /\ r.life = "live" /\ UNCHANGED got /\ Settle(Waiting(r), "canceled")
      /\ chan' = [chan EXCEPT ![c] = q] \/ chan' = [chan EXCEPT ![c] = z]
  BY DEF Reset, VoidReset, Update, Usable
<1>2. View(r, queues[c]) /\ r \in ChannelRecords /\ queues[c] = ContentsOf(r) BY <1>1, Usables
<1>3. ResetBase(r) \in ChannelRecords
  <2> HIDE DEF r
  <2> QED BY <1>2, ResetBaseType
<1>4. ResetBase(r).life = "live" /\ ResetBase(r).waiters = << >> /\ ResetBase(r).put # "closed"
      /\ ResetBase(r).capacity = r.capacity
  BY <1>1, <1>2 DEF ResetBase, Cancelled, ChannelRecords, Fresh
<1> HIDE DEF r
<1>5. ASSUME NEW p, p \in {q, z}, chan' = [chan EXCEPT ![c] = p] PROVE Promise!Reset(c)
  <2>1. << >> \in Seq(Puts) OBVIOUS
  <2>2. p \in ChannelRecords /\ p.life = "live" /\ p.waiters = << >> /\ p.put # "closed" /\ p.capacity = r.capacity
        /\ p.buffer = << >>
    <3> PICK base : base = ResetBase(r) OBVIOUS
    <3>1. base \in ChannelRecords /\ base.life = "live" /\ base.waiters = << >> /\ base.put # "closed"
          /\ base.capacity = r.capacity
      BY <1>3, <1>4
    <3>2. CASE p = [base EXCEPT !.buffer = << >>] BY <2>1, <3>1, <3>2 DEF ChannelRecords
    <3>3. CASE p = [base EXCEPT !.buffered = 0, !.buffer = << >>] BY <2>1, <3>1, <3>3 DEF ChannelRecords
    <3> QED BY <1>5, <3>2, <3>3
  <2>3. ContentsOf(p) = [capacity |-> p.capacity, open |-> p.put # "closed", items |-> p.buffer, gets |-> << >>]
    BY <2>2, Left
  <2>4. ContentsOf(p) = [capacity |-> r.capacity, open |-> TRUE, items |-> << >>, gets |-> << >>] BY <2>2, <2>3
  <2>5. queues' = [queues EXCEPT ![c] = ContentsOf(p)] BY <1>5, QueueMoves
  <2> HIDE DEF queues
  <2>6. ContentsOf(p) = [queues[c] EXCEPT !.gets = << >>, !.items = << >>, !.open = TRUE]
    <3> PICK b : b = (r.put # "closed") OBVIOUS
    <3> PICK yes : yes = TRUE OBVIOUS
    <3>1. AsQueue(queues[c], r.capacity, b, queues[c].items, queues[c].gets) BY <1>2 DEF View, AsQueue
    <3>2. [queues[c] EXCEPT !.gets = << >>, !.items = << >>, !.open = TRUE]
            = [capacity |-> r.capacity, open |-> TRUE, items |-> << >>, gets |-> << >>]
      <4>1. Rewrites(queues[c], r.capacity, b, queues[c].items, yes, << >>) BY <3>1, Rewritten
      <4> QED BY <4>1, Zenon DEF Rewrites
    <3> QED BY <2>4, <3>2, Zenon
  <2>7. queues' = [queues EXCEPT ![c].gets = << >>, ![c].items = << >>, ![c].open = TRUE] BY <2>5, <2>6 DEF queues
  <2>8. Promise!Waiting(queues[c]) = Waiting(r) /\ queues[c] # NoValue BY <1>2, Everyone DEF View
  <2> QED BY <1>1, <2>7, <2>8 DEF Promise!Reset, Promise!Open, Promise!Settle, Promise!Calls, Settle, Calls
<1> HIDE DEF q, z
<1> QED BY <1>1, <1>5

LEMMA ConstructOpens ==
  ASSUME Types, Records, ~Harmed, NEW c \in Chans, Construct(c) \/ VoidConstruct(c)
  PROVE  Promise!Construct(c)
<1>1. PICK n \in Capacities : chan[c].life = "none" /\ chan' = [chan EXCEPT ![c] = Fresh(n)]
                              /\ UNCHANGED <<outcome, got>>
  BY DEF Construct, VoidConstruct, ConstructWith, Update
<1>2. n \in Nat OBVIOUS
<1>3. queues[c] = NoValue BY <1>1, Usables
<1>4. queues' = [queues EXCEPT ![c] = ContentsOf(Fresh(n))] BY <1>1, QueueMoves
<1>5. Fresh(n) \in ChannelRecords BY <1>2, FreshGood
<1>6. Fresh(n).life = "live" /\ Fresh(n).waiters = << >> /\ Fresh(n).capacity = n /\ Fresh(n).put # "closed"
      /\ Fresh(n).buffer = << >>
  BY DEF Fresh
<1>7. ContentsOf(Fresh(n)) = [capacity |-> n, open |-> TRUE, items |-> << >>, gets |-> << >>]
  BY <1>5, <1>6, Left
<1> HIDE DEF queues
<1>8. queues' = [queues EXCEPT ![c] = [capacity |-> n, open |-> TRUE, items |-> << >>, gets |-> << >>]]
  BY <1>4, <1>7
<1> QED BY <1>1, <1>3, <1>8 DEF Promise!Construct, Promise!Open

\* The queue of a channel in use is dropped; one that was moved from has none.
LEMMA DestroyDrops ==
  ASSUME Types, Records, ~Harmed, NEW c \in Chans, Destroy(c)
  PROVE  Promise!Destroy(c) \/ UNCHANGED <<queues, outcome, got>>
<1> DEFINE r == chan[c]
<1>1. UNCHANGED got /\ chan' = [chan EXCEPT ![c] = Absent] /\ Settle(Waiting(r), "destroyed") BY DEF Destroy, Update
<1>2. ContentsOf(Absent) = NoValue BY DEF ContentsOf, Absent, Fresh
<1>3. queues' = [queues EXCEPT ![c] = NoValue] BY <1>1, <1>2, QueueMoves
<1>4. CASE r.life = "live"
  <2>1. View(r, queues[c]) BY <1>4, Usables
  <2> HIDE DEF r, queues
  <2>2. Promise!Waiting(queues[c]) = Waiting(r) /\ queues[c] # NoValue BY <2>1, Everyone DEF View
  <2> QED BY <1>1, <1>3, <2>2 DEF Promise!Destroy, Promise!Open, Promise!Settle, Promise!Calls, Settle, Calls
<1>5. CASE r.life # "live"
  <2>1. queues[c] = NoValue /\ Waiting(r) = {} BY <1>5, Usables
  <2>2. queues = [d \in Chans |-> queues[d]] BY DEF queues
  <2>3. outcome = [p \in Calls |-> outcome[p]] BY DEF Types
  <2> HIDE DEF r, queues
  <2>4. queues' = queues BY <1>3, <2>1, <2>2
  <2>5. outcome' = outcome BY <1>1, <2>1, <2>3 DEF Settle
  <2> QED BY <1>1, <2>4, <2>5
<1> QED BY <1>4, <1>5

LEMMA Moves ==
  ASSUME Types, Records, ~Harmed, NEW c \in Chans, NEW d \in Chans, c # d, chan[d].life = "live",
         NEW q, q.life = "moved", chan' = [chan EXCEPT ![c] = chan[d], ![d] = q], UNCHANGED got,
         Settle(Waiting(chan[c]), "canceled")
  PROVE  Promise!Move(c, d)
<1>1. chan'[c] = chan[d] /\ chan'[d] = q /\ \A x \in Chans \ {c, d} : chan'[x] = chan[x] BY DEF Types
<1>2. queues' = [x \in Chans |-> ContentsOf(chan'[x])] BY DEF queues, ContentsOf, Waiting
<1>3. queues = [x \in Chans |-> ContentsOf(chan[x])] BY DEF queues
<1>4. ContentsOf(q) = NoValue BY DEF ContentsOf
<1>5. queues[d] # NoValue BY Usables DEF View
<1>6. ASSUME chan[c].life = "live" PROVE queues[c] # NoValue /\ Promise!Waiting(queues[c]) = Waiting(chan[c])
  <2>1. View(chan[c], queues[c]) BY <1>6, Usables
  <2> HIDE DEF queues
  <2> QED BY <2>1, Everyone DEF View
<1>7. chan[c].life # "live" => queues[c] = NoValue /\ Waiting(chan[c]) = {} BY Usables
<1> HIDE DEF queues
<1>8. \A x \in Chans : ContentsOf(chan'[x]) = IF x = d THEN NoValue ELSE IF x = c THEN queues[d] ELSE queues[x]
  <2>1. ContentsOf(chan'[d]) = NoValue BY <1>1, <1>4
  <2>2. ContentsOf(chan'[c]) = queues[d] BY <1>1, <1>3
  <2>3. ASSUME NEW x \in Chans \ {c, d} PROVE ContentsOf(chan'[x]) = queues[x]
    <3>1. chan'[x] = chan[x] BY <1>1
    <3>2. queues[x] = ContentsOf(chan[x]) BY <1>3
    <3> QED BY <3>1, <3>2, Zenon
  <2> SUFFICES ASSUME NEW x \in Chans
               PROVE  ContentsOf(chan'[x]) = IF x = d THEN NoValue ELSE IF x = c THEN queues[d] ELSE queues[x]
    OBVIOUS
  <2>4. CASE x = d BY <2>1, <2>4
  <2>5. CASE x = c /\ x # d BY <2>2, <2>5
  <2>6. CASE x # c /\ x # d BY <2>3, <2>6
  <2> QED BY <2>4, <2>5, <2>6
<1>9. queues' = [queues EXCEPT ![c] = queues[d], ![d] = NoValue] BY <1>2, <1>3, <1>8
<1>10. Waiting(chan[c]) = IF queues[c] # NoValue THEN Promise!Waiting(queues[c]) ELSE {} BY <1>6, <1>7
<1> QED BY <1>5, <1>9, <1>10 DEF Promise!Move, Promise!Open, Promise!Settle, Promise!Calls, Settle, Calls

LEMMA MoveConstructs ==
  ASSUME Types, Records, ~Harmed, NEW c \in Chans, NEW d \in Chans, MoveConstruct(c, d) \/ VoidMoveConstruct(c, d)
  PROVE  Promise!Move(c, d)
<1> DEFINE left  == [chan[d] EXCEPT !.waiters = << >>, !.life = "moved"]
           empty == [chan[d] EXCEPT !.waiters = << >>, !.buffered = 0, !.life = "moved"]
<1>1. chan[d].life = "live" /\ chan[c].life = "none" /\ UNCHANGED <<outcome, got>>
  BY DEF MoveConstruct, VoidMoveConstruct, Usable
<1>2. chan[d] \in ChannelRecords /\ c # d BY <1>1 DEF Types
<1>3. chan' = [chan EXCEPT ![c] = chan[d], ![d] = left] \/ chan' = [chan EXCEPT ![c] = chan[d], ![d] = empty]
  <2>1. chan'[c] = chan[d] /\ (chan'[d] = left \/ chan'[d] = empty) /\ (\A x \in Chans \ {c, d} : chan'[x] = chan[x])
        /\ DOMAIN chan' = Chans /\ chan' = [x \in Chans |-> chan'[x]]
    BY <1>2 DEF MoveConstruct, VoidMoveConstruct, Types
  <2> HIDE DEF left, empty
  <2> QED BY <1>2, <2>1 DEF Types
<1>4. left.life = "moved" /\ empty.life = "moved" BY <1>2 DEF ChannelRecords
<1>5. Settle(Waiting(chan[c]), "canceled")
  <2>1. Waiting(chan[c]) = {} BY <1>1, Usables
  <2>2. outcome = [p \in Calls |-> outcome[p]] BY DEF Types
  <2> QED BY <1>1, <2>1, <2>2 DEF Settle
<1> HIDE DEF left, empty
<1> QED BY <1>1, <1>2, <1>3, <1>4, <1>5, Moves

LEMMA MoveAssigns ==
  ASSUME Types, Records, ~Harmed, NEW c \in Chans, NEW d \in Chans, MoveAssign(c, d) \/ VoidMoveAssign(c, d)
  PROVE  Promise!Move(c, d)
<1> DEFINE target == ResetBase(chan[c])
           left  == [target EXCEPT !.life = "moved", !.buffer = << >>]
           empty == [target EXCEPT !.life = "moved", !.buffer = << >>, !.buffered = 0]
<1>1. /\ chan[d].life = "live" /\ c # d /\ UNCHANGED got /\ Settle(Waiting(chan[c]), "canceled")
      /\ chan' = [chan EXCEPT ![c] = chan[d], ![d] = left] \/ chan' = [chan EXCEPT ![c] = chan[d], ![d] = empty]
  BY DEF MoveAssign, VoidMoveAssign, Usable
<1>2. target \in ChannelRecords
  <2>1. chan[c] \in ChannelRecords BY DEF Types
  <2> QED BY <2>1, ResetBaseType
<1> HIDE DEF target
<1>3. left.life = "moved" /\ empty.life = "moved" BY <1>2 DEF ChannelRecords
<1> HIDE DEF left, empty
<1> QED BY <1>1, <1>3, Moves

----------------------------------------------------------------------------
(* Every step.                                                             *)

----------------------------------------------------------------------------
(* Every step.                                                             *)

LEMMA StepPromised ==
  ASSUME Types, Records, ~Harmed, UNCHANGED void, NEW c \in Chans,
         BaseNext(c) \/ (~void /\ ValueNext(c)) \/ (void /\ VoidNext(c))
  PROVE  Promise!Next \/ UNCHANGED <<queues, outcome, got>>
<1> DEFINE Kept0 == UNCHANGED <<queues, outcome, got>>
<1>1. ASSUME NEW g \in Gets, GetFromNothing(c, g) \/ VoidGetWraps(c, g) PROVE Kept0
  BY <1>1 DEF GetFromNothing, VoidGetWraps, queues, ContentsOf, Waiting
<1> HIDE DEF Kept0
<1>2. ASSUME BaseNext(c) PROVE Promise!Next \/ Kept0
  <2>1. CASE Close(c) BY <2>1, CloseEnds DEF Promise!Next
  <2>2. CASE Cancel(c) BY <2>2, CancelEnds DEF Promise!Next
  <2>3. CASE Destroy(c) BY <2>3, DestroyDrops DEF Promise!Next, Kept0
  <2> QED BY <1>2, <2>1, <2>2, <2>3 DEF BaseNext
<1>3. ASSUME NEW d \in Chans,
             MoveConstruct(c, d) \/ VoidMoveConstruct(c, d) \/ MoveAssign(c, d) \/ VoidMoveAssign(c, d)
      PROVE  Promise!Next
  <2>1. Promise!Move(c, d) BY <1>3, MoveConstructs, MoveAssigns
  <2> QED BY <2>1 DEF Promise!Next
<1>4. ASSUME ~void, ValueNext(c) PROVE Promise!Next \/ Kept0
  <2>1. ASSUME NEW o \in Puts, Put(c, o) PROVE Promise!Next
    <3>1. Promise!Put(c, o) BY <1>4, <2>1, PutEnds, PutJoins, PutIsBuffered, PutIsTaken DEF Put
    <3> QED BY <3>1 DEF Promise!Next
  <2>2. ASSUME NEW g \in Gets, Get(c, g) PROVE Promise!Next \/ Kept0
    <3>1. CASE GetFromNothing(c, g) BY <1>1, <3>1
    <3>2. CASE ~GetFromNothing(c, g)
      <4>1. Promise!Get(c, g) BY <1>4, <2>2, <3>2, GetEnds, GetJoins, GetIsBuffered, GetIsServed DEF Get
      <4> QED BY <4>1 DEF Promise!Next
    <3> QED BY <3>1, <3>2
  <2>3. CASE Reset(c) BY <2>3, ResetEmpties DEF Promise!Next
  <2>4. CASE Construct(c) BY <2>4, ConstructOpens DEF Promise!Next
  <2> QED BY <1>3, <1>4, <2>1, <2>2, <2>3, <2>4 DEF ValueNext
<1>5. ASSUME void, VoidNext(c) PROVE Promise!Next \/ Kept0
  <2>1. ASSUME NEW o \in Puts, VoidPut(c, o) \/ VoidStartPut(c, o) PROVE Promise!Next
    <3>1. Promise!Put(c, o) BY <1>5, <2>1, PutEnds, PutJoins, PutIsBuffered, PutIsTaken DEF VoidPut, VoidStartPut
    <3> QED BY <3>1 DEF Promise!Next
  <2>2. ASSUME NEW g \in Gets, VoidGet(c, g) \/ VoidStartGet(c, g) PROVE Promise!Next \/ Kept0
    <3>1. CASE VoidGetWraps(c, g) BY <1>1, <3>1
    <3>2. CASE ~VoidGetWraps(c, g)
      <4>1. Promise!Get(c, g) BY <1>5, <2>2, <3>2, GetEnds, GetJoins, GetIsBuffered, GetIsServed DEF VoidGet, VoidStartGet
      <4> QED BY <4>1 DEF Promise!Next
    <3> QED BY <3>1, <3>2
  <2>3. CASE VoidReset(c) BY <2>3, ResetEmpties DEF Promise!Next
  <2>4. CASE VoidConstruct(c) BY <2>4, ConstructOpens DEF Promise!Next
  <2> QED BY <1>3, <1>5, <2>1, <2>2, <2>3, <2>4 DEF VoidNext
<1> QED BY <1>2, <1>4, <1>5 DEF Kept0

LEMMA PromiseStarts == Init => Promise!Init
<1> SUFFICES ASSUME Init PROVE Promise!Init OBVIOUS
<1>1. ContentsOf(Absent) = NoValue BY DEF ContentsOf, Absent, Fresh
<1>2. queues = [c \in Chans |-> NoValue] BY <1>1 DEF Init, queues
<1> QED BY <1>2 DEF Init, Promise!Init, Promise!Calls, Calls

\* A channel is a bounded queue until a call that is harmful: what a put or a
\* get does, and whom it wakes, follows from the contents alone, for every
\* capacity and through every close, cancel, reset and move.
THEOREM ChannelIsBoundedQueue == Spec => ImplementsBoundedQueue
<1>1. ChannelInv /\ [Next]_vars => [Promise!Next \/ Harmed]_(Promise!vars)
  <2> SUFFICES ASSUME ChannelInv, [Next]_vars PROVE [Promise!Next \/ Harmed]_(Promise!vars) OBVIOUS
  <2>1. Types /\ Records BY DEF ChannelInv
  <2>2. CASE UNCHANGED vars BY <2>2 DEF vars, Promise!vars, queues, ContentsOf, Waiting
  <2>3. CASE Next
    <3>1. PICK c \in Chans : UNCHANGED void /\ (BaseNext(c) \/ (~void /\ ValueNext(c)) \/ (void /\ VoidNext(c)))
      BY <2>3 DEF Next
    <3>2. ~Harmed => Promise!Next \/ UNCHANGED <<queues, outcome, got>> BY <2>1, <3>1, StepPromised
    <3> QED BY <3>2 DEF Promise!vars
  <2> QED BY <2>2, <2>3
<1> QED BY <1>1, PromiseStarts, ChannelInvariant, PTL DEF Spec, ImplementsBoundedQueue
=============================================================================
