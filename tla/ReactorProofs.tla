--------------------------- MODULE ReactorProofs ---------------------------
(***************************************************************************)
(* Proofs about the timer queue and the reactor (Reactor).                 *)
(*                                                                         *)
(* The heap is proved about as an array of times (Rises, and NotUp and     *)
(* NotDown for one that is right but for a place), and then as a queue     *)
(* whose entries are reordered; the list by its two directions and by what *)
(* the head reaches.  Exact says of a queue what QueueIsExact does, of any *)
(* expiries, and every operator of the queue keeps it.  The two loops are  *)
(* functions of the number of turns: a measure that every turn lessens     *)
(* (the index, the distance from the last, the entries) brings them to     *)
(* their end (LoopEnds).                                                   *)
(*                                                                         *)
(* That the reactor implements PendingWaits needs, besides the exact       *)
(* queue, that every wait is in one place (Once): the mapping shows users  *)
(* the waits of a timer and those that are decided, and a wait in two      *)
(* places would be told twice.  A run of the thread takes the timers that  *)
(* are due one after the other; Ran says of a sequence of timers that it   *)
(* is what the loop has taken so far, and at the loop's end it is the      *)
(* sequence that PendingWaits!Expire asks for.                             *)
(***************************************************************************)
EXTENDS Reactor, SequenceTheorems, FiniteSetTheorems, WellFoundedInduction, TLAPS

----------------------------------------------------------------------------
(* Loops.                                                                  *)

\* A set of naturals has a least.
LEMMA LeastNatural == ASSUME NEW S \in SUBSET Nat, S # {} PROVE \E m \in S : \A k \in S : m <= k
<1> DEFINE R == {p \in Nat \X Nat : p[1] < p[2]}
<1>1. IsWellFoundedOn(R, Nat) BY NatLessThanWellFounded DEF OpToRel
<1>2. \E x \in S : \A y \in S : ~ (<<y, x>> \in R)
  <2> HIDE DEF R
  <2> QED BY <1>1, WFMin
<1>3. PICK x \in S : \A y \in S : ~ (<<y, x>> \in R) BY <1>2
<1>4. \A y \in S : ~ (y < x) BY <1>3
<1> QED BY <1>4

\* p is k turns G from a on.
TurnsFrom(p, a, G, k) == p[0] = a /\ \A n \in 1 .. k : p[n] = G[p[n - 1]]

\* A loop whose turns stay in S has k turns.
LEMMA LoopTurns ==
  ASSUME NEW S, NEW a \in S, NEW G \in [S -> S], NEW k \in Nat
  PROVE  \E p \in [0 .. k -> S] : TurnsFrom(p, a, G, k)
<1> DEFINE Turns(p, j) == p[0] = a /\ \A n \in 1 .. j : p[n] = G[p[n - 1]]
           B == {j \in Nat : ~ \E p \in [0 .. j -> S] : Turns(p, j)}
<1>1. SUFFICES ASSUME B # {} PROVE FALSE
  <2>1. k \notin B => \E p \in [0 .. k -> S] : Turns(p, k) OBVIOUS
  <2>2. k \notin B => \E p \in [0 .. k -> S] : TurnsFrom(p, a, G, k) BY <2>1 DEF TurnsFrom
  <2> HIDE DEF B
  <2> QED BY <1>1, <2>2
<1>2. PICK m \in B : \A j \in B : m <= j
  <2>1. B \in SUBSET Nat OBVIOUS
  <2> HIDE DEF B
  <2> QED BY <1>1, <2>1, LeastNatural
<1>3. CASE m = 0
  <2> DEFINE p == [n \in 0 .. 0 |-> a]
  <2>1. p \in [0 .. 0 -> S] /\ Turns(p, 0) OBVIOUS
  <2> QED BY <1>2, <1>3, <2>1
<1>4. CASE m # 0
  <2>0. m \in Nat OBVIOUS
  <2>1. m - 1 \in Nat /\ m - 1 \notin B
    <3> HIDE DEF B
    <3> QED BY <1>2, <1>4, <2>0
  <2>2. PICK p \in [0 .. m - 1 -> S] : Turns(p, m - 1) BY <2>1
  <2> DEFINE r == [n \in 0 .. m |-> IF n = m THEN G[p[m - 1]] ELSE p[n]]
  <2>3. r \in [0 .. m -> S] BY <2>1, <2>2
  <2>4. r[0] = a BY <1>2, <1>4, <2>2
  <2>5. ASSUME NEW n \in 1 .. m PROVE r[n] = G[r[n - 1]]
    <3>1. r[n - 1] = p[n - 1] BY <1>2, <1>4
    <3>2. CASE n = m BY <3>1, <3>2, <1>2
    <3>3. CASE n # m
      <4>1. n \in 1 .. m - 1 BY <3>3, <1>2
      <4>2. r[n] = p[n] BY <3>3, <4>1, <1>2
      <4> QED BY <3>1, <4>1, <4>2, <2>2
    <3> QED BY <3>2, <3>3
  <2>6. Turns(r, m) BY <2>4, <2>5
  <2> QED BY <1>2, <2>3, <2>6
<1> QED BY <1>3, <1>4

\* Every turn of G lessens the measure M, but one that changes nothing.
Lessens(S, G, M) ==
  G \in [S -> S] /\ M \in [S -> Nat] /\ \A s \in S : G[s] = s \/ M[G[s]] < M[s]

\* p is k turns of G from a on, as long as they stay in S.
GoesFrom(p, a, G, S, k) == p[0] = a /\ \A n \in 1 .. k : p[n - 1] \in S => p[n] = G[p[n - 1]]

\* As many turns as the measure of its start bring it to its end.
LEMMA LoopEnds ==
  ASSUME NEW S, NEW a \in S, NEW G, NEW M, Lessens(S, G, M), NEW k \in Nat, M[a] <= k,
         NEW p, GoesFrom(p, a, G, S, k)
  PROVE  p[k] \in S /\ G[p[k]] = p[k]
<1> USE DEF Lessens, GoesFrom
<1> DEFINE Good(n) == p[n] \in S /\ (G[p[n]] = p[n] \/ M[p[n]] + n <= M[a])
           B == {n \in 0 .. k : ~ Good(n)}
<1>1. B = {}
  <2> SUFFICES ASSUME B # {} PROVE FALSE OBVIOUS
  <2>1. PICK m \in B : \A j \in B : m <= j
    <3>1. B \in SUBSET Nat OBVIOUS
    <3> HIDE DEF B
    <3> QED BY <3>1, LeastNatural
  <2>2. M[a] \in Nat OBVIOUS
  <2>3. Good(0) BY <2>2
  <2>4. m # 0 /\ m \in 1 .. k /\ m - 1 \in 0 .. k BY <2>3
  <2>5. m - 1 \notin B BY <2>1, <2>4
  <2>6. Good(m - 1) BY <2>4, <2>5
  <2>7. p[m] = G[p[m - 1]] BY <2>4, <2>6
  <2>8. p[m] \in S /\ p[m - 1] \in S BY <2>6, <2>7
  <2>9. CASE G[p[m - 1]] = p[m - 1]
    <3>1. G[p[m]] = p[m] BY <2>7, <2>9
    <3> QED BY <2>1, <2>8, <3>1
  <2>10. CASE G[p[m - 1]] # p[m - 1]
    <3>1. M[p[m]] < M[p[m - 1]] BY <2>7, <2>8, <2>10
    <3>2. M[p[m - 1]] + (m - 1) <= M[a] BY <2>6, <2>10
    <3>3. M[p[m]] \in Nat /\ M[p[m - 1]] \in Nat BY <2>8
    <3>4. M[p[m]] + m <= M[a]
      <4> DEFINE x == M[p[m]] y == M[p[m - 1]] z == M[a]
      <4>1. x \in Nat /\ y \in Nat /\ z \in Nat /\ x < y /\ y + (m - 1) <= z /\ m \in Nat
        BY <2>2, <2>4, <3>1, <3>2, <3>3
      <4> HIDE DEF x, y, z
      <4>2. x + m <= z BY <4>1
      <4> QED BY <4>2 DEF x, z
    <3> QED BY <2>1, <2>8, <3>4
  <2> QED BY <2>9, <2>10
<1>2. Good(k) BY <1>1
<1>3. CASE G[p[k]] = p[k] BY <1>2, <1>3
<1>4. CASE M[p[k]] + k <= M[a]
  <2>1. M[p[k]] \in Nat /\ M[a] \in Nat BY <1>2
  <2>2. M[p[k]] = 0 BY <1>4, <2>1
  <2>3. p[k] \in S /\ M[G[p[k]]] \in Nat BY <1>2
  <2>4. ~ (M[G[p[k]]] < M[p[k]]) BY <2>2, <2>3
  <2> QED BY <2>3, <2>4
<1> QED BY <1>2, <1>3, <1>4

----------------------------------------------------------------------------
(* The order of a heap, on the times A of its n entries.                   *)

Rises(A, n) == \A i \in 2 .. n : A[Parent(i)] <= A[i]

\* In order but for entry j and its parent, or but for j and its children; the
\* children of j are not before its parent.
NotUp(A, n, j) ==
  /\ \A i \in 2 .. n : i # j => A[Parent(i)] <= A[i]
  /\ j > 1 => \A i \in 2 .. n : Parent(i) = j => A[Parent(j)] <= A[i]
NotDown(A, n, j) ==
  /\ \A i \in 2 .. n : Parent(i) # j => A[Parent(i)] <= A[i]
  /\ j > 1 => \A i \in 2 .. n : Parent(i) = j => A[Parent(j)] <= A[i]

Exchanged(A, B, n, i, j) ==
  \A k \in 1 .. n : B[k] = IF k = i THEN A[j] ELSE IF k = j THEN A[i] ELSE A[k]

LEMMA ParentIs ==
  ASSUME NEW i \in Nat, i > 1
  PROVE  /\ Parent(i) \in Nat /\ Parent(i) >= 1 /\ Parent(i) < i
         /\ i = 2 * Parent(i) \/ i = 2 * Parent(i) + 1
BY DEF Parent

LEMMA ParentIn ==
  ASSUME NEW n \in Nat
  PROVE  \A k \in 2 .. n : /\ k \in 1 .. n /\ k > 1
                          /\ Parent(k) \in 1 .. n /\ Parent(k) \in 1 .. n - 1
                          /\ Parent(k) < k /\ Parent(k) # k
<1> TAKE k \in 2 .. n
<1>1. k \in Nat /\ k > 1 /\ k <= n OBVIOUS
<1>2. PICK p : p = Parent(k) OBVIOUS
<1>3. p \in Nat /\ p >= 1 /\ p < k BY <1>1, <1>2, ParentIs
<1>4. p \in 1 .. n /\ p \in 1 .. n - 1 /\ p # k BY <1>1, <1>3
<1> QED BY <1>1, <1>2, <1>3, <1>4

LEMMA RootIsLeast ==
  ASSUME NEW n \in Nat, NEW A \in [1 .. n -> Int], Rises(A, n)
  PROVE  \A i \in 1 .. n : A[1] <= A[i]
<1> DEFINE B == {i \in 1 .. n : ~ (A[1] <= A[i])}
<1>1. SUFFICES ASSUME B # {} PROVE FALSE OBVIOUS
<1>2. PICK m \in B : \A k \in B : m <= k
  <2>1. B \in SUBSET Nat OBVIOUS
  <2> HIDE DEF B
  <2> QED BY <1>1, <2>1, LeastNatural
<1>3. m \in 1 .. n /\ ~ (A[1] <= A[m]) OBVIOUS
<1>4. m > 1 BY <1>3
<1>5. Parent(m) \in 1 .. n /\ Parent(m) < m BY <1>3, <1>4, ParentIs
<1>6. Parent(m) \notin B
  <2> HIDE DEF B
  <2> QED BY <1>2, <1>3, <1>5
<1>7. A[1] <= A[Parent(m)] BY <1>5, <1>6
<1>8. A[Parent(m)] <= A[m] BY <1>3, <1>4 DEF Rises
<1> QED BY <1>3, <1>5, <1>7, <1>8

LEMMA UpStep ==
  ASSUME NEW n \in Nat, NEW A \in [1 .. n -> Int], NEW B \in [1 .. n -> Int],
         NEW j \in 2 .. n, NotUp(A, n, j), A[j] < A[Parent(j)],
         Exchanged(A, B, n, j, Parent(j))
  PROVE  NotUp(B, n, Parent(j))
<1> DEFINE p == Parent(j)
<1>1. p \in 1 .. n /\ p < j BY ParentIs
<1>2. B[j] = A[p] /\ B[p] = A[j] BY <1>1 DEF Exchanged
<1>3. \A k \in 1 .. n : k # j /\ k # p => B[k] = A[k] BY DEF Exchanged
<1>4. \A i \in 2 .. n : Parent(i) \in 1 .. n /\ Parent(i) < i BY ParentIn
<1>5. A[j] < A[p] OBVIOUS
<1>6. /\ \A i \in 2 .. n : i # j => A[Parent(i)] <= A[i]
      /\ \A i \in 2 .. n : Parent(i) = j => A[p] <= A[i]
  BY DEF NotUp
<1> HIDE DEF p
<1>7. ASSUME NEW i \in 2 .. n, i # p PROVE B[Parent(i)] <= B[i]
  <2>1. CASE i = j BY <1>1, <1>2, <1>5, <2>1 DEF p
  <2>2. CASE i # j /\ Parent(i) = j BY <1>1, <1>2, <1>3, <1>4, <1>6, <1>7, <2>2
  <2>3. CASE i # j /\ Parent(i) = p BY <1>1, <1>2, <1>3, <1>4, <1>5, <1>6, <1>7, <2>3
  <2>4. CASE i # j /\ Parent(i) # j /\ Parent(i) # p
    <3>1. B[i] = A[i] /\ B[Parent(i)] = A[Parent(i)] BY <1>3, <1>4, <1>7, <2>4
    <3> QED BY <1>6, <2>4, <3>1
  <2> QED BY <2>1, <2>2, <2>3, <2>4
<1>8. ASSUME p > 1, NEW i \in 2 .. n, Parent(i) = p PROVE B[Parent(p)] <= B[i]
  <2>1. p \in 2 .. n BY <1>1, <1>8
  <2>2. Parent(p) \in 1 .. n /\ Parent(p) < p BY <1>4, <2>1
  <2>3. B[Parent(p)] = A[Parent(p)] BY <1>1, <1>3, <2>2
  <2>4. A[Parent(p)] <= A[p] BY <1>1, <1>6, <2>1
  <2>5. CASE i = j BY <1>1, <1>2, <2>2, <2>3, <2>4, <2>5
  <2>6. CASE i # j
    <3>1. i # p BY <1>4, <1>8
    <3>2. B[i] = A[i] BY <1>3, <2>6, <3>1
    <3>3. A[p] <= A[i] BY <1>6, <1>8, <2>6
    <3> QED BY <1>1, <2>2, <2>3, <2>4, <3>2, <3>3
  <2> QED BY <2>5, <2>6
<1>9. NotUp(B, n, p) BY <1>7, <1>8 DEF NotUp
<1> QED BY <1>9 DEF p

LEMMA UpEnd ==
  ASSUME NEW n \in Nat, NEW A \in [1 .. n -> Int], NEW j \in 1 .. n, NotUp(A, n, j),
         j = 1 \/ ~ (A[j] < A[Parent(j)])
  PROVE  Rises(A, n)
<1> SUFFICES ASSUME NEW i \in 2 .. n PROVE A[Parent(i)] <= A[i] BY DEF Rises
<1>1. Parent(i) \in 1 .. n BY ParentIs
<1> QED BY <1>1 DEF NotUp

\* The child c of j is not after its other child.
LEMMA DownStep ==
  ASSUME NEW n \in Nat, NEW A \in [1 .. n -> Int], NEW B \in [1 .. n -> Int],
         NEW j \in 1 .. n, NEW c \in 2 .. n, Parent(c) = j, NotDown(A, n, j),
         ~ (A[j] < A[c]), \A i \in 2 .. n : Parent(i) = j => A[c] <= A[i],
         Exchanged(A, B, n, j, c)
  PROVE  NotDown(B, n, c)
<1>1. j < c BY ParentIs
<1>2. B[j] = A[c] /\ B[c] = A[j] BY <1>1 DEF Exchanged
<1>3. \A k \in 1 .. n : k # j /\ k # c => B[k] = A[k] BY DEF Exchanged
<1>4. \A i \in 2 .. n : Parent(i) \in 1 .. n /\ Parent(i) < i BY ParentIn
<1>5. A[c] <= A[j] OBVIOUS
<1>6. /\ \A i \in 2 .. n : Parent(i) # j => A[Parent(i)] <= A[i]
      /\ j > 1 => \A i \in 2 .. n : Parent(i) = j => A[Parent(j)] <= A[i]
  BY DEF NotDown
<1>7. ASSUME NEW i \in 2 .. n, Parent(i) # c PROVE B[Parent(i)] <= B[i]
  <2>1. CASE i = c BY <1>2, <1>5, <2>1
  <2>2. CASE i # c /\ Parent(i) = j
    <3>1. B[i] = A[i] BY <1>3, <1>4, <2>2
    <3> QED BY <1>2, <2>2, <3>1
  <2>3. CASE i = j
    <3>1. B[Parent(j)] = A[Parent(j)] BY <1>1, <1>3, <1>4, <2>3
    <3>2. A[Parent(j)] <= A[c] BY <1>6, <2>3
    <3> QED BY <1>2, <2>3, <3>1, <3>2
  <2>4. CASE i # c /\ i # j /\ Parent(i) # j
    <3>1. Parent(i) \in 1 .. n /\ Parent(i) # j /\ Parent(i) # c BY <1>4, <1>7, <2>4
    <3>2. B[Parent(i)] = A[Parent(i)] BY <1>3, <3>1
    <3>3. B[i] = A[i] BY <1>3, <2>4
    <3>4. A[Parent(i)] <= A[i] BY <1>6, <2>4
    <3> QED BY <3>2, <3>3, <3>4
  <2> QED BY <2>1, <2>2, <2>3, <2>4
<1>8. ASSUME NEW i \in 2 .. n, Parent(i) = c PROVE B[Parent(c)] <= B[i]
  <2>1. B[i] = A[i] BY <1>1, <1>3, <1>4, <1>8
  <2>2. A[c] <= A[i] BY <1>1, <1>6, <1>8
  <2> QED BY <1>2, <2>1, <2>2
<1> QED BY <1>7, <1>8 DEF NotDown

LEMMA DownEnd ==
  ASSUME NEW n \in Nat, NEW A \in [1 .. n -> Int], NEW j \in 1 .. n, NotDown(A, n, j),
         \A i \in 2 .. n : Parent(i) = j => A[j] <= A[i]
  PROVE  Rises(A, n)
<1> SUFFICES ASSUME NEW i \in 2 .. n PROVE A[Parent(i)] <= A[i] BY DEF Rises
<1> QED BY DEF NotDown

----------------------------------------------------------------------------
(* The heap in a queue.                                                    *)

HeapEntries == [at : Times, timer : Timers]
Ats(q) == [k \in 1 .. Len(q.heap) |-> q.heap[k].at]
InHeap(q) == {q.heap[k].timer : k \in 1 .. Len(q.heap)}

\* Only the heap and indices of r may differ from those of q.
SameList(q, r) == r.next = q.next /\ r.prev = q.prev /\ r.first = q.first /\ r.ops = q.ops

\* A queue with the heap of q in another order.
Reordered(q, r) ==
  /\ r \in Queues /\ SameList(q, r)
  /\ Len(r.heap) = Len(q.heap)
  /\ Indexed(q) =>
       /\ Indexed(r)
       /\ Entries(r) = Entries(q)
       /\ \A t \in Timers : t \notin InHeap(q) => r.index[t] = q.index[t]

\* A record of these fields.
Whole(q) == q = [heap |-> q.heap, index |-> q.index, next |-> q.next, prev |-> q.prev,
                 first |-> q.first, ops |-> q.ops]

LEMMA QueueIs ==
  ASSUME NEW q \in Queues
  PROVE  /\ q.heap \in Seq(HeapEntries) /\ Len(q.heap) \in Nat
         /\ q.index \in [Timers -> Nat]
         /\ q.next \in [Timers -> Timers \cup {Null}]
         /\ q.prev \in [Timers -> Timers \cup {Null}]
         /\ q.first \in Timers \cup {Null}
         /\ q.ops \in [Timers -> Seq(Waits)]
         /\ \A i \in 1 .. Len(q.heap) : q.heap[i] \in HeapEntries
         /\ Whole(q)
<1>1. q = [heap |-> q.heap, index |-> q.index, next |-> q.next, prev |-> q.prev,
           first |-> q.first, ops |-> q.ops]
  BY DEF Queues
<1>2. /\ q.heap \in Seq(HeapEntries) /\ q.index \in [Timers -> Nat]
      /\ q.next \in [Timers -> Timers \cup {Null}] /\ q.prev \in [Timers -> Timers \cup {Null}]
      /\ q.first \in Timers \cup {Null} /\ q.ops \in [Timers -> Seq(Waits)]
  BY DEF Queues, HeapEntries
<1>3. Len(q.heap) \in Nat BY <1>2
<1>4. \A i \in 1 .. Len(q.heap) : q.heap[i] \in HeapEntries BY <1>2
<1>5. Whole(q) BY <1>1 DEF Whole
<1> QED BY <1>2, <1>3, <1>4, <1>5

LEMMA TimesAre == Times \subseteq Nat /\ Never \in Nat /\ Never \notin Times
                  /\ \A i \in Times : i < Never
BY ReactorAssumption DEF ReactorAssumption, Times, Never

LEMMA RecordTyped ==
  ASSUME NEW h \in Seq(HeapEntries), NEW d \in [Timers -> Nat],
         NEW x \in [Timers -> Timers \cup {Null}], NEW p \in [Timers -> Timers \cup {Null}],
         NEW f \in Timers \cup {Null}, NEW o \in [Timers -> Seq(Waits)]
  PROVE  [heap |-> h, index |-> d, next |-> x, prev |-> p, first |-> f, ops |-> o] \in Queues
BY DEF Queues, HeapEntries

LEMMA EntryIs ==
  ASSUME NEW q \in Queues, NEW i \in 1 .. Len(q.heap)
  PROVE  /\ q.heap[i] \in HeapEntries /\ q.heap[i].at \in Times /\ q.heap[i].at \in Nat
         /\ q.heap[i].timer \in Timers
         /\ q.heap[i] = [at |-> q.heap[i].at, timer |-> q.heap[i].timer]
<1>1. q.heap[i] \in HeapEntries BY QueueIs
<1> QED BY <1>1, TimesAre DEF HeapEntries

LEMMA AtsAre ==
  ASSUME NEW q \in Queues
  PROVE  /\ Ats(q) \in [1 .. Len(q.heap) -> Int]
         /\ \A k \in 1 .. Len(q.heap) : Ats(q)[k] = q.heap[k].at
<1>1. \A k \in 1 .. Len(q.heap) : q.heap[k].at \in Int
  <2> TAKE k \in 1 .. Len(q.heap)
  <2>1. q.heap[k].at \in Nat BY EntryIs
  <2> QED BY <2>1
<1>2. Ats(q) = [k \in 1 .. Len(q.heap) |-> q.heap[k].at] BY DEF Ats
<1>3. Ats(q) \in [1 .. Len(q.heap) -> Int] BY <1>1, <1>2
<1>4. \A k \in 1 .. Len(q.heap) : Ats(q)[k] = q.heap[k].at BY <1>2
<1> QED BY <1>3, <1>4

LEMMA OrderedIs ==
  ASSUME NEW q \in Queues
  PROVE  Ordered(q) <=> Rises(Ats(q), Len(q.heap))
<1>1. Len(q.heap) \in Nat BY QueueIs
<1>2. ASSUME NEW i \in 2 .. Len(q.heap)
      PROVE  ~ Before(q, i, Parent(i)) <=> Ats(q)[Parent(i)] <= Ats(q)[i]
  <2>1. i \in 1 .. Len(q.heap) /\ Parent(i) \in 1 .. Len(q.heap) BY <1>1, ParentIs
  <2>2. PICK p : p = Parent(i) OBVIOUS
  <2>3. p \in 1 .. Len(q.heap) BY <2>1, <2>2
  <2>4. q.heap[i].at \in Nat /\ q.heap[p].at \in Nat BY <2>1, <2>3, EntryIs
  <2>5. Ats(q)[p] = q.heap[p].at /\ Ats(q)[i] = q.heap[i].at BY <2>1, <2>3, AtsAre
  <2>6. Before(q, i, p) <=> q.heap[i].at < q.heap[p].at BY DEF Before
  <2>7. ~ Before(q, i, p) <=> Ats(q)[p] <= Ats(q)[i] BY <2>4, <2>5, <2>6
  <2> QED BY <2>2, <2>7
<1> QED BY <1>2 DEF Ordered, Rises

LEMMA ReorderedTwice ==
  ASSUME NEW q, NEW r, NEW s, Reordered(q, r), Reordered(r, s)
  PROVE  Reordered(q, s)
<1>1. s \in Queues /\ SameList(q, s) /\ Len(s.heap) = Len(q.heap) BY DEF Reordered, SameList
<1>2. ASSUME Indexed(q)
      PROVE  /\ Indexed(s) /\ Entries(s) = Entries(q)
             /\ \A t \in Timers : t \notin InHeap(q) => s.index[t] = q.index[t]
  <2>1. /\ Indexed(r) /\ Entries(r) = Entries(q)
        /\ \A t \in Timers : t \notin InHeap(q) => r.index[t] = q.index[t]
    BY <1>2 DEF Reordered
  <2>2. /\ Indexed(s) /\ Entries(s) = Entries(r)
        /\ \A t \in Timers : t \notin InHeap(r) => s.index[t] = r.index[t]
    BY <2>1 DEF Reordered
  <2>3. InHeap(q) = {e.timer : e \in Entries(q)} /\ InHeap(r) = {e.timer : e \in Entries(r)}
    BY DEF InHeap, Entries
  <2> QED BY <2>1, <2>2, <2>3
<1> QED BY <1>1, <1>2 DEF Reordered

LEMMA ReorderedSelf == ASSUME NEW q \in Queues PROVE Reordered(q, q)
BY DEF Reordered, SameList

LEMMA SwapFields ==
  ASSUME NEW q \in Queues, NEW i \in 1 .. Len(q.heap), NEW j \in 1 .. Len(q.heap), NEW r, r = Swap(q, i, j)
  PROVE  /\ r.heap = [q.heap EXCEPT ![i] = q.heap[j], ![j] = q.heap[i]]
         /\ r.index = [q.index EXCEPT ![q.heap[j].timer] = i, ![q.heap[i].timer] = j]
         /\ SameList(q, r)
         /\ Whole(r)
<1>1. PICK h : h = [q.heap EXCEPT ![i] = q.heap[j], ![j] = q.heap[i]] OBVIOUS
<1>2. PICK x : x = [q.index EXCEPT ![q.heap[j].timer] = i, ![q.heap[i].timer] = j] OBVIOUS
<1>3. q = [heap |-> q.heap, index |-> q.index, next |-> q.next, prev |-> q.prev,
           first |-> q.first, ops |-> q.ops]
  BY QueueIs DEF Whole
<1>4. r = [q EXCEPT !.heap = h, !.index = x] BY <1>1, <1>2 DEF Swap
<1>5. r = [heap |-> h, index |-> x, next |-> q.next, prev |-> q.prev,
           first |-> q.first, ops |-> q.ops]
  BY <1>3, <1>4
<1>6. Whole(r) BY <1>5 DEF Whole
<1> QED BY <1>1, <1>2, <1>5, <1>6 DEF SameList

LEMMA SwapReorders ==
  ASSUME NEW q \in Queues, NEW i \in 1 .. Len(q.heap), NEW j \in 1 .. Len(q.heap), i # j,
         NEW r, r = Swap(q, i, j)
  PROVE  /\ Reordered(q, r)
         /\ Exchanged(Ats(q), Ats(r), Len(q.heap), i, j)
         /\ \A k \in 1 .. Len(q.heap) :
              r.heap[k] = IF k = i THEN q.heap[j] ELSE IF k = j THEN q.heap[i] ELSE q.heap[k]
<1> DEFINE n == Len(q.heap)
           D == 1 .. n
<1>1. /\ r.heap = [q.heap EXCEPT ![i] = q.heap[j], ![j] = q.heap[i]]
      /\ r.index = [q.index EXCEPT ![q.heap[j].timer] = i, ![q.heap[i].timer] = j]
      /\ SameList(q, r) /\ Whole(r)
  BY SwapFields
<1>2. q.heap \in [D -> HeapEntries] /\ n \in Nat /\ i \in D /\ j \in D BY QueueIs
<1>3. r.heap \in [D -> HeapEntries] BY <1>1, <1>2
<1>4. \A k \in D : r.heap[k] = IF k = i THEN q.heap[j] ELSE IF k = j THEN q.heap[i] ELSE q.heap[k]
  BY <1>1, <1>2
<1>5. r.heap \in Seq(HeapEntries) /\ Len(r.heap) = n
  <2>1. r.heap \in Seq(HeapEntries) BY <1>2, <1>3, SeqDef
  <2> QED BY <1>2, <1>3, <2>1, LenProperties
<1>6. q.heap[i].timer \in Timers /\ q.heap[j].timer \in Timers BY EntryIs
<1>7. q.index \in [Timers -> Nat] /\ i \in Nat /\ j \in Nat BY <1>2, QueueIs
<1>8. r.index \in [Timers -> Nat] BY <1>1, <1>6, <1>7
<1>9. r \in Queues
  <2>1. /\ r.next \in [Timers -> Timers \cup {Null}] /\ r.prev \in [Timers -> Timers \cup {Null}]
        /\ r.first \in Timers \cup {Null} /\ r.ops \in [Timers -> Seq(Waits)]
    BY <1>1, QueueIs DEF SameList
  <2>2. r = [heap |-> r.heap, index |-> r.index, next |-> r.next, prev |-> r.prev,
             first |-> r.first, ops |-> r.ops]
    BY <1>1 DEF Whole
  <2>3. r.heap \in Seq([at : Times, timer : Timers]) BY <1>5 DEF HeapEntries
  <2> QED BY <1>8, <2>1, <2>2, <2>3 DEF Queues
<1>10. \A u \in Timers : r.index[u] = IF u = q.heap[i].timer THEN j
                                      ELSE IF u = q.heap[j].timer THEN i ELSE q.index[u]
  BY <1>1, <1>6, <1>7
<1>11. ASSUME Indexed(q)
       PROVE  /\ Indexed(r) /\ Entries(r) = Entries(q)
              /\ \A t \in Timers : t \notin InHeap(q) => r.index[t] = q.index[t]
  <2>1. \A k \in D : q.index[q.heap[k].timer] = k /\ q.heap[k].timer \in Timers
    BY <1>11, EntryIs DEF Indexed
  <2> HIDE DEF D
  <2>2. ASSUME NEW k \in D PROVE r.index[r.heap[k].timer] = k
    <3>1. CASE k = i
      <4>1. r.heap[k] = q.heap[j] BY <1>4, <3>1
      <4>2. q.heap[j].timer # q.heap[i].timer BY <1>2, <2>1
      <4> QED BY <1>6, <1>10, <3>1, <4>1, <4>2
    <3>2. CASE k = j
      <4>1. r.heap[k] = q.heap[i] BY <1>4, <3>2
      <4> QED BY <1>6, <1>10, <3>2, <4>1
    <3>3. CASE k # i /\ k # j
      <4>1. r.heap[k] = q.heap[k] BY <1>4, <3>3
      <4>2. q.heap[k].timer # q.heap[i].timer /\ q.heap[k].timer # q.heap[j].timer BY <1>2, <2>1, <3>3
      <4> QED BY <1>10, <2>1, <4>1, <4>2
    <3> QED BY <3>1, <3>2, <3>3
  <2>3. Entries(r) = Entries(q)
    <3>1. Entries(r) = {r.heap[k] : k \in D} /\ Entries(q) = {q.heap[k] : k \in D}
      BY <1>5 DEF Entries, D
    <3>2. ASSUME NEW k \in D PROVE \E m \in D : r.heap[k] = q.heap[m] BY <1>2, <1>4
    <3>3. ASSUME NEW k \in D PROVE \E m \in D : q.heap[k] = r.heap[m] 
      <4>1. CASE k = i BY <1>2, <1>4, <4>1
      <4>2. CASE k = j BY <1>2, <1>4, <4>2
      <4>3. CASE k # i /\ k # j BY <1>2, <1>4, <4>3
      <4> QED BY <4>1, <4>2, <4>3
    <3>4. \A e : e \in Entries(r) <=> \E k \in D : e = r.heap[k] BY <3>1
    <3>5. \A e : e \in Entries(q) <=> \E k \in D : e = q.heap[k] BY <3>1
    <3>6. ASSUME NEW e \in Entries(r) PROVE e \in Entries(q)
      <4>1. PICK k \in D : e = r.heap[k] BY <3>4
      <4> QED BY <3>2, <3>5, <4>1
    <3>7. ASSUME NEW e \in Entries(q) PROVE e \in Entries(r)
      <4>1. PICK k \in D : e = q.heap[k] BY <3>5
      <4> QED BY <3>3, <3>4, <4>1
    <3> QED BY <3>6, <3>7
  <2>4. \A k \in D : q.heap[k].timer \in InHeap(q)
    <3>1. InHeap(q) = {q.heap[k].timer : k \in D} BY DEF InHeap, D
    <3> QED BY <3>1
  <2>5. \A t \in Timers : t \notin InHeap(q) => r.index[t] = q.index[t]
    BY <1>2, <1>10, <2>4
  <2> QED BY <1>5, <2>2, <2>3, <2>5 DEF Indexed, D
<1>12. Reordered(q, r)
  BY <1>1, <1>5, <1>9, <1>11 DEF Reordered
<1>13. Exchanged(Ats(q), Ats(r), n, i, j)
  <2>1. \A k \in D : Ats(q)[k] = q.heap[k].at /\ Ats(r)[k] = r.heap[k].at BY <1>5 DEF Ats
  <2> HIDE DEF D
  <2>2. ASSUME NEW k \in D
        PROVE  Ats(r)[k] = IF k = i THEN Ats(q)[j] ELSE IF k = j THEN Ats(q)[i] ELSE Ats(q)[k]
    BY <1>2, <1>4, <2>1
  <2> QED BY <2>2 DEF Exchanged, D
<1> QED BY <1>4, <1>12, <1>13

----------------------------------------------------------------------------
(* The two loops.                                                          *)

\* What a loop that starts at entry i of q may have made of it, with the order
\* W(A, n, j) that it keeps.
UpStates(q, i) ==
  {s \in [queue : Queues, at : 1 .. Len(q.heap)] :
     /\ Reordered(q, s.queue)
     /\ NotUp(Ats(q), Len(q.heap), i) => NotUp(Ats(s.queue), Len(q.heap), s.at)}

DownStates(q, i) ==
  {s \in [queue : Queues, at : 1 .. Len(q.heap)] :
     /\ Reordered(q, s.queue)
     /\ NotDown(Ats(q), Len(q.heap), i) => NotDown(Ats(s.queue), Len(q.heap), s.at)}

LEMMA RaisedStays ==
  ASSUME NEW q \in Queues, NEW i, NEW s \in UpStates(q, i)
  PROVE  Raised(s) \in UpStates(q, i) /\ (Raised(s) = s \/ Raised(s).at < s.at)
<1> DEFINE n == Len(q.heap)
           p == Parent(s.at)
           r == Swap(s.queue, s.at, p)
<1>1. /\ s.queue \in Queues /\ s.at \in 1 .. n /\ Reordered(q, s.queue) /\ n \in Nat
      /\ s = [queue |-> s.queue, at |-> s.at]
      /\ NotUp(Ats(q), n, i) => NotUp(Ats(s.queue), n, s.at)
  BY QueueIs DEF UpStates
<1>2. Len(s.queue.heap) = n BY <1>1 DEF Reordered
<1>3. CASE ~ (s.at > 1 /\ Before(s.queue, s.at, p))
  <2>1. Raised(s) = s BY <1>3 DEF Raised
  <2> QED BY <2>1
<1>4. CASE s.at > 1 /\ Before(s.queue, s.at, p)
  <2>1. Raised(s) = [queue |-> r, at |-> p] BY <1>4 DEF Raised
  <2>2. p \in 1 .. n /\ p < s.at /\ s.at \in 2 .. n BY <1>1, <1>4, ParentIs
  <2> HIDE DEF p
  <2>3. Reordered(s.queue, r) /\ Exchanged(Ats(s.queue), Ats(r), n, s.at, p)
    BY <1>1, <1>2, <2>2, SwapReorders
  <2> HIDE DEF r
  <2>4. Reordered(q, r) /\ r \in Queues BY <1>1, <2>3, ReorderedTwice DEF Reordered
  <2>5. Len(r.heap) = n BY <2>4 DEF Reordered
  <2>6. ASSUME NotUp(Ats(q), n, i) PROVE NotUp(Ats(r), n, p)
    <3>1. Ats(s.queue) \in [1 .. n -> Int] /\ Ats(r) \in [1 .. n -> Int]
      BY <1>1, <1>2, <2>4, <2>5, AtsAre
    <3>2. NotUp(Ats(s.queue), n, s.at) BY <1>1, <2>6
    <3>3. Ats(s.queue)[s.at] < Ats(s.queue)[p]
      <4>1. s.queue.heap[s.at].at < s.queue.heap[p].at BY <1>4 DEF Before
      <4> QED BY <1>1, <1>2, <2>2, <4>1, AtsAre
    <3> QED BY <1>1, <2>2, <2>3, <3>1, <3>2, <3>3, UpStep DEF p
  <2>7. [queue |-> r, at |-> p] \in UpStates(q, i) BY <2>2, <2>4, <2>6 DEF UpStates
  <2> QED BY <2>1, <2>2, <2>7
<1> QED BY <1>3, <1>4

LEMMA UpHeapIs ==
  ASSUME NEW q \in Queues, NEW i \in 1 .. Len(q.heap), NEW r, r = UpHeap(q, i)
  PROVE  Reordered(q, r) /\ (NotUp(Ats(q), Len(q.heap), i) => Ordered(r))
<1> DEFINE n == Len(q.heap)
           S == UpStates(q, i)
           a == [queue |-> q, at |-> i]
           G == [s \in S |-> Raised(s)]
           M == [s \in S |-> s.at]
           Turn(f) == [k \in 0 .. i |-> IF k = 0 THEN a ELSE Raised(f[k - 1])]
           turn == CHOOSE f : f = Turn(f)
<1>1. n \in Nat /\ i \in Nat BY QueueIs
<1>2. a \in S BY ReorderedSelf DEF UpStates
<1>3. G \in [S -> S] BY RaisedStays
<1>4. M \in [S -> Nat]
  <2>1. \A s \in S : s.at \in Nat BY <1>1 DEF UpStates
  <2> QED BY <2>1
<1>5. \A s \in S : G[s] = s \/ M[G[s]] < M[s] BY RaisedStays
<1>6. \E f : f = Turn(f)
  <2>0. PICK f \in [0 .. i -> S] : TurnsFrom(f, a, G, i)
    <3> HIDE DEF S, G, a
    <3> QED BY <1>1, <1>2, <1>3, LoopTurns
  <2>1. f[0] = a /\ \A k \in 1 .. i : f[k] = G[f[k - 1]]
    <3> HIDE DEF S, G, a
    <3> QED BY <2>0 DEF TurnsFrom
  <2>2. ASSUME NEW k \in 0 .. i PROVE f[k] = IF k = 0 THEN a ELSE Raised(f[k - 1])
    <3>1. CASE k = 0 BY <2>1, <3>1
    <3>2. CASE k # 0
      <4>1. k \in 1 .. i /\ k - 1 \in 0 .. i BY <1>1, <3>2
      <4>2. f[k - 1] \in S BY <2>1, <4>1
      <4> HIDE DEF S
      <4> QED BY <2>1, <3>2, <4>1, <4>2
    <3> QED BY <3>1, <3>2
  <2>3. f = Turn(f)
    <3> HIDE DEF S, a
    <3> QED BY <2>1, <2>2
  <2> QED BY <2>3
<1>7. turn = Turn(turn) BY <1>6
<1>8. r = turn[i].queue BY DEF UpHeap
<1> HIDE DEF turn
<1>9. turn[0] = a BY <1>1, <1>7
<1>10. ASSUME NEW k \in 1 .. i, turn[k - 1] \in S PROVE turn[k] = G[turn[k - 1]]
  <2>1. k \in 0 .. i /\ k # 0 BY <1>1
  <2>2. turn[k] = Raised(turn[k - 1])
    <3> HIDE DEF a
    <3> QED BY <1>7, <2>1
  <2> HIDE DEF S
  <2> QED BY <1>10, <2>2
<1>11. M[a] <= i BY <1>1, <1>2
<1>12. turn[i] \in S /\ G[turn[i]] = turn[i]
  <2> HIDE DEF S, G, M, a
  <2>1. GoesFrom(turn, a, G, S, i) BY <1>9, <1>10 DEF GoesFrom
  <2>2. i \in Nat /\ a \in S /\ M[a] <= i BY <1>1, <1>2, <1>11
  <2>3. Lessens(S, G, M) BY <1>3, <1>4, <1>5 DEF Lessens
  <2> QED BY <2>1, <2>2, <2>3, LoopEnds
<1>13. PICK s \in S : s = turn[i] /\ Raised(s) = s BY <1>12
<1>14. /\ r \in Queues /\ s.at \in 1 .. n /\ Reordered(q, r) /\ r = s.queue
       /\ s = [queue |-> r, at |-> s.at]
       /\ NotUp(Ats(q), n, i) => NotUp(Ats(r), n, s.at)
  BY <1>8, <1>13 DEF UpStates
<1>15. ASSUME NotUp(Ats(q), n, i) PROVE Ordered(r)
  <2>1. Len(r.heap) = n BY <1>14 DEF Reordered
  <2>2. Ats(r) \in [1 .. n -> Int] BY <1>14, <2>1, AtsAre
  <2>3. s.at = 1 \/ ~ (Ats(r)[s.at] < Ats(r)[Parent(s.at)])
    <3> SUFFICES ASSUME s.at # 1, Ats(r)[s.at] < Ats(r)[Parent(s.at)] PROVE FALSE OBVIOUS
    <3>1. Parent(s.at) \in 1 .. n /\ Parent(s.at) < s.at /\ s.at > 1 BY <1>1, <1>14, ParentIs
    <3>2. Before(s.queue, s.at, Parent(s.at)) BY <1>14, <2>1, <3>1, AtsAre DEF Before
    <3>3. Raised(s) = [queue |-> Swap(s.queue, s.at, Parent(s.at)), at |-> Parent(s.at)]
      BY <3>1, <3>2 DEF Raised
    <3>4. Raised(s).at = Parent(s.at) BY <3>3
    <3> QED BY <1>13, <3>1, <3>4
  <2>4. Rises(Ats(r), n) BY <1>1, <1>14, <1>15, <2>2, <2>3, UpEnd
  <2> QED BY <1>14, <2>1, <2>4, OrderedIs
<1> QED BY <1>14, <1>15

LEMMA MinChildIs ==
  ASSUME NEW q \in Queues, NEW j \in 1 .. Len(q.heap), 2 * j <= Len(q.heap)
  PROVE  /\ MinChild(q, j) \in 2 .. Len(q.heap) /\ Parent(MinChild(q, j)) = j
         /\ \A k \in 2 .. Len(q.heap) : Parent(k) = j => Ats(q)[MinChild(q, j)] <= Ats(q)[k]
<1> DEFINE n == Len(q.heap)
           A == Ats(q)
           c == MinChild(q, j)
<1>1. n \in Nat /\ j \in Nat /\ j >= 1 /\ 2 * j <= n BY QueueIs
<1>2. A \in [1 .. n -> Int] /\ \A k \in 1 .. n : A[k] = q.heap[k].at BY AtsAre
<1>3. \A k \in 2 .. n : Parent(k) = j => k = 2 * j \/ k = 2 * j + 1 BY <1>1, ParentIs
<1>4. Parent(2 * j) = j /\ Parent(2 * j + 1) = j BY <1>1 DEF Parent
<1>5. CASE 2 * j = n
  <2>1. c = 2 * j BY <1>5 DEF MinChild
  <2>2. \A k \in 2 .. n : Parent(k) = j => k = c BY <1>1, <1>3, <1>5, <2>1
  <2>3. c \in 2 .. n BY <1>1, <1>5, <2>1
  <2>4. \A k \in 2 .. n : Parent(k) = j => A[c] <= A[k] BY <1>2, <2>2, <2>3
  <2>5. Parent(c) = j BY <1>4, <2>1
  <2> QED BY <2>3, <2>4, <2>5
<1>6. CASE 2 * j # n
  <2>1. 2 * j \in 2 .. n /\ 2 * j + 1 \in 2 .. n BY <1>1, <1>6
  <2>2. Before(q, 2 * j, 2 * j + 1) <=> A[2 * j] < A[2 * j + 1] BY <1>2, <2>1 DEF Before
  <2>3. c = IF A[2 * j] < A[2 * j + 1] THEN 2 * j ELSE 2 * j + 1 BY <1>6, <2>2 DEF MinChild
  <2>4. A[2 * j] \in Int /\ A[2 * j + 1] \in Int BY <1>2, <2>1
  <2>5. A[c] <= A[2 * j] /\ A[c] <= A[2 * j + 1] BY <2>3, <2>4
  <2>6. \A k \in 2 .. n : Parent(k) = j => A[c] <= A[k] BY <1>3, <2>5
  <2>7. c \in 2 .. n /\ Parent(c) = j BY <1>4, <2>1, <2>3
  <2> QED BY <2>6, <2>7
<1> QED BY <1>5, <1>6

LEMMA LoweredStays ==
  ASSUME NEW q \in Queues, NEW i, NEW s \in DownStates(q, i)
  PROVE  Lowered(s) \in DownStates(q, i) /\ (Lowered(s) = s \/ s.at < Lowered(s).at)
<1> DEFINE n == Len(q.heap)
           c == MinChild(s.queue, s.at)
           r == Swap(s.queue, s.at, c)
<1>1. /\ s.queue \in Queues /\ s.at \in 1 .. n /\ Reordered(q, s.queue) /\ n \in Nat
      /\ s = [queue |-> s.queue, at |-> s.at]
      /\ NotDown(Ats(q), n, i) => NotDown(Ats(s.queue), n, s.at)
  BY QueueIs DEF DownStates
<1>2. Len(s.queue.heap) = n BY <1>1 DEF Reordered
<1>3. CASE 2 * s.at > Len(s.queue.heap) \/ Before(s.queue, s.at, c)
  <2>1. Lowered(s) = s BY <1>3 DEF Lowered
  <2> QED BY <2>1
<1>4. CASE ~ (2 * s.at > Len(s.queue.heap) \/ Before(s.queue, s.at, c))
  <2>1. Lowered(s) = [queue |-> r, at |-> c] BY <1>4 DEF Lowered
  <2>2. /\ c \in 2 .. n /\ Parent(c) = s.at
        /\ \A k \in 2 .. n : Parent(k) = s.at => Ats(s.queue)[c] <= Ats(s.queue)[k]
    BY <1>1, <1>2, <1>4, MinChildIs
  <2> HIDE DEF c
  <2>3. s.at < c /\ c \in 1 .. n
    <3>1. Parent(c) < c BY <1>1, <2>2, ParentIs
    <3> QED BY <1>1, <2>2, <3>1
  <2>4. Reordered(s.queue, r) /\ Exchanged(Ats(s.queue), Ats(r), n, s.at, c)
    BY <1>1, <1>2, <2>3, SwapReorders
  <2> HIDE DEF r
  <2>5. Reordered(q, r) /\ r \in Queues BY <1>1, <2>4, ReorderedTwice DEF Reordered
  <2>6. Len(r.heap) = n BY <2>5 DEF Reordered
  <2>7. ASSUME NotDown(Ats(q), n, i) PROVE NotDown(Ats(r), n, c)
    <3>1. Ats(s.queue) \in [1 .. n -> Int] /\ Ats(r) \in [1 .. n -> Int]
      BY <1>1, <1>2, <2>5, <2>6, AtsAre
    <3>2. NotDown(Ats(s.queue), n, s.at) BY <1>1, <2>7
    <3>3. ~ (Ats(s.queue)[s.at] < Ats(s.queue)[c])
      <4>1. ~ (s.queue.heap[s.at].at < s.queue.heap[c].at) BY <1>4 DEF Before
      <4> QED BY <1>1, <1>2, <2>3, <4>1, AtsAre
    <3> QED BY <1>1, <2>2, <2>4, <3>1, <3>2, <3>3, DownStep
  <2>8. [queue |-> r, at |-> c] \in DownStates(q, i) BY <2>3, <2>5, <2>7 DEF DownStates
  <2> QED BY <2>1, <2>3, <2>8
<1> QED BY <1>3, <1>4

LEMMA DownHeapIs ==
  ASSUME NEW q \in Queues, NEW i \in 1 .. Len(q.heap), NEW r, r = DownHeap(q, i)
  PROVE  Reordered(q, r) /\ (NotDown(Ats(q), Len(q.heap), i) => Ordered(r))
<1> DEFINE n == Len(q.heap)
           S == DownStates(q, i)
           a == [queue |-> q, at |-> i]
           G == [s \in S |-> Lowered(s)]
           M == [s \in S |-> n - s.at]
           Turn(f) == [k \in 0 .. n |-> IF k = 0 THEN a ELSE Lowered(f[k - 1])]
           turn == CHOOSE f : f = Turn(f)
<1>1. n \in Nat /\ i \in Nat BY QueueIs
<1>2. a \in S BY ReorderedSelf DEF DownStates
<1>3. G \in [S -> S] BY LoweredStays
<1>4. M \in [S -> Nat]
  <2>1. \A s \in S : n - s.at \in Nat BY <1>1 DEF DownStates
  <2> QED BY <2>1
<1>5. \A s \in S : G[s] = s \/ M[G[s]] < M[s]
  <2> TAKE s \in S
  <2>1. Lowered(s) \in S /\ (Lowered(s) = s \/ s.at < Lowered(s).at) BY LoweredStays
  <2>2. s.at \in 1 .. n /\ Lowered(s).at \in 1 .. n BY <2>1 DEF DownStates
  <2>3. G[s] = Lowered(s) /\ M[s] = n - s.at /\ M[Lowered(s)] = n - Lowered(s).at BY <2>1
  <2> HIDE DEF G, M, S
  <2>4. CASE Lowered(s) = s BY <2>3, <2>4
  <2>5. CASE s.at < Lowered(s).at
    <3>1. n - Lowered(s).at < n - s.at BY <1>1, <2>2, <2>5
    <3> QED BY <2>3, <3>1
  <2> QED BY <2>1, <2>4, <2>5
<1>6. \E f : f = Turn(f)
  <2>0. PICK f \in [0 .. n -> S] : TurnsFrom(f, a, G, n)
    <3> HIDE DEF S, G, a, n
    <3> QED BY <1>1, <1>2, <1>3, LoopTurns
  <2>1. f[0] = a /\ \A k \in 1 .. n : f[k] = G[f[k - 1]]
    <3> HIDE DEF S, G, a, n
    <3> QED BY <2>0 DEF TurnsFrom
  <2>2. ASSUME NEW k \in 0 .. n PROVE f[k] = IF k = 0 THEN a ELSE Lowered(f[k - 1])
    <3>1. CASE k = 0 BY <2>1, <3>1
    <3>2. CASE k # 0
      <4>1. k \in 1 .. n /\ k - 1 \in 0 .. n BY <1>1, <3>2
      <4>2. f[k - 1] \in S BY <2>0, <4>1
      <4> HIDE DEF S
      <4> QED BY <2>1, <3>2, <4>1, <4>2
    <3> QED BY <3>1, <3>2
  <2>3. f = Turn(f)
    <3> HIDE DEF S, a, n
    <3> QED BY <2>0, <2>2
  <2> QED BY <2>3
<1>7. turn = Turn(turn) BY <1>6
<1>8. r = turn[n].queue BY DEF DownHeap
<1> HIDE DEF turn
<1>9. turn[0] = a BY <1>1, <1>7
<1>10. ASSUME NEW k \in 1 .. n, turn[k - 1] \in S PROVE turn[k] = G[turn[k - 1]]
  <2>1. k \in 0 .. n /\ k # 0 BY <1>1
  <2>2. turn[k] = Lowered(turn[k - 1])
    <3> HIDE DEF a, n
    <3> QED BY <1>7, <2>1
  <2> HIDE DEF S
  <2> QED BY <1>10, <2>2
<1>11. M[a] <= n
  <2>1. M[a] = n - i BY <1>2
  <2> HIDE DEF M, a
  <2> QED BY <1>1, <2>1
<1>12. turn[n] \in S /\ G[turn[n]] = turn[n]
  <2> HIDE DEF S, G, M, a, n
  <2>1. GoesFrom(turn, a, G, S, n) BY <1>9, <1>10 DEF GoesFrom
  <2>2. n \in Nat /\ a \in S /\ M[a] <= n BY <1>1, <1>2, <1>11
  <2>3. Lessens(S, G, M) BY <1>3, <1>4, <1>5 DEF Lessens
  <2> QED BY <2>1, <2>2, <2>3, LoopEnds
<1>13. PICK s \in S : s = turn[n] /\ Lowered(s) = s BY <1>12
<1>14. /\ r \in Queues /\ s.at \in 1 .. n /\ Reordered(q, r) /\ r = s.queue
       /\ s = [queue |-> r, at |-> s.at]
       /\ NotDown(Ats(q), n, i) => NotDown(Ats(r), n, s.at)
  BY <1>8, <1>13 DEF DownStates
<1>15. ASSUME NotDown(Ats(q), n, i) PROVE Ordered(r)
  <2>1. Len(r.heap) = n BY <1>14 DEF Reordered
  <2>2. Ats(r) \in [1 .. n -> Int] BY <1>14, <2>1, AtsAre
  <2> DEFINE j == s.at
             c == MinChild(r, j)
  <2>3. ASSUME NEW k \in 2 .. n, Parent(k) = j PROVE Ats(r)[j] <= Ats(r)[k]
    <3>1. 2 * j <= n
      <4>1. k \in Nat /\ k > 1 /\ k <= n /\ j \in Nat BY <1>1, <1>14, <2>3
      <4>2. k = 2 * Parent(k) \/ k = 2 * Parent(k) + 1 BY <4>1, ParentIs
      <4>3. k = 2 * j \/ k = 2 * j + 1 BY <2>3, <4>2
      <4> HIDE DEF j
      <4> QED BY <1>1, <4>1, <4>3
    <3>2. c \in 2 .. n /\ Parent(c) = j /\ Ats(r)[c] <= Ats(r)[k]
      BY <1>14, <2>1, <2>3, <3>1, MinChildIs
    <3>3. j < c BY <1>1, <3>2, ParentIs
    <3>4. Before(r, j, c)
      <4> SUFFICES ASSUME ~ Before(r, j, c) PROVE FALSE OBVIOUS
      <4>1. ~ (2 * j > Len(r.heap)) BY <1>1, <1>14, <2>1, <3>1
      <4>2. Lowered(s) = [queue |-> Swap(r, j, c), at |-> c] BY <1>14, <4>1 DEF Lowered
      <4>3. Lowered(s).at = c BY <4>2
      <4> HIDE DEF c
      <4> QED BY <1>1, <1>13, <1>14, <3>3, <4>3
    <3>5. c \in 1 .. n BY <1>1, <3>2
    <3>6. Ats(r)[j] < Ats(r)[c] BY <1>14, <2>1, <3>4, <3>5, AtsAre DEF Before
    <3> HIDE DEF j, c
    <3>7. Ats(r)[j] \in Int /\ Ats(r)[c] \in Int /\ Ats(r)[k] \in Int BY <1>14, <2>2, <2>3, <3>5 DEF j
    <3> QED BY <3>2, <3>6, <3>7
  <2>4. Rises(Ats(r), n) BY <1>1, <1>14, <1>15, <2>2, <2>3, DownEnd
  <2> QED BY <1>14, <2>1, <2>4, OrderedIs
<1> QED BY <1>14, <1>15

----------------------------------------------------------------------------
(* Removal and insertion.                                                  *)

LEMMA PopBackIs ==
  ASSUME NEW q \in Queues, Len(q.heap) > 0, NEW r, r = PopBack(q)
  PROVE  /\ r \in Queues /\ SameList(q, r) /\ r.index = q.index
         /\ Len(r.heap) = Len(q.heap) - 1
         /\ \A k \in 1 .. Len(r.heap) : r.heap[k] = q.heap[k]
<1> DEFINE n == Len(q.heap)
<1>1. q.heap \in Seq(HeapEntries) /\ n \in Nat /\ Whole(q) BY QueueIs
<1>2. PICK h : h = SubSeq(q.heap, 1, n - 1) OBVIOUS
<1>3. /\ h \in Seq(HeapEntries) /\ Len(h) = n - 1
      /\ \A k \in 1 .. n - 1 : h[k] = q.heap[k]
  BY <1>1, <1>2, SubSeqProperties
<1>4. r = [q EXCEPT !.heap = h] BY <1>2 DEF PopBack
<1>5. r = [heap |-> h, index |-> q.index, next |-> q.next, prev |-> q.prev,
           first |-> q.first, ops |-> q.ops]
  BY <1>1, <1>4 DEF Whole
<1>6. h \in Seq([at : Times, timer : Timers]) BY <1>3 DEF HeapEntries
<1>7. r \in Queues BY <1>5, <1>6, QueueIs DEF Queues
<1>8. SameList(q, r) /\ r.index = q.index /\ r.heap = h BY <1>5 DEF SameList
<1> QED BY <1>3, <1>7, <1>8

\* A takes the place of the last of n entries, from which B is left.
Filled(A, B, n, i) == \A k \in 1 .. n - 1 : B[k] = IF k = i THEN A[n] ELSE A[k]

LEMMA GapUp ==
  ASSUME NEW n \in Nat, NEW A \in [1 .. n -> Int], NEW i \in 1 .. n - 1,
         NEW B \in [1 .. n - 1 -> Int], Rises(A, n), Filled(A, B, n, i),
         i > 1, B[i] < B[Parent(i)]
  PROVE  NotUp(B, n - 1, i)
<1>0. n - 1 \in Nat OBVIOUS
<1>1. \A k \in 2 .. n - 1 : k \in 1 .. n - 1 /\ Parent(k) \in 1 .. n - 1 /\ Parent(k) < k /\ Parent(k) # k
  BY <1>0, ParentIn
<1>2. \A k \in 2 .. n - 1 : A[Parent(k)] <= A[k] BY DEF Rises
<1>3. B[i] = A[n] BY DEF Filled
<1>4. \A k \in 1 .. n - 1 : k # i => B[k] = A[k] BY DEF Filled
<1>5. i \in 2 .. n - 1 /\ Parent(i) \in 1 .. n - 1 /\ Parent(i) # i BY <1>1
<1>6. B[Parent(i)] = A[Parent(i)] BY <1>4, <1>5
<1>7. A[n] < A[Parent(i)] /\ A[Parent(i)] <= A[i] BY <1>2, <1>3, <1>5, <1>6
<1>8. ASSUME NEW k \in 2 .. n - 1, k # i PROVE B[Parent(k)] <= B[k]
  <2>1. B[k] = A[k] /\ A[Parent(k)] <= A[k] BY <1>2, <1>4, <1>8
  <2>2. CASE Parent(k) = i
    <3>1. A[n] \in Int /\ A[Parent(i)] \in Int /\ A[i] \in Int /\ A[k] \in Int BY <1>5
    <3>2. A[n] <= A[k] BY <1>7, <2>1, <2>2, <3>1
    <3> QED BY <1>3, <2>1, <2>2, <3>2
  <2>3. CASE Parent(k) # i
    <3>1. Parent(k) \in 1 .. n - 1 BY <1>1
    <3>2. B[Parent(k)] = A[Parent(k)] BY <1>4, <2>3, <3>1
    <3> QED BY <2>1, <3>2
  <2> QED BY <2>2, <2>3
<1>9. ASSUME NEW k \in 2 .. n - 1, Parent(k) = i PROVE B[Parent(i)] <= B[k]
  <2>1. k # i BY <1>5, <1>9
  <2>2. B[k] = A[k] /\ A[i] <= A[k]
    <3>1. B[k] = A[k] BY <1>1, <1>4, <2>1
    <3>2. A[i] <= A[k] BY <1>2, <1>9
    <3> QED BY <3>1, <3>2
  <2>3. A[Parent(i)] \in Int /\ A[i] \in Int /\ A[k] \in Int BY <1>5
  <2> QED BY <1>6, <1>7, <2>2, <2>3
<1> QED BY <1>8, <1>9 DEF NotUp

LEMMA GapDown ==
  ASSUME NEW n \in Nat, NEW A \in [1 .. n -> Int], NEW i \in 1 .. n - 1,
         NEW B \in [1 .. n - 1 -> Int], Rises(A, n), Filled(A, B, n, i),
         ~ (i > 1 /\ B[i] < B[Parent(i)])
  PROVE  NotDown(B, n - 1, i)
<1>0. n - 1 \in Nat OBVIOUS
<1>1. \A k \in 2 .. n - 1 : k \in 1 .. n - 1 /\ Parent(k) \in 1 .. n - 1 /\ Parent(k) < k /\ Parent(k) # k
  BY <1>0, ParentIn
<1>2. \A k \in 2 .. n - 1 : A[Parent(k)] <= A[k] BY DEF Rises
<1>4. \A k \in 1 .. n - 1 : k # i => B[k] = A[k] BY DEF Filled
<1>5. \A k \in 1 .. n - 1 : B[k] \in Int /\ A[k] \in Int OBVIOUS
<1>8. ASSUME NEW k \in 2 .. n - 1, Parent(k) # i PROVE B[Parent(k)] <= B[k]
  <2>1. Parent(k) \in 1 .. n - 1 BY <1>1
  <2>2. CASE k = i
    <3>1. ~ (B[k] < B[Parent(k)]) BY <2>2
    <3>2. B[k] \in Int /\ B[Parent(k)] \in Int BY <1>1, <1>5
    <3> QED BY <3>1, <3>2
  <2>3. CASE k # i
    <3>1. B[k] = A[k] BY <1>4, <2>3
    <3>2. B[Parent(k)] = A[Parent(k)] BY <1>4, <1>8, <2>1
    <3> QED BY <1>2, <3>1, <3>2
  <2> QED BY <2>2, <2>3
<1>9. ASSUME i > 1, NEW k \in 2 .. n - 1, Parent(k) = i PROVE B[Parent(i)] <= B[k]
  <2>1. i \in 2 .. n - 1 /\ Parent(i) \in 1 .. n - 1 /\ Parent(i) # i /\ k # i BY <1>1, <1>9
  <2>2. B[k] = A[k] /\ A[i] <= A[k]
    <3>1. B[k] = A[k] BY <1>1, <1>4, <2>1
    <3>2. A[i] <= A[k] BY <1>2, <1>9
    <3> QED BY <3>1, <3>2
  <2>3. B[Parent(i)] = A[Parent(i)] BY <1>4, <2>1
  <2>4. A[Parent(i)] <= A[i] BY <1>2, <2>1
  <2>5. A[Parent(i)] \in Int /\ A[i] \in Int /\ A[k] \in Int BY <2>1
  <2> QED BY <2>2, <2>3, <2>4, <2>5
<1> QED BY <1>8, <1>9 DEF NotDown

LEMMA SettledIs ==
  ASSUME NEW q \in Queues, NEW i \in 1 .. Len(q.heap), NEW r, r = Settled(q, i)
  PROVE  /\ Reordered(q, r)
         /\ (IF i > 1 /\ Ats(q)[i] < Ats(q)[Parent(i)]
             THEN NotUp(Ats(q), Len(q.heap), i)
             ELSE NotDown(Ats(q), Len(q.heap), i)) => Ordered(r)
<1>1. Len(q.heap) \in Nat BY QueueIs
<1>2. (i > 1 /\ Before(q, i, Parent(i))) <=> (i > 1 /\ Ats(q)[i] < Ats(q)[Parent(i)])
  <2>1. i > 1 => Parent(i) \in 1 .. Len(q.heap) BY <1>1, ParentIs
  <2> QED BY <2>1, AtsAre DEF Before
<1>3. CASE i > 1 /\ Before(q, i, Parent(i))
  <2>1. r = UpHeap(q, i) BY <1>3 DEF Settled
  <2> QED BY <1>2, <1>3, <2>1, UpHeapIs
<1>4. CASE ~ (i > 1 /\ Before(q, i, Parent(i)))
  <2>1. r = DownHeap(q, i) BY <1>4 DEF Settled
  <2> QED BY <1>2, <1>4, <2>1, DownHeapIs
<1> QED BY <1>3, <1>4

\* r is q without the entry at t's index, if there is one.
LessEntry(q, r, t) ==
  /\ r \in Queues /\ SameList(q, r)
  /\ q.index[t] \in DOMAIN q.heap => Len(r.heap) = Len(q.heap) - 1
  /\ q.index[t] \notin DOMAIN q.heap => r = q

\* And the entry is that of t, and the rest as it should be.
LessTimer(q, r, t) ==
  /\ Ordered(r) /\ Indexed(r)
  /\ Entries(r) = {e \in Entries(q) : e.timer # t}
  /\ \A u \in Timers : u \notin InHeap(q) => r.index[u] = q.index[u]

InTheHeap(q, t) == q.index[t] \in DOMAIN q.heap /\ q.heap[q.index[t]].timer = t

\* What the last entry leaves, and what the others are.
LEMMA BackIs ==
  ASSUME NEW q \in Queues, Len(q.heap) > 0, Indexed(q), NEW r, r = PopBack(q),
         NEW t, t = q.heap[Len(q.heap)].timer
  PROVE  /\ Indexed(r) /\ Entries(r) = {e \in Entries(q) : e.timer # t}
         /\ r.index = q.index
<1> DEFINE n == Len(q.heap)
<1>1. /\ r \in Queues /\ SameList(q, r) /\ r.index = q.index
      /\ Len(r.heap) = n - 1
      /\ \A k \in 1 .. n - 1 : r.heap[k] = q.heap[k]
  BY PopBackIs
<1>2. n \in Nat /\ n \in 1 .. n /\ \A k \in 1 .. n - 1 : k \in 1 .. n BY QueueIs
<1>3. \A k \in 1 .. n : q.index[q.heap[k].timer] = k BY DEF Indexed
<1> HIDE DEF n
<1>4. Indexed(r)
  <2>1. ASSUME NEW k \in 1 .. n - 1 PROVE r.index[r.heap[k].timer] = k
    <3>1. r.heap[k] = q.heap[k] /\ k \in 1 .. n BY <1>1, <1>2
    <3> QED BY <1>1, <1>3, <3>1
  <2> QED BY <1>1, <2>1 DEF Indexed
<1>5. Entries(r) = {q.heap[k] : k \in 1 .. n - 1} BY <1>1 DEF Entries
<1>6. Entries(q) = {q.heap[k] : k \in 1 .. n} BY DEF Entries, n
<1>7. ASSUME NEW k \in 1 .. n PROVE q.heap[k].timer # t <=> k \in 1 .. n - 1
  <2>1. t = q.heap[n].timer BY DEF n
  <2>2. q.heap[k].timer = t => k = n BY <1>2, <1>3, <2>1
  <2>3. k = n => q.heap[k].timer = t BY <2>1
  <2>4. k # n <=> k \in 1 .. n - 1 BY <1>2
  <2> QED BY <2>2, <2>3, <2>4
<1>8. ASSUME NEW e \in Entries(r) PROVE e \in Entries(q) /\ e.timer # t
  <2>1. PICK k \in 1 .. n - 1 : e = q.heap[k] BY <1>5
  <2>2. k \in 1 .. n BY <1>2
  <2> QED BY <1>6, <1>7, <2>1, <2>2
<1>9. ASSUME NEW e \in Entries(q), e.timer # t PROVE e \in Entries(r)
  <2>1. PICK k \in 1 .. n : e = q.heap[k] BY <1>6
  <2> QED BY <1>5, <1>7, <1>9, <2>1
<1>10. Entries(r) = {e \in Entries(q) : e.timer # t} BY <1>8, <1>9
<1> QED BY <1>1, <1>4, <1>10

LEMMA OutOfHeapIs ==
  ASSUME NEW q \in Queues, NEW t \in Timers, NEW r, r = OutOfHeap(q, t)
  PROVE  /\ LessEntry(q, r, t)
         /\ Ordered(q) /\ Indexed(q) /\ InTheHeap(q, t) => LessTimer(q, r, t)
<1> DEFINE n == Len(q.heap)
           i == q.index[t]
<1>1. n \in Nat /\ i \in Nat /\ DOMAIN q.heap = 1 .. n BY QueueIs
<1>2. CASE i = NoIndex \/ i > n
  <2>1. r = q BY <1>2 DEF OutOfHeap
  <2>2. i \notin DOMAIN q.heap BY <1>1, <1>2 DEF NoIndex
  <2> QED BY <2>1, <2>2 DEF LessEntry, InTheHeap, SameList
<1>3. CASE ~ (i = NoIndex \/ i > n) /\ i = n
  <2>1. r = PopBack(q) BY <1>3 DEF OutOfHeap
  <2>2. i \in DOMAIN q.heap /\ n > 0 BY <1>1, <1>3 DEF NoIndex
  <2>3. /\ r \in Queues /\ SameList(q, r) /\ r.index = q.index /\ Len(r.heap) = n - 1
        /\ \A k \in 1 .. n - 1 : r.heap[k] = q.heap[k]
    BY <2>1, <2>2, PopBackIs
  <2>4. LessEntry(q, r, t) BY <2>2, <2>3 DEF LessEntry
  <2>5. ASSUME Ordered(q), Indexed(q), InTheHeap(q, t) PROVE LessTimer(q, r, t)
    <3>1. t = q.heap[n].timer BY <1>3, <2>5 DEF InTheHeap
    <3>2. Indexed(r) /\ Entries(r) = {e \in Entries(q) : e.timer # t}
      BY <2>1, <2>2, <2>5, <3>1, BackIs
    <3>3. Rises(Ats(q), n) BY <2>5, OrderedIs
    <3>4. \A k \in 1 .. n - 1 : Ats(r)[k] = Ats(q)[k]
      <4> TAKE k \in 1 .. n - 1
      <4>1. k \in 1 .. n /\ k \in 1 .. Len(r.heap) BY <1>1, <2>3
      <4>2. Ats(q)[k] = q.heap[k].at /\ Ats(r)[k] = r.heap[k].at BY <2>3, <4>1, AtsAre
      <4> QED BY <2>3, <4>2
    <3>5. Rises(Ats(r), n - 1)
      <4> SUFFICES ASSUME NEW k \in 2 .. n - 1 PROVE Ats(r)[Parent(k)] <= Ats(r)[k] BY DEF Rises
      <4>1. k \in 2 .. n /\ k \in 1 .. n - 1 /\ Parent(k) \in 1 .. n - 1 BY <1>1, ParentIs
      <4>2. Ats(q)[Parent(k)] <= Ats(q)[k] BY <3>3, <4>1 DEF Rises
      <4> QED BY <3>4, <4>1, <4>2
    <3>6. Ordered(r) BY <2>3, <3>5, OrderedIs
    <3> QED BY <2>3, <3>2, <3>6 DEF LessTimer
  <2> QED BY <2>4, <2>5
<1>4. CASE ~ (i = NoIndex \/ i > n) /\ i # n
  <2> DEFINE s == Swap(q, i, n)
             b == PopBack(s)
  <2>1. r = Settled(b, i) BY <1>4 DEF OutOfHeap
  <2>2. i \in 1 .. n /\ n \in 1 .. n /\ i \in 1 .. n - 1 /\ n > 0 BY <1>1, <1>4 DEF NoIndex
  <2>3. /\ Reordered(q, s) /\ s \in Queues /\ Len(s.heap) = n
        /\ Exchanged(Ats(q), Ats(s), n, i, n)
        /\ \A k \in 1 .. n :
             s.heap[k] = IF k = i THEN q.heap[n] ELSE IF k = n THEN q.heap[i] ELSE q.heap[k]
    <3>1. s = Swap(q, i, n) /\ i # n BY <1>4
    <3> HIDE DEF s
    <3>2. i \in 1 .. Len(q.heap) /\ n \in 1 .. Len(q.heap) BY <2>2
    <3> HIDE DEF i
    <3>3. /\ Reordered(q, s) /\ Exchanged(Ats(q), Ats(s), n, i, n)
          /\ \A k \in 1 .. n :
               s.heap[k] = IF k = i THEN q.heap[n] ELSE IF k = n THEN q.heap[i] ELSE q.heap[k]
      BY <3>1, <3>2, SwapReorders
    <3> QED BY <3>3 DEF Reordered
  <2> HIDE DEF s
  <2>4. /\ b \in Queues /\ SameList(s, b) /\ b.index = s.index /\ Len(b.heap) = n - 1
        /\ \A k \in 1 .. n - 1 : b.heap[k] = s.heap[k]
    BY <2>2, <2>3, PopBackIs
  <2>5. b = PopBack(s) OBVIOUS
  <2> HIDE DEF b
  <2>6. /\ Reordered(b, r)
        /\ (IF i > 1 /\ Ats(b)[i] < Ats(b)[Parent(i)]
            THEN NotUp(Ats(b), n - 1, i) ELSE NotDown(Ats(b), n - 1, i)) => Ordered(r)
    BY <2>1, <2>2, <2>4, SettledIs
  <2>7. r \in Queues /\ SameList(q, r) /\ Len(r.heap) = n - 1
    BY <2>3, <2>4, <2>6 DEF Reordered, SameList
  <2>8. LessEntry(q, r, t) BY <1>1, <2>2, <2>7 DEF LessEntry
  <2>9. ASSUME Ordered(q), Indexed(q), InTheHeap(q, t) PROVE LessTimer(q, r, t)
    <3>1. t = s.heap[n].timer
      <4>1. s.heap[n] = q.heap[i] BY <1>4, <2>2, <2>3
      <4>2. q.heap[i].timer = t BY <2>9 DEF InTheHeap
      <4> QED BY <4>1, <4>2
    <3>2. /\ Indexed(s) /\ Entries(s) = Entries(q)
          /\ \A u \in Timers : u \notin InHeap(q) => s.index[u] = q.index[u]
      BY <2>3, <2>9 DEF Reordered
    <3>3. Indexed(b) /\ Entries(b) = {e \in Entries(s) : e.timer # t} /\ b.index = s.index
      <4>1. s \in Queues /\ Len(s.heap) > 0 /\ t = s.heap[Len(s.heap)].timer BY <2>2, <2>3, <3>1
      <4>2. Indexed(s) BY <3>2
      <4> HIDE DEF n, i
      <4> QED BY <2>5, <4>1, <4>2, BackIs
    <3>4. /\ Indexed(r) /\ Entries(r) = Entries(b)
          /\ \A u \in Timers : u \notin InHeap(b) => r.index[u] = b.index[u]
      BY <2>6, <3>3 DEF Reordered
    <3>5. InHeap(q) = {e.timer : e \in Entries(q)} /\ InHeap(b) = {e.timer : e \in Entries(b)}
      BY DEF InHeap, Entries
    <3>6. InHeap(b) \subseteq InHeap(q) BY <3>2, <3>3, <3>5
    <3>7. \A u \in Timers : u \notin InHeap(q) => r.index[u] = q.index[u]
      BY <3>2, <3>3, <3>4, <3>6
    <3>8. Entries(r) = {e \in Entries(q) : e.timer # t} BY <3>2, <3>3, <3>4
    <3>9. Rises(Ats(q), n) BY <2>9, OrderedIs
    <3>10. Ats(q) \in [1 .. n -> Int] /\ Ats(b) \in [1 .. n - 1 -> Int] BY <2>4, AtsAre
    <3>11. Filled(Ats(q), Ats(b), n, i)
      <4> SUFFICES ASSUME NEW k \in 1 .. n - 1
                   PROVE  Ats(b)[k] = IF k = i THEN Ats(q)[n] ELSE Ats(q)[k]
        BY DEF Filled
      <4>1. k \in 1 .. n /\ k # n BY <1>1
      <4>2. Ats(b)[k] = b.heap[k].at BY <2>4, AtsAre
      <4>3. Ats(s)[k] = s.heap[k].at BY <2>3, <4>1, AtsAre
      <4>4. b.heap[k] = s.heap[k] BY <2>4
      <4>5. Ats(s)[k] = IF k = i THEN Ats(q)[n] ELSE Ats(q)[k] BY <2>3, <4>1 DEF Exchanged
      <4> QED BY <4>2, <4>3, <4>4, <4>5
    <3>12. Ordered(r)
      <4>1. CASE i > 1 /\ Ats(b)[i] < Ats(b)[Parent(i)]
        <5>1. NotUp(Ats(b), n - 1, i) BY <1>1, <2>2, <3>9, <3>10, <3>11, <4>1, GapUp
        <5> QED BY <2>6, <4>1, <5>1
      <4>2. CASE ~ (i > 1 /\ Ats(b)[i] < Ats(b)[Parent(i)])
        <5>1. NotDown(Ats(b), n - 1, i) BY <1>1, <2>2, <3>9, <3>10, <3>11, <4>2, GapDown
        <5> QED BY <2>6, <4>2, <5>1
      <4> QED BY <4>1, <4>2
    <3> QED BY <3>4, <3>7, <3>8, <3>12 DEF LessTimer
  <2> QED BY <2>8, <2>9
<1> QED BY <1>2, <1>3, <1>4

\* r is q with an entry for t.
MoreEntry(q, r) == r \in Queues /\ SameList(q, r) /\ Len(r.heap) = Len(q.heap) + 1
MoreTimer(q, r, t, at) ==
  /\ Ordered(r) /\ Indexed(r)
  /\ Entries(r) = Entries(q) \cup {[at |-> at, timer |-> t]}
  /\ \A u \in Timers : u \notin InHeap(q) /\ u # t => r.index[u] = q.index[u]

LEMMA PushedIs ==
  ASSUME NEW q \in Queues, NEW t \in Timers, NEW at \in Times, NEW r, r = Pushed(q, t, at)
  PROVE  /\ MoreEntry(q, r)
         /\ Ordered(q) /\ Indexed(q) /\ t \notin InHeap(q) => MoreTimer(q, r, t, at)
<1> DEFINE n == Len(q.heap)
           e == [at |-> at, timer |-> t]
           c == [q EXCEPT !.heap = Append(@, e), !.index[t] = n + 1]
<1>1. q.heap \in Seq(HeapEntries) /\ n \in Nat /\ Whole(q) /\ e \in HeapEntries
  BY QueueIs DEF HeapEntries
<1>2. PICK h : h = Append(q.heap, e) OBVIOUS
<1>3. PICK x : x = [q.index EXCEPT ![t] = n + 1] OBVIOUS
<1>4. /\ h \in Seq(HeapEntries) /\ Len(h) = n + 1 /\ h[n + 1] = e
      /\ \A k \in 1 .. n : h[k] = q.heap[k]
  BY <1>1, <1>2, AppendProperties
<1>5. x \in [Timers -> Nat] /\ x[t] = n + 1 /\ \A u \in Timers : u # t => x[u] = q.index[u]
  BY <1>1, <1>3, QueueIs
<1>6. c = [q EXCEPT !.heap = h, !.index = x] BY <1>2, <1>3
<1>7. c = [heap |-> h, index |-> x, next |-> q.next, prev |-> q.prev,
           first |-> q.first, ops |-> q.ops]
  <2> HIDE DEF c, e
  <2> QED BY <1>1, <1>6 DEF Whole
<1>8. r = UpHeap(c, n + 1) BY DEF Pushed
<1> HIDE DEF c
<1>9. c.heap = h /\ c.index = x /\ SameList(q, c) /\ Len(c.heap) = n + 1 BY <1>4, <1>7 DEF SameList
<1>10. c \in Queues
  <2>1. h \in Seq([at : Times, timer : Timers]) BY <1>4 DEF HeapEntries
  <2> QED BY <1>5, <1>7, <2>1, QueueIs DEF Queues
<1>11. Reordered(c, r) /\ (NotUp(Ats(c), n + 1, n + 1) => Ordered(r))
  <2>1. n + 1 \in 1 .. Len(c.heap) BY <1>1, <1>9
  <2> QED BY <1>8, <1>9, <1>10, <2>1, UpHeapIs
<1>12. MoreEntry(q, r) BY <1>9, <1>11 DEF Reordered, MoreEntry, SameList
<1>13. ASSUME Ordered(q), Indexed(q), t \notin InHeap(q) PROVE MoreTimer(q, r, t, at)
  <2>1. ASSUME NEW k \in 1 .. n
        PROVE  c.heap[k] = q.heap[k] /\ q.heap[k].timer # t /\ q.heap[k].timer \in Timers
               /\ q.index[q.heap[k].timer] = k
    <3>1. c.heap[k] = q.heap[k] BY <1>4, <1>9
    <3>2. q.heap[k].timer # t BY <1>13 DEF InHeap
    <3>3. q.heap[k].timer \in Timers BY EntryIs
    <3>4. q.index[q.heap[k].timer] = k BY <1>13 DEF Indexed
    <3> QED BY <3>1, <3>2, <3>3, <3>4
  <2>2. \A k \in 1 .. n + 1 : k \in 1 .. n \/ k = n + 1 BY <1>1
  <2>3. Indexed(c)
    <3> SUFFICES ASSUME NEW k \in 1 .. n + 1 PROVE c.index[c.heap[k].timer] = k
      BY <1>9 DEF Indexed
    <3>1. CASE k = n + 1
      <4>1. c.heap[k].timer = t BY <1>4, <1>9, <3>1
      <4> QED BY <1>5, <1>9, <3>1, <4>1
    <3>2. CASE k \in 1 .. n BY <1>5, <1>9, <2>1, <3>2
    <3> QED BY <2>2, <3>1, <3>2
  <2>4. Entries(c) = Entries(q) \cup {e}
    <3>1. Entries(c) = {c.heap[k] : k \in 1 .. n + 1} /\ Entries(q) = {q.heap[k] : k \in 1 .. n}
      BY <1>9 DEF Entries
    <3>2. \A k \in 1 .. n : k \in 1 .. n + 1 BY <1>1
    <3>3. n + 1 \in 1 .. n + 1 BY <1>1
    <3>4. c.heap[n + 1] = e BY <1>4, <1>9
    <3>5. ASSUME NEW f \in Entries(c) PROVE f \in Entries(q) \cup {e}
      <4>1. PICK k \in 1 .. n + 1 : f = c.heap[k] BY <3>1
      <4>2. CASE k = n + 1 BY <3>4, <4>1, <4>2
      <4>3. CASE k \in 1 .. n BY <2>1, <3>1, <4>1, <4>3
      <4> QED BY <2>2, <4>2, <4>3
    <3>6. ASSUME NEW f \in Entries(q) PROVE f \in Entries(c)
      <4>1. PICK k \in 1 .. n : f = q.heap[k] BY <3>1
      <4> QED BY <2>1, <3>1, <3>2, <4>1
    <3>7. e \in Entries(c) BY <3>1, <3>3, <3>4
    <3> HIDE DEF e
    <3> QED BY <3>5, <3>6, <3>7
  <2>5. /\ Indexed(r) /\ Entries(r) = Entries(c)
        /\ \A u \in Timers : u \notin InHeap(c) => r.index[u] = c.index[u]
    BY <1>11, <2>3 DEF Reordered
  <2>6. ASSUME NEW u \in Timers, u \notin InHeap(q), u # t PROVE r.index[u] = q.index[u]
    <3>1. InHeap(q) = {f.timer : f \in Entries(q)} /\ InHeap(c) = {f.timer : f \in Entries(c)}
      BY DEF InHeap, Entries
    <3>2. e.timer = t OBVIOUS
    <3> HIDE DEF e
    <3>3. u \notin InHeap(c)
      <4> SUFFICES ASSUME u \in InHeap(c) PROVE FALSE OBVIOUS
      <4>1. PICK f \in Entries(c) : u = f.timer BY <3>1
      <4>2. f \in Entries(q) \/ f = e BY <2>4
      <4> QED BY <2>6, <3>1, <3>2, <4>1, <4>2
    <3> QED BY <1>5, <1>9, <2>5, <2>6, <3>3
  <2>7. NotUp(Ats(c), n + 1, n + 1)
    <3>1. Rises(Ats(q), n) BY <1>13, OrderedIs
    <3>2. \A k \in 1 .. n : Ats(c)[k] = Ats(q)[k]
      <4> TAKE k \in 1 .. n
      <4>1. k \in 1 .. Len(c.heap) BY <1>1, <1>9
      <4>2. Ats(c)[k] = c.heap[k].at /\ Ats(q)[k] = q.heap[k].at BY <1>10, <4>1, AtsAre
      <4> QED BY <2>1, <4>2
    <3>3. ASSUME NEW k \in 2 .. n + 1, k # n + 1 PROVE Ats(c)[Parent(k)] <= Ats(c)[k]
      <4>1. k \in 2 .. n /\ k \in 1 .. n /\ Parent(k) \in 1 .. n BY <1>1, <3>3, ParentIs
      <4>2. Ats(q)[Parent(k)] <= Ats(q)[k] BY <3>1, <4>1 DEF Rises
      <4> QED BY <3>2, <4>1, <4>2
    <3>4. \A k \in 2 .. n + 1 : Parent(k) # n + 1 BY <1>1, ParentIs
    <3> QED BY <3>3, <3>4 DEF NotUp
  <2> QED BY <1>11, <2>4, <2>5, <2>6, <2>7 DEF MoreTimer
<1> QED BY <1>12, <1>13

----------------------------------------------------------------------------
(* The list.                                                               *)

Listed(q) == {t \in Timers : Active(q, t)}

Head1(q) == q.first # Null => q.prev[q.first] = Null
Forth(q) == \A t \in Timers : Active(q, t) /\ q.next[t] # Null => q.prev[q.next[t]] = t
Back(q)  == \A t \in Timers :
              q.prev[t] # Null => Active(q, q.prev[t]) /\ q.next[q.prev[t]] = t
\* No active timer is out of the head's reach.
Reached(q) == \A S \in SUBSET Timers : HoldsList(q, S) => Listed(q) \subseteq S

Linear(q) == Head1(q) /\ Forth(q) /\ Back(q) /\ Reached(q)

SameHeap(q, r) == r.heap = q.heap /\ r.index = q.index /\ r.ops = q.ops

LEMMA NullIsNoTimer == Null \notin Timers /\ Null \notin Waits /\ Null \notin Completions
BY ReactorAssumption DEF ReactorAssumption

LEMMA LinksAre ==
  ASSUME NEW q \in Queues
  PROVE  /\ q.first # Null => q.first \in Timers /\ Active(q, q.first)
         /\ \A t \in Timers : q.next[t] # Null => q.next[t] \in Timers
         /\ \A t \in Timers : q.prev[t] # Null => q.prev[t] \in Timers
         /\ \A t \in Timers : ~ Active(q, t) => q.prev[t] = Null /\ q.first # t
BY QueueIs DEF Active

LEMMA ActiveTimersAre ==
  ASSUME NEW q \in Queues, Linear(q)
  PROVE  ActiveTimers(q) = Listed(q)
<1>1. HoldsList(q, Listed(q))
  <2>1. q.first # Null => q.first \in Listed(q) BY LinksAre DEF Listed
  <2>2. ASSUME NEW t \in Listed(q), q.next[t] # Null PROVE q.next[t] \in Listed(q)
    <3>1. t \in Timers /\ Active(q, t) BY DEF Listed
    <3>2. q.next[t] \in Timers /\ q.prev[q.next[t]] = t BY <2>2, <3>1, LinksAre DEF Linear, Forth
    <3>3. Active(q, q.next[t]) BY <3>1, <3>2, NullIsNoTimer DEF Active
    <3> QED BY <3>2, <3>3 DEF Listed
  <2> QED BY <2>1, <2>2 DEF HoldsList
<1>2. Listed(q) \in SUBSET Timers BY DEF Listed
<1>3. ActiveTimers(q) \subseteq Listed(q) BY <1>1, <1>2 DEF ActiveTimers
<1>4. Listed(q) \subseteq ActiveTimers(q)
  <2> SUFFICES ASSUME NEW t \in Listed(q) PROVE t \in ActiveTimers(q) OBVIOUS
  <2>1. t \in Timers BY DEF Listed
  <2>2. \A S \in SUBSET Timers : HoldsList(q, S) => t \in S BY DEF Linear, Reached
  <2> QED BY <2>1, <2>2 DEF ActiveTimers
<1> QED BY <1>3, <1>4

\* A set that holds the list holds its active timers alone too.
LEMMA OnlyListed ==
  ASSUME NEW q \in Queues, Linear(q), NEW S \in SUBSET Timers,
         q.first # Null => q.first \in S,
         \A t \in S : Active(q, t) /\ q.next[t] # Null => q.next[t] \in S
  PROVE  Listed(q) \subseteq S
<1> DEFINE T == S \cap Listed(q)
<1>1. T \in SUBSET Timers OBVIOUS
<1>2. HoldsList(q, T)
  <2>1. q.first # Null => q.first \in T BY LinksAre DEF Listed
  <2>2. ASSUME NEW t \in T, q.next[t] # Null PROVE q.next[t] \in T
    <3>1. t \in Timers /\ Active(q, t) /\ t \in S BY DEF Listed
    <3>2. q.next[t] \in Timers /\ q.prev[q.next[t]] = t BY <2>2, <3>1, LinksAre DEF Linear, Forth
    <3>3. Active(q, q.next[t]) BY <3>1, <3>2, NullIsNoTimer DEF Active
    <3> QED BY <2>2, <3>1, <3>2, <3>3 DEF Listed
  <2> HIDE DEF T
  <2> QED BY <2>1, <2>2 DEF HoldsList
<1>3. Listed(q) \subseteq T BY <1>1, <1>2 DEF Linear, Reached
<1> QED BY <1>3

LEMMA UnlinkedFields ==
  ASSUME NEW q \in Queues, NEW t \in Timers, NEW r, r = Unlinked(q, t)
  PROVE  /\ r \in Queues /\ SameHeap(q, r)
         /\ r.first = IF q.first = t THEN q.next[t] ELSE q.first
         /\ \A u \in Timers :
              /\ r.next[u] = IF u = t THEN Null ELSE IF u = q.prev[t] THEN q.next[t] ELSE q.next[u]
              /\ r.prev[u] = IF u = t THEN Null ELSE IF u = q.next[t] THEN q.prev[t] ELSE q.prev[u]
<1>1. PICK f : f = IF q.first = t THEN q.next[t] ELSE q.first OBVIOUS
<1>2. PICK x : x = [u \in Timers |-> IF u = t THEN Null
                                     ELSE IF u = q.prev[t] THEN q.next[t] ELSE q.next[u]]
  OBVIOUS
<1>3. PICK p : p = [u \in Timers |-> IF u = t THEN Null
                                     ELSE IF u = q.next[t] THEN q.prev[t] ELSE q.prev[u]]
  OBVIOUS
<1>4. r = [q EXCEPT !.first = f, !.next = x, !.prev = p] BY <1>1, <1>2, <1>3 DEF Unlinked
<1>5. r = [heap |-> q.heap, index |-> q.index, next |-> x, prev |-> p, first |-> f, ops |-> q.ops]
  BY <1>4, QueueIs DEF Whole
<1>6. /\ f \in Timers \cup {Null} /\ x \in [Timers -> Timers \cup {Null}]
      /\ p \in [Timers -> Timers \cup {Null}]
  BY <1>1, <1>2, <1>3, QueueIs
<1>7. q.heap \in Seq([at : Times, timer : Timers]) BY QueueIs DEF HeapEntries
<1>8. r \in Queues BY <1>5, <1>6, <1>7, QueueIs DEF Queues
<1>9. SameHeap(q, r) /\ r.first = f /\ r.next = x /\ r.prev = p BY <1>5 DEF SameHeap
<1> QED BY <1>1, <1>2, <1>3, <1>8, <1>9

\* r is q without t in its list.
LEMMA UnlinkedIs ==
  ASSUME NEW q \in Queues, NEW t \in Timers, NEW r, r = Unlinked(q, t), Linear(q), Active(q, t)
  PROVE  Linear(r) /\ Listed(r) = Listed(q) \ {t}
<1> DEFINE p == q.prev[t]
           n == q.next[t]
<1>1. /\ r \in Queues
      /\ r.first = IF q.first = t THEN n ELSE q.first
      /\ \A u \in Timers :
           /\ r.next[u] = IF u = t THEN Null ELSE IF u = p THEN n ELSE q.next[u]
           /\ r.prev[u] = IF u = t THEN Null ELSE IF u = n THEN p ELSE q.prev[u]
  BY UnlinkedFields
<1>2. /\ q.first # Null => q.first \in Timers /\ q.prev[q.first] = Null
      /\ \A u \in Timers : Active(q, u) /\ q.next[u] # Null => q.next[u] \in Timers /\ q.prev[q.next[u]] = u
      /\ \A u \in Timers : q.prev[u] # Null =>
           q.prev[u] \in Timers /\ Active(q, q.prev[u]) /\ q.next[q.prev[u]] = u
  BY LinksAre DEF Linear, Head1, Forth, Back
<1>3. n # Null => n \in Timers /\ q.prev[n] = t BY <1>2
<1>4. p # Null => p \in Timers /\ Active(q, p) /\ q.next[p] = t BY <1>2
<1>5. p = Null => q.first = t BY DEF Active
<1> HIDE DEF p, n
<1>6. \A u \in Timers : Active(q, u) <=> q.prev[u] # Null \/ q.first = u BY DEF Active
<1>7. \A u \in Timers : Active(r, u) <=> r.prev[u] # Null \/ r.first = u BY DEF Active
<1>8. p = q.prev[t] /\ n = q.next[t] BY DEF p, n
<1>9. q.first = t => p = Null /\ n # t BY <1>2, <1>3, <1>8, NullIsNoTimer
<1>10. ASSUME NEW u \in Timers PROVE Active(r, u) <=> u # t /\ Active(q, u)
  <2>1. CASE u = t BY <1>1, <1>7, <1>9, <2>1
  <2>2. CASE u # t /\ u = n BY <1>1, <1>3, <1>5, <1>6, <1>7, <2>2, NullIsNoTimer
  <2>3. CASE u # t /\ u # n BY <1>1, <1>6, <1>7, <2>3
  <2> QED BY <2>1, <2>2, <2>3
<1>11. Listed(r) = Listed(q) \ {t} BY <1>10 DEF Listed
<1>12. Head1(r)
  <2>1. SUFFICES ASSUME r.first # Null PROVE r.prev[r.first] = Null BY DEF Head1
  <2>2. CASE q.first = t BY <1>1, <1>3, <1>9, <2>1, <2>2
  <2>3. CASE q.first # t BY <1>1, <1>2, <1>3, <1>8, <2>1, <2>3, NullIsNoTimer
  <2> QED BY <2>2, <2>3
<1>13. Forth(r)
  <2> SUFFICES ASSUME NEW u \in Timers, Active(r, u), r.next[u] # Null PROVE r.prev[r.next[u]] = u
    BY DEF Forth
  <2>1. u # t /\ Active(q, u) BY <1>10
  <2>2. CASE u = p
    <3>1. r.next[u] = n /\ n # Null BY <1>1, <2>1, <2>2
    <3>2. n # t BY <1>3, <1>8, <2>1, <2>2, <3>1
    <3> QED BY <1>1, <1>3, <2>2, <3>1, <3>2
  <2>3. CASE u # p
    <3>1. r.next[u] = q.next[u] BY <1>1, <2>1, <2>3
    <3>2. q.next[u] \in Timers /\ q.prev[q.next[u]] = u BY <1>2, <2>1, <3>1
    <3>3. q.next[u] # t BY <1>8, <2>3, <3>2
    <3>4. q.next[u] # n BY <1>3, <2>1, <3>2, NullIsNoTimer
    <3> QED BY <1>1, <3>1, <3>2, <3>3, <3>4
  <2> QED BY <2>2, <2>3
<1>14. Back(r)
  <2> SUFFICES ASSUME NEW u \in Timers, r.prev[u] # Null
               PROVE  Active(r, r.prev[u]) /\ r.next[r.prev[u]] = u
    BY DEF Back
  <2>1. u # t BY <1>1
  <2>2. CASE u = n
    <3>1. r.prev[u] = p /\ p # Null BY <1>1, <2>1, <2>2
    <3>2. p # t BY <1>4, <1>8, <2>1, <2>2, <3>1
    <3> QED BY <1>1, <1>4, <1>10, <2>2, <3>1, <3>2
  <2>3. CASE u # n
    <3>1. r.prev[u] = q.prev[u] BY <1>1, <2>1, <2>3
    <3>2. q.prev[u] \in Timers /\ Active(q, q.prev[u]) /\ q.next[q.prev[u]] = u BY <1>2, <3>1
    <3>3. q.prev[u] # t BY <1>8, <2>3, <3>2
    <3>4. q.prev[u] # p BY <1>4, <2>1, <3>1, <3>2
    <3> QED BY <1>1, <1>10, <3>1, <3>2, <3>3, <3>4
  <2> QED BY <2>2, <2>3
<1>15. Reached(r)
  <2> SUFFICES ASSUME NEW S \in SUBSET Timers, HoldsList(r, S) PROVE Listed(r) \subseteq S
    BY DEF Reached
  <2> DEFINE T == IF p \in S \/ q.first = t THEN S \cup {t} ELSE S \ {t}
  <2>1. /\ r.first # Null => r.first \in S
        /\ \A u \in S : r.next[u] # Null => r.next[u] \in S
    BY DEF HoldsList
  <2>2. /\ T \in SUBSET Timers /\ S \ {t} \subseteq T /\ \A u \in T : u \in S \/ u = t
        /\ t \in T <=> p \in S \/ q.first = t
    OBVIOUS
  <2> HIDE DEF T
  <2>3. q.first # Null => q.first \in T
    <3>1. CASE q.first = t BY <2>2, <3>1
    <3>2. CASE q.first # t BY <1>1, <2>1, <2>2, <3>2
    <3> QED BY <3>1, <3>2
  <2>4. ASSUME NEW u \in T, Active(q, u), q.next[u] # Null PROVE q.next[u] \in T
    <3>1. CASE u # t /\ u # p
      <4>1. r.next[u] = q.next[u] /\ u \in S BY <1>1, <2>2, <3>1
      <4>2. q.next[u] # t BY <1>2, <1>8, <2>2, <2>4, <3>1
      <4> QED BY <2>1, <2>2, <2>4, <4>1, <4>2
    <3>2. CASE u # t /\ u = p
      <4>1. u \in S /\ q.next[u] = t BY <1>4, <2>2, <3>2, NullIsNoTimer
      <4> QED BY <2>2, <3>2, <4>1
    <3>3. CASE u = t
      <4>1. CASE n = t BY <1>8, <2>4, <3>3, <4>1
      <4>2. CASE n # t /\ q.first = t
        <5>1. r.first = n BY <1>1, <4>2
        <5> QED BY <1>8, <2>1, <2>2, <2>4, <3>3, <4>2, <5>1
      <4>3. CASE n # t /\ q.first # t
        <5>1. p \in S /\ p # t /\ p \in Timers BY <1>4, <1>8, <2>2, <3>3, <4>3, NullIsNoTimer
        <5>2. r.next[p] = n BY <1>1, <5>1
        <5> QED BY <1>8, <2>1, <2>2, <2>4, <3>3, <4>3, <5>1, <5>2
      <4> QED BY <4>1, <4>2, <4>3
    <3> QED BY <3>1, <3>2, <3>3
  <2>5. Listed(q) \subseteq T
    BY <2>2, <2>3, <2>4, OnlyListed
  <2> QED BY <1>11, <2>2, <2>5
<1> QED BY <1>11, <1>12, <1>13, <1>14, <1>15 DEF Linear

LEMMA LinkedFields ==
  ASSUME NEW q \in Queues, NEW t \in Timers, NEW r, r = Linked(q, t)
  PROVE  /\ r \in Queues /\ SameHeap(q, r) /\ r.first = t
         /\ \A u \in Timers :
              /\ r.next[u] = IF u = t THEN q.first ELSE q.next[u]
              /\ r.prev[u] = IF u = q.first THEN t ELSE IF u = t THEN Null ELSE q.prev[u]
<1>2. PICK x : x = [q.next EXCEPT ![t] = q.first] OBVIOUS
<1>3. PICK p : p = [u \in Timers |-> IF u = q.first THEN t
                                     ELSE IF u = t THEN Null ELSE q.prev[u]]
  OBVIOUS
<1>4. r = [q EXCEPT !.first = t, !.next = x, !.prev = p] BY <1>2, <1>3 DEF Linked
<1>5. r = [heap |-> q.heap, index |-> q.index, next |-> x, prev |-> p, first |-> t, ops |-> q.ops]
  BY <1>4, QueueIs DEF Whole
<1>6. x \in [Timers -> Timers \cup {Null}] /\ p \in [Timers -> Timers \cup {Null}]
  BY <1>2, <1>3, QueueIs
<1>7. q.heap \in Seq([at : Times, timer : Timers]) BY QueueIs DEF HeapEntries
<1>8. r \in Queues BY <1>5, <1>6, <1>7, QueueIs DEF Queues
<1>9. SameHeap(q, r) /\ r.first = t /\ r.next = x /\ r.prev = p BY <1>5 DEF SameHeap
<1>10. \A u \in Timers : x[u] = IF u = t THEN q.first ELSE q.next[u] BY <1>2, QueueIs
<1> QED BY <1>3, <1>8, <1>9, <1>10

\* r is q with t at the head of its list.
LEMMA LinkedIs ==
  ASSUME NEW q \in Queues, NEW t \in Timers, NEW r, r = Linked(q, t), Linear(q), ~ Active(q, t)
  PROVE  Linear(r) /\ Listed(r) = Listed(q) \cup {t}
<1> DEFINE f == q.first
<1>1. /\ r \in Queues /\ r.first = t
      /\ \A u \in Timers :
           /\ r.next[u] = IF u = t THEN f ELSE q.next[u]
           /\ r.prev[u] = IF u = f THEN t ELSE IF u = t THEN Null ELSE q.prev[u]
  BY LinkedFields
<1>2. /\ f # Null => f \in Timers /\ q.prev[f] = Null /\ Active(q, f)
      /\ \A u \in Timers : Active(q, u) /\ q.next[u] # Null => q.next[u] \in Timers /\ q.prev[q.next[u]] = u
      /\ \A u \in Timers : q.prev[u] # Null =>
           q.prev[u] \in Timers /\ Active(q, q.prev[u]) /\ q.next[q.prev[u]] = u
  BY LinksAre DEF Linear, Head1, Forth, Back
<1>3. q.prev[t] = Null /\ f # t BY DEF Active
<1>4. \A u \in Timers : Active(q, u) <=> q.prev[u] # Null \/ f = u BY DEF Active
<1> HIDE DEF f
<1>5. \A u \in Timers : Active(r, u) <=> r.prev[u] # Null \/ r.first = u BY DEF Active
<1>6. \A u \in Timers : Active(r, u) <=> u = t \/ Active(q, u) BY <1>1, <1>3, <1>4, <1>5, NullIsNoTimer
<1>7. Listed(r) = Listed(q) \cup {t} BY <1>6 DEF Listed
<1>8. Head1(r) BY <1>1, <1>3 DEF Head1
<1>9. Forth(r)
  <2> SUFFICES ASSUME NEW u \in Timers, Active(r, u), r.next[u] # Null PROVE r.prev[r.next[u]] = u
    BY DEF Forth
  <2>1. CASE u = t BY <1>1, <1>2, <2>1
  <2>2. CASE u # t
    <3>1. r.next[u] = q.next[u] /\ Active(q, u) BY <1>1, <1>6, <2>2
    <3>2. q.next[u] \in Timers /\ q.prev[q.next[u]] = u BY <1>2, <3>1
    <3>3. q.next[u] # f /\ q.next[u] # t BY <1>2, <1>3, <3>2, NullIsNoTimer
    <3> QED BY <1>1, <3>1, <3>2, <3>3
  <2> QED BY <2>1, <2>2
<1>10. Back(r)
  <2> SUFFICES ASSUME NEW u \in Timers, r.prev[u] # Null
               PROVE  Active(r, r.prev[u]) /\ r.next[r.prev[u]] = u
    BY DEF Back
  <2>1. CASE u = f BY <1>1, <1>6, <2>1
  <2>2. CASE u # f
    <3>1. r.prev[u] = q.prev[u] BY <1>1, <2>2
    <3>2. q.prev[u] \in Timers /\ Active(q, q.prev[u]) /\ q.next[q.prev[u]] = u BY <1>2, <3>1
    <3>3. q.prev[u] # t BY <3>2
    <3> QED BY <1>1, <1>6, <3>1, <3>2, <3>3
  <2> QED BY <2>1, <2>2
<1>11. Reached(r)
  <2> SUFFICES ASSUME NEW S \in SUBSET Timers, HoldsList(r, S) PROVE Listed(r) \subseteq S
    BY DEF Reached
  <2> DEFINE T == S \ {t}
  <2>1. t \in S /\ \A u \in S : r.next[u] # Null => r.next[u] \in S
    BY <1>1, NullIsNoTimer DEF HoldsList
  <2>2. f # Null => f \in T BY <1>1, <1>3, <2>1
  <2>3. ASSUME NEW u \in T, Active(q, u), q.next[u] # Null PROVE q.next[u] \in T
    <3>1. r.next[u] = q.next[u] BY <1>1
    <3>2. q.next[u] # t BY <1>2, <1>3, <2>3, NullIsNoTimer
    <3> QED BY <2>1, <2>3, <3>1, <3>2
  <2>4. Listed(q) \subseteq T
    <3>1. T \in SUBSET Timers OBVIOUS
    <3> HIDE DEF T
    <3> QED BY <2>2, <2>3, <3>1, OnlyListed DEF f
  <2> QED BY <1>7, <2>1, <2>4
<1> QED BY <1>7, <1>8, <1>9, <1>10, <1>11 DEF Linear

LEMMA RepointedIs ==
  ASSUME NEW h \in Seq(HeapEntries), NEW i \in Nat, NEW t \in Timers, NEW g, g = Repointed(h, i, t)
  PROVE  /\ g \in Seq(HeapEntries) /\ Len(g) = Len(h)
         /\ \A k \in 1 .. Len(h) :
              /\ g[k] = IF k = i THEN [at |-> h[k].at, timer |-> t] ELSE h[k]
              /\ g[k].at = h[k].at
              /\ g[k].timer = IF k = i THEN t ELSE h[k].timer
<1> DEFINE n == Len(h)
           D == 1 .. n
<1>1. h \in [D -> HeapEntries] /\ n \in Nat /\ DOMAIN h = D OBVIOUS
<1>2. \A k \in D : h[k] = [at |-> h[k].at, timer |-> h[k].timer] /\ h[k].at \in Times
  BY <1>1 DEF HeapEntries
<1>3. CASE i \notin D
  <2>1. g = h BY <1>1, <1>3 DEF Repointed
  <2> QED BY <1>3, <2>1
<1>4. CASE i \in D
  <2>1. PICK e : e = [h[i] EXCEPT !.timer = t] OBVIOUS
  <2>2. g = [h EXCEPT ![i] = e] BY <1>1, <1>4, <2>1 DEF Repointed
  <2>3. e = [at |-> h[i].at, timer |-> t] /\ e \in HeapEntries
    <3>1. PICK a : a = h[i].at OBVIOUS
    <3>2. h[i] = [at |-> a, timer |-> h[i].timer] /\ a \in Times BY <1>2, <1>4, <3>1
    <3>3. e = [at |-> a, timer |-> t] BY <2>1, <3>2
    <3> QED BY <3>1, <3>2, <3>3 DEF HeapEntries
  <2>4. g \in [D -> HeapEntries] BY <1>1, <2>2, <2>3
  <2>5. \A k \in D : g[k] = IF k = i THEN e ELSE h[k] BY <1>1, <2>2
  <2>6. g \in Seq(HeapEntries) /\ Len(g) = n
    <3>1. g \in Seq(HeapEntries) BY <1>1, <2>4, SeqDef
    <3> QED BY <1>1, <2>4, <3>1, LenProperties
  <2> QED BY <2>3, <2>5, <2>6
<1> QED BY <1>3, <1>4

\* The fields of Moved(q, t, s).
MovedLinks(q, r, t, s) ==
  /\ r.first = IF q.first = s THEN t ELSE q.first
  /\ \A u \in Timers :
       /\ r.next[u] = IF u = t THEN q.next[s] ELSE IF u = q.prev[s] THEN t ELSE q.next[u]
       /\ r.prev[u] = IF u = q.next[s] THEN t ELSE IF u = t THEN q.prev[s] ELSE q.prev[u]
MovedData(q, r, t, s) ==
  /\ r.heap = Repointed(q.heap, q.index[s], t)
  /\ \A u \in Timers :
       /\ r.ops[u] = IF u = t THEN q.ops[t] \o q.ops[s] ELSE IF u = s THEN << >> ELSE q.ops[u]
       /\ r.index[u] = IF u = t THEN q.index[s] ELSE IF u = s THEN NoIndex ELSE q.index[u]

LEMMA MovedFields ==
  ASSUME NEW q \in Queues, NEW t \in Timers, NEW s \in Timers, s # t, NEW r, r = Moved(q, t, s)
  PROVE  r \in Queues /\ MovedLinks(q, r, t, s) /\ MovedData(q, r, t, s)
<1> DEFINE i == q.index[s]
<1>1. PICK x : x = [u \in Timers |-> IF u = t THEN q.next[s]
                                     ELSE IF u = q.prev[s] THEN t ELSE q.next[u]] OBVIOUS
<1>2. PICK p : p = [u \in Timers |-> IF u = q.next[s] THEN t
                                     ELSE IF u = t THEN q.prev[s] ELSE q.prev[u]] OBVIOUS
<1>3. PICK o : o = [q.ops EXCEPT ![t] = @ \o q.ops[s], ![s] = << >>] OBVIOUS
<1>4. PICK d : d = [q.index EXCEPT ![t] = i, ![s] = NoIndex] OBVIOUS
<1>5. PICK f : f = IF q.first = s THEN t ELSE q.first OBVIOUS
<1>6. PICK h : h = Repointed(q.heap, i, t) OBVIOUS
<1>7. r = [q EXCEPT !.ops = o, !.index = d, !.heap = h, !.prev = p, !.next = x, !.first = f]
  <2>1. r = [q EXCEPT !.ops[t] = @ \o q.ops[s], !.ops[s] = << >>,
                      !.index[t] = i, !.index[s] = NoIndex,
                      !.heap = h, !.prev = p, !.next = x, !.first = f]
    BY <1>1, <1>2, <1>5, <1>6 DEF Moved
  <2>2. r = [q EXCEPT !.ops = o, !.index = d, !.heap = h, !.prev = p, !.next = x, !.first = f]
    BY <1>3, <1>4, <2>1, ZenonT(60)
  <2> QED BY <2>2
<1>8. r = [heap |-> h, index |-> d, next |-> x, prev |-> p, first |-> f, ops |-> o]
  <2>1. q = [heap |-> q.heap, index |-> q.index, next |-> q.next, prev |-> q.prev,
             first |-> q.first, ops |-> q.ops]
    BY QueueIs DEF Whole
  <2> QED BY <1>7, <2>1
<1>9. h \in Seq([at : Times, timer : Timers]) BY <1>6, QueueIs, RepointedIs DEF HeapEntries
<1>10. /\ x \in [Timers -> Timers \cup {Null}] /\ p \in [Timers -> Timers \cup {Null}]
       /\ f \in Timers \cup {Null}
  BY <1>1, <1>2, <1>5, QueueIs
<1>11. q.ops \in [Timers -> Seq(Waits)] /\ q.index \in [Timers -> Nat] BY QueueIs
<1>12. PICK c : c = q.ops[t] \o q.ops[s] OBVIOUS
<1>13. c \in Seq(Waits) BY <1>11, <1>12, ConcatProperties
<1>14. o = [q.ops EXCEPT ![t] = c, ![s] = << >>] BY <1>3, <1>11, <1>12
<1>15. << >> \in Seq(Waits) OBVIOUS
<1>16. o \in [Timers -> Seq(Waits)] /\ \A u \in Timers : o[u] = IF u = t THEN c ELSE IF u = s THEN << >> ELSE q.ops[u]
  BY <1>11, <1>13, <1>14, <1>15
<1>17. d \in [Timers -> Nat] /\ \A u \in Timers : d[u] = IF u = t THEN i ELSE IF u = s THEN NoIndex ELSE q.index[u]
  BY <1>4, <1>11 DEF NoIndex
<1>18. r \in Queues
  <2>1. o \in [Timers -> Seq(Waits)] /\ d \in [Timers -> Nat] BY <1>16, <1>17
  <2>2. [heap |-> h, index |-> d, next |-> x, prev |-> p, first |-> f, ops |-> o] \in Queues
    BY <1>9, <1>10, <2>1, RecordTyped DEF HeapEntries
  <2> QED BY <1>8, <2>2
<1>19. r.heap = h /\ r.index = d /\ r.next = x /\ r.prev = p /\ r.first = f /\ r.ops = o BY <1>8
<1>20. r \in Queues /\ r.heap = Repointed(q.heap, q.index[s], t) BY <1>6, <1>18, <1>19
<1>21. r.first = IF q.first = s THEN t ELSE q.first BY <1>5, <1>19
<1>22. ASSUME NEW u \in Timers
       PROVE  /\ r.next[u] = IF u = t THEN q.next[s] ELSE IF u = q.prev[s] THEN t ELSE q.next[u]
              /\ r.prev[u] = IF u = q.next[s] THEN t ELSE IF u = t THEN q.prev[s] ELSE q.prev[u]
  BY <1>1, <1>2, <1>19
<1>23. ASSUME NEW u \in Timers
       PROVE  /\ r.ops[u] = IF u = t THEN q.ops[t] \o q.ops[s] ELSE IF u = s THEN << >> ELSE q.ops[u]
              /\ r.index[u] = IF u = t THEN q.index[s] ELSE IF u = s THEN NoIndex ELSE q.index[u]
  BY <1>12, <1>16, <1>17, <1>19
<1>24. MovedLinks(q, r, t, s) BY <1>21, <1>22 DEF MovedLinks
<1>25. MovedData(q, r, t, s) BY <1>20, <1>23 DEF MovedData
<1> QED BY <1>20, <1>24, <1>25

\* t takes the place of s in the list, where s is first in it or has no links.
LEMMA MovedList ==
  ASSUME NEW q \in Queues, NEW t \in Timers, NEW s \in Timers, s # t, NEW r, r = Moved(q, t, s),
         Linear(q), ~ Active(q, t), q.prev[s] = Null, Active(q, s) \/ q.next[s] = Null
  PROVE  Linear(r) /\ Listed(r) = IF Active(q, s) THEN (Listed(q) \ {s}) \cup {t} ELSE Listed(q)
<1> DEFINE n == q.next[s]
<1>1. /\ r \in Queues /\ r.first = IF q.first = s THEN t ELSE q.first
      /\ \A u \in Timers :
           /\ r.next[u] = IF u = t THEN n ELSE q.next[u]
           /\ r.prev[u] = IF u = n THEN t ELSE IF u = t THEN Null ELSE q.prev[u]
  <2>0. r \in Queues /\ MovedLinks(q, r, t, s) BY MovedFields
  <2>1. r \in Queues /\ r.first = IF q.first = s THEN t ELSE q.first BY <2>0 DEF MovedLinks
  <2>2. ASSUME NEW u \in Timers
        PROVE  /\ r.next[u] = IF u = t THEN q.next[s] ELSE IF u = q.prev[s] THEN t ELSE q.next[u]
               /\ r.prev[u] = IF u = q.next[s] THEN t ELSE IF u = t THEN q.prev[s] ELSE q.prev[u]
    BY <2>0 DEF MovedLinks
  <2> QED BY <2>1, <2>2, NullIsNoTimer
<1>2. /\ q.first # Null => q.first \in Timers /\ q.prev[q.first] = Null /\ Active(q, q.first)
      /\ \A u \in Timers : Active(q, u) /\ q.next[u] # Null => q.next[u] \in Timers /\ q.prev[q.next[u]] = u
      /\ \A u \in Timers : q.prev[u] # Null =>
           q.prev[u] \in Timers /\ Active(q, q.prev[u]) /\ q.next[q.prev[u]] = u
  BY LinksAre DEF Linear, Head1, Forth, Back
<1>3. q.prev[t] = Null /\ q.first # t BY DEF Active
<1>4. \A u \in Timers : Active(q, u) <=> q.prev[u] # Null \/ q.first = u BY DEF Active
<1>5. \A u \in Timers : Active(r, u) <=> r.prev[u] # Null \/ r.first = u BY DEF Active
<1>6. Active(q, s) <=> q.first = s BY <1>4
<1>7. n # Null => q.first = s /\ n \in Timers /\ q.prev[n] = s /\ n # t /\ n # s
  BY <1>2, <1>3, <1>6, NullIsNoTimer
<1> HIDE DEF n
<1>8. CASE q.first = s
  <2>1. \A u \in Timers : Active(r, u) <=> u = t \/ (u # s /\ Active(q, u))
    BY <1>1, <1>3, <1>4, <1>5, <1>7, <1>8, NullIsNoTimer
  <2>2. Listed(r) = (Listed(q) \ {s}) \cup {t} BY <2>1 DEF Listed
  <2>3. Head1(r) BY <1>1, <1>7, <1>8, NullIsNoTimer DEF Head1
  <2>4. Forth(r)
    <3> SUFFICES ASSUME NEW u \in Timers, Active(r, u), r.next[u] # Null PROVE r.prev[r.next[u]] = u
      BY DEF Forth
    <3>1. CASE u = t BY <1>1, <1>7, <3>1
    <3>2. CASE u # t
      <4>1. r.next[u] = q.next[u] /\ Active(q, u) /\ u # s BY <1>1, <2>1, <3>2
      <4>2. q.next[u] \in Timers /\ q.prev[q.next[u]] = u BY <1>2, <4>1
      <4>3. q.next[u] # n /\ q.next[u] # t BY <1>3, <1>7, <4>1, <4>2, NullIsNoTimer
      <4> QED BY <1>1, <4>1, <4>2, <4>3
    <3> QED BY <3>1, <3>2
  <2>5. Back(r)
    <3> SUFFICES ASSUME NEW u \in Timers, r.prev[u] # Null
                 PROVE  Active(r, r.prev[u]) /\ r.next[r.prev[u]] = u
      BY DEF Back
    <3>1. CASE u = n BY <1>1, <2>1, <3>1
    <3>2. CASE u # n
      <4>1. r.prev[u] = q.prev[u] /\ u # t BY <1>1, <3>2
      <4>2. q.prev[u] \in Timers /\ Active(q, q.prev[u]) /\ q.next[q.prev[u]] = u BY <1>2, <4>1
      <4>3. q.prev[u] # t /\ q.prev[u] # s BY <3>2, <4>2 DEF n
      <4> QED BY <1>1, <2>1, <4>1, <4>2, <4>3
    <3> QED BY <3>1, <3>2
  <2>6. Reached(r)
    <3> SUFFICES ASSUME NEW S \in SUBSET Timers, HoldsList(r, S) PROVE Listed(r) \subseteq S
      BY DEF Reached
    <3> DEFINE T == (S \ {t}) \cup {s}
    <3>1. t \in S /\ \A u \in S : r.next[u] # Null => r.next[u] \in S
      BY <1>1, <1>8, NullIsNoTimer DEF HoldsList
    <3>2. ASSUME NEW u \in T, Active(q, u), q.next[u] # Null PROVE q.next[u] \in T
      <4>1. q.next[u] # t BY <1>2, <1>3, <3>2, NullIsNoTimer
      <4>2. CASE u = s
        <5>1. r.next[t] = n BY <1>1
        <5>2. q.next[u] \in S BY <3>1, <3>2, <4>2, <5>1 DEF n
        <5> QED BY <4>1, <5>2
      <4>3. CASE u # s
        <5>1. u \in S /\ r.next[u] = q.next[u] BY <1>1, <3>2, <4>3
        <5> QED BY <3>1, <3>2, <4>1, <5>1
      <4> QED BY <4>2, <4>3
    <3>3. Listed(q) \subseteq T
      <4>1. T \in SUBSET Timers /\ q.first \in T BY <1>8
      <4> HIDE DEF T
      <4> QED BY <3>2, <4>1, OnlyListed
    <3> QED BY <2>2, <3>1, <3>3
  <2> QED BY <1>6, <1>8, <2>2, <2>3, <2>4, <2>5, <2>6 DEF Linear
<1>9. CASE q.first # s
  <2>1. n = Null /\ ~ Active(q, s) BY <1>6, <1>9 DEF n
  <2>2. r.first = q.first /\ \A u \in Timers : r.prev[u] = q.prev[u] /\ (u # t => r.next[u] = q.next[u])
    BY <1>1, <1>3, <1>9, <2>1, NullIsNoTimer
  <2>3. \A u \in Timers : Active(r, u) <=> Active(q, u) BY <1>4, <1>5, <2>2
  <2>4. Listed(r) = Listed(q) BY <2>3 DEF Listed
  <2>5. Head1(r) BY <1>2, <2>2 DEF Head1
  <2>6. Forth(r) BY <1>2, <2>2, <2>3 DEF Forth
  <2>7. Back(r)
    <3> SUFFICES ASSUME NEW u \in Timers, r.prev[u] # Null
                 PROVE  Active(r, r.prev[u]) /\ r.next[r.prev[u]] = u
      BY DEF Back
    <3>1. r.prev[u] \in Timers /\ Active(q, r.prev[u]) /\ q.next[r.prev[u]] = u BY <1>2, <2>2
    <3> QED BY <2>2, <2>3, <3>1
  <2>8. Reached(r)
    <3> SUFFICES ASSUME NEW S \in SUBSET Timers, HoldsList(r, S) PROVE Listed(r) \subseteq S
      BY DEF Reached
    <3>1. ASSUME NEW u \in S, Active(q, u), q.next[u] # Null PROVE q.next[u] \in S
      <4>1. r.next[u] = q.next[u] BY <2>2, <3>1
      <4> QED BY <3>1, <4>1 DEF HoldsList
    <3>2. q.first # Null => q.first \in S BY <2>2 DEF HoldsList
    <3> QED BY <2>4, <3>1, <3>2, OnlyListed
  <2> QED BY <2>1, <2>4, <2>5, <2>6, <2>7, <2>8 DEF Linear
<1> QED BY <1>8, <1>9

----------------------------------------------------------------------------
(* A queue that is exact.                                                  *)

Expiries == [Timers -> Times \cup {Never}]

AwaitedIn(q) == {t \in Timers : q.ops[t] # << >>}
ExpiringIn(q, ex) == {t \in AwaitedIn(q) : ex[t] # Never}
EntriesOf(q, ex) == {[at |-> ex[t], timer |-> t] : t \in ExpiringIn(q, ex)}

\* Heap and list hold the timers that have waits, whose expiries are ex, and a
\* timer that never expires knows no entry.
Exact(q, ex) ==
  /\ Ordered(q) /\ Indexed(q) /\ Entries(q) = EntriesOf(q, ex)
  /\ Linear(q) /\ Listed(q) = AwaitedIn(q)
  /\ \A t \in AwaitedIn(q) : ex[t] = Never => q.index[t] = NoIndex

LEMMA SameHeapKeeps ==
  ASSUME NEW q, NEW r, r.heap = q.heap
  PROVE  /\ Ordered(r) = Ordered(q) /\ Entries(r) = Entries(q) /\ InHeap(r) = InHeap(q)
         /\ r.index = q.index => Indexed(r) = Indexed(q)
BY DEF Ordered, Entries, InHeap, Indexed, Before

LEMMA SameLinksKeep ==
  ASSUME NEW q, NEW r, r.next = q.next, r.prev = q.prev, r.first = q.first
  PROVE  /\ Linear(r) = Linear(q) /\ Listed(r) = Listed(q)
         /\ \A t \in Timers : Active(r, t) = Active(q, t)
BY DEF Linear, Listed, Active, Head1, Forth, Back, Reached, HoldsList

LEMMA ExactHeap ==
  ASSUME NEW q \in Queues, NEW ex \in Expiries, Exact(q, ex)
  PROVE  /\ InHeap(q) = ExpiringIn(q, ex)
         /\ \A t \in ExpiringIn(q, ex) : InTheHeap(q, t) /\ q.heap[q.index[t]].at = ex[t]
         /\ \A k \in 1 .. Len(q.heap) :
              /\ q.heap[k].timer \in ExpiringIn(q, ex)
              /\ q.heap[k].at = ex[q.heap[k].timer]
              /\ q.index[q.heap[k].timer] = k
<1>1. Entries(q) = EntriesOf(q, ex) /\ Indexed(q) BY DEF Exact
<1>2. DOMAIN q.heap = 1 .. Len(q.heap) BY QueueIs
<1>3. ASSUME NEW k \in 1 .. Len(q.heap)
      PROVE  /\ q.heap[k].timer \in ExpiringIn(q, ex)
             /\ q.heap[k].at = ex[q.heap[k].timer]
             /\ q.index[q.heap[k].timer] = k
  <2>1. q.heap[k] \in EntriesOf(q, ex) BY <1>1 DEF Entries
  <2>2. PICK t \in ExpiringIn(q, ex) : q.heap[k] = [at |-> ex[t], timer |-> t]
    BY <2>1 DEF EntriesOf
  <2>3. q.heap[k].timer = t /\ q.heap[k].at = ex[t] BY <2>2
  <2>4. q.index[q.heap[k].timer] = k BY <1>1 DEF Indexed
  <2> QED BY <2>3, <2>4
<1>4. ASSUME NEW t \in ExpiringIn(q, ex)
      PROVE  InTheHeap(q, t) /\ q.heap[q.index[t]].at = ex[t] /\ t \in InHeap(q)
  <2>1. [at |-> ex[t], timer |-> t] \in Entries(q) BY <1>1 DEF EntriesOf
  <2>2. PICK k \in 1 .. Len(q.heap) : q.heap[k] = [at |-> ex[t], timer |-> t]
    BY <2>1 DEF Entries
  <2>3. q.heap[k].timer = t /\ q.heap[k].at = ex[t] BY <2>2
  <2>4. q.index[t] = k BY <1>3, <2>3
  <2> QED BY <1>2, <2>3, <2>4 DEF InTheHeap, InHeap
<1>5. InHeap(q) = ExpiringIn(q, ex) BY <1>3, <1>4 DEF InHeap
<1> QED BY <1>3, <1>4, <1>5

\* The root is the earliest.
LEMMA ExactRoot ==
  ASSUME NEW q \in Queues, NEW ex \in Expiries, Exact(q, ex)
  PROVE  /\ q.heap = << >> <=> ExpiringIn(q, ex) = {}
         /\ q.heap # << >> => /\ q.heap[1].timer \in ExpiringIn(q, ex)
                              /\ q.heap[1].at = ex[q.heap[1].timer] /\ q.heap[1].at \in Times
                              /\ q.index[q.heap[1].timer] = 1
                              /\ 1 \in DOMAIN q.heap
                              /\ \A t \in ExpiringIn(q, ex) : q.heap[1].at <= ex[t]
<1> DEFINE n == Len(q.heap)
<1>1. n \in Nat /\ (q.heap = << >> <=> n = 0) /\ DOMAIN q.heap = 1 .. n BY QueueIs
<1>2. ASSUME n > 0
      PROVE  /\ q.heap[1].timer \in ExpiringIn(q, ex)
             /\ q.heap[1].at = ex[q.heap[1].timer] /\ q.heap[1].at \in Times
             /\ q.index[q.heap[1].timer] = 1 /\ 1 \in DOMAIN q.heap
  <2>1. 1 \in 1 .. n BY <1>1, <1>2
  <2> QED BY <1>1, <2>1, ExactHeap, EntryIs
<1>3. ASSUME NEW t \in ExpiringIn(q, ex) PROVE n > 0 /\ q.heap[1].at <= ex[t]
  <2>1. q.index[t] \in 1 .. n /\ q.heap[q.index[t]].at = ex[t] BY <1>1, ExactHeap DEF InTheHeap
  <2>2. n > 0 /\ 1 \in 1 .. n BY <1>1, <2>1
  <2>3. Rises(Ats(q), n) BY OrderedIs DEF Exact
  <2>4. Ats(q)[1] <= Ats(q)[q.index[t]] BY <1>1, <2>1, <2>3, AtsAre, RootIsLeast
  <2>5. Ats(q)[1] = q.heap[1].at /\ Ats(q)[q.index[t]] = ex[t] BY <2>1, <2>2, AtsAre
  <2> QED BY <2>2, <2>4, <2>5
<1> QED BY <1>1, <1>2, <1>3

LEMMA RemovedTyped ==
  ASSUME NEW q \in Queues, NEW t \in Timers, NEW r, r = Removed(q, t)
  PROVE  /\ r \in Queues /\ r.ops = q.ops
         /\ q.index[t] \in DOMAIN q.heap => Len(r.heap) = Len(q.heap) - 1
<1> DEFINE h == OutOfHeap(q, t)
<1>1. LessEntry(q, h, t) BY OutOfHeapIs
<1>2. r = Unlinked(h, t) BY DEF Removed
<1> HIDE DEF h
<1>3. r \in Queues /\ SameHeap(h, r) BY <1>1, <1>2, UnlinkedFields DEF LessEntry
<1> QED BY <1>1, <1>3 DEF LessEntry, SameHeap, SameList

\* A timer has no waits any more and goes.
LEMMA RemovedIs ==
  ASSUME NEW q \in Queues, NEW ex \in Expiries, Exact(q, ex), NEW t \in Timers, Active(q, t),
         NEW p, p = [q EXCEPT !.ops[t] = << >>], NEW r, r = Removed(p, t)
  PROVE  /\ p \in Queues /\ r \in Queues /\ Exact(r, ex) /\ ~ Active(r, t)
         /\ r.ops = [q.ops EXCEPT ![t] = << >>]
<1> DEFINE h == OutOfHeap(p, t)
           o == [q.ops EXCEPT ![t] = << >>]
<1>1. p = [heap |-> q.heap, index |-> q.index, next |-> q.next, prev |-> q.prev,
           first |-> q.first, ops |-> o]
  <2>1. p = [q EXCEPT !.ops = o] OBVIOUS
  <2> HIDE DEF o
  <2> QED BY <2>1, QueueIs DEF Whole
<1>2. o \in [Timers -> Seq(Waits)] /\ \A u \in Timers : o[u] = IF u = t THEN << >> ELSE q.ops[u]
  <2>1. << >> \in Seq(Waits) OBVIOUS
  <2> QED BY <2>1, QueueIs
<1> HIDE DEF o
<1>3. /\ p.heap = q.heap /\ p.index = q.index /\ p.next = q.next /\ p.prev = q.prev
      /\ p.first = q.first /\ p.ops = o
  BY <1>1
<1>4. p \in Queues
  <2>1. q.heap \in Seq([at : Times, timer : Timers]) BY QueueIs DEF HeapEntries
  <2> QED BY <1>1, <1>2, <2>1, QueueIs DEF Queues
<1>5. /\ Ordered(p) /\ Indexed(p) /\ Entries(p) = EntriesOf(q, ex) /\ InHeap(p) = InHeap(q)
      /\ Linear(p) /\ Listed(p) = AwaitedIn(q) /\ Active(p, t)
  BY <1>3, SameHeapKeeps, SameLinksKeep DEF Exact
<1>6. LessEntry(p, h, t) /\ (InTheHeap(p, t) => LessTimer(p, h, t)) BY <1>4, <1>5, OutOfHeapIs
<1>7. r = Unlinked(h, t) BY DEF Removed
<1> HIDE DEF h
<1>8. h \in Queues /\ SameList(p, h) BY <1>6 DEF LessEntry
<1>9. Linear(h) /\ Listed(h) = AwaitedIn(q) /\ Active(h, t)
  BY <1>5, <1>8, SameLinksKeep DEF SameList
<1>10. r \in Queues /\ SameHeap(h, r) BY <1>7, <1>8, UnlinkedFields
<1>11. Linear(r) /\ Listed(r) = AwaitedIn(q) \ {t} BY <1>7, <1>8, <1>9, UnlinkedIs
<1>12. r.ops = o BY <1>3, <1>8, <1>10 DEF SameHeap, SameList
<1>13. AwaitedIn(r) = AwaitedIn(q) \ {t} BY <1>2, <1>12 DEF AwaitedIn
<1>14. ExpiringIn(r, ex) = ExpiringIn(q, ex) \ {t} BY <1>13 DEF ExpiringIn
<1>15. t \in AwaitedIn(q)
  <2>1. t \in Listed(q) BY DEF Listed
  <2> QED BY <2>1 DEF Exact
<1>16. \A u \in AwaitedIn(q) : ex[u] = Never => q.index[u] = NoIndex /\ u \notin InHeap(q)
  BY ExactHeap DEF Exact, ExpiringIn
<1>17. /\ Ordered(h) /\ Indexed(h)
       /\ Entries(h) = {e \in Entries(p) : e.timer # t}
       /\ \A u \in Timers : u \notin InHeap(q) => h.index[u] = q.index[u]
  <2>1. CASE ex[t] # Never
    <3>1. t \in ExpiringIn(q, ex) BY <1>15, <2>1 DEF ExpiringIn
    <3>2. InTheHeap(p, t) BY <1>3, <3>1, ExactHeap DEF InTheHeap
    <3>3. LessTimer(p, h, t) BY <1>6, <3>2
    <3> QED BY <1>3, <1>5, <3>3 DEF LessTimer
  <2>2. CASE ex[t] = Never
    <3>1. p.index[t] \notin DOMAIN p.heap
      <4>1. DOMAIN p.heap = 1 .. Len(p.heap) /\ Len(p.heap) \in Nat BY <1>4, QueueIs
      <4> QED BY <1>3, <1>15, <1>16, <2>2, <4>1 DEF NoIndex
    <3>2. h = p BY <1>6, <3>1 DEF LessEntry
    <3>3. \A e \in Entries(p) : e.timer # t
      <4> SUFFICES ASSUME NEW e \in Entries(p), e.timer = t PROVE FALSE OBVIOUS
      <4>1. t \in InHeap(p) BY DEF InHeap, Entries
      <4> QED BY <1>5, <1>15, <1>16, <2>2, <4>1
    <3> QED BY <1>3, <1>5, <3>2, <3>3
  <2> QED BY <2>1, <2>2
<1>18. Entries(r) = EntriesOf(r, ex)
  <2>1. Entries(r) = {e \in EntriesOf(q, ex) : e.timer # t}
    BY <1>5, <1>10, <1>17, SameHeapKeeps DEF SameHeap
  <2>2. ASSUME NEW e \in EntriesOf(q, ex) PROVE e.timer # t <=> e \in EntriesOf(r, ex)
    <3>1. PICK u \in ExpiringIn(q, ex) : e = [at |-> ex[u], timer |-> u] BY DEF EntriesOf
    <3>2. e.timer = u BY <3>1
    <3>3. u # t => e \in EntriesOf(r, ex) BY <1>14, <3>1 DEF EntriesOf
    <3>4. ASSUME e \in EntriesOf(r, ex) PROVE u # t
      <4>1. PICK v \in ExpiringIn(r, ex) : e = [at |-> ex[v], timer |-> v] BY <3>4 DEF EntriesOf
      <4>2. e.timer = v BY <4>1
      <4> QED BY <1>14, <3>2, <4>2
    <3> QED BY <3>2, <3>3, <3>4
  <2>3. EntriesOf(r, ex) \subseteq EntriesOf(q, ex) BY <1>14 DEF EntriesOf
  <2> QED BY <2>1, <2>2, <2>3
<1>19. Ordered(r) /\ Indexed(r) BY <1>10, <1>17, SameHeapKeeps DEF SameHeap
<1>20. \A u \in AwaitedIn(r) : ex[u] = Never => r.index[u] = NoIndex
  <2>1. \A u \in AwaitedIn(r) : u \in Timers /\ u \in AwaitedIn(q) BY <1>13 DEF AwaitedIn
  <2> QED BY <1>10, <1>16, <1>17, <2>1 DEF SameHeap
<1>21. ~ Active(r, t)
  <2>1. t \notin Listed(r) BY <1>11
  <2> QED BY <2>1 DEF Listed
<1>22. Exact(r, ex) BY <1>11, <1>13, <1>18, <1>19, <1>20 DEF Exact
<1> QED BY <1>4, <1>10, <1>12, <1>21, <1>22 DEF o

\* Waits come and go where the same timers have some.
LEMMA OpsKeep ==
  ASSUME NEW q \in Queues, NEW ex \in Expiries, Exact(q, ex), NEW r,
         r.heap = q.heap, r.index = q.index, r.next = q.next, r.prev = q.prev, r.first = q.first,
         AwaitedIn(r) = AwaitedIn(q)
  PROVE  Exact(r, ex)
<1>1. /\ Ordered(r) /\ Indexed(r) /\ Entries(r) = Entries(q) /\ Linear(r) /\ Listed(r) = Listed(q)
  BY SameHeapKeeps, SameLinksKeep DEF Exact
<1>2. ExpiringIn(r, ex) = ExpiringIn(q, ex) BY DEF ExpiringIn
<1>3. EntriesOf(r, ex) = EntriesOf(q, ex) BY <1>2 DEF EntriesOf
<1> QED BY <1>1, <1>3 DEF Exact

\* Queues that differ in the waits or in the index of t.
WithOps(q, r, t, ws) ==
  /\ r.heap = q.heap /\ r.index = q.index /\ r.next = q.next /\ r.prev = q.prev
  /\ r.first = q.first
  /\ \A u \in Timers : r.ops[u] = IF u = t THEN ws ELSE q.ops[u]
WithoutIndex(q, r, t) ==
  /\ r.heap = q.heap /\ r.ops = q.ops /\ r.next = q.next /\ r.prev = q.prev
  /\ r.first = q.first
  /\ \A u \in Timers : r.index[u] = IF u = t THEN NoIndex ELSE q.index[u]

LEMMA OpsTyped ==
  ASSUME NEW q \in Queues, NEW t \in Timers, NEW ws \in Seq(Waits), NEW r, r = [q EXCEPT !.ops[t] = ws]
  PROVE  r \in Queues /\ WithOps(q, r, t, ws)
<1>1. PICK o : o = [q.ops EXCEPT ![t] = ws] OBVIOUS
<1>2. r = [q EXCEPT !.ops = o] BY <1>1
<1>3. r = [heap |-> q.heap, index |-> q.index, next |-> q.next, prev |-> q.prev,
           first |-> q.first, ops |-> o]
  BY <1>2, QueueIs DEF Whole
<1>4. o \in [Timers -> Seq(Waits)] /\ \A u \in Timers : o[u] = IF u = t THEN ws ELSE q.ops[u]
  BY <1>1, QueueIs
<1>5. q.heap \in Seq([at : Times, timer : Timers]) BY QueueIs DEF HeapEntries
<1>8. /\ q.next \in [Timers -> Timers \cup {Null}] /\ q.prev \in [Timers -> Timers \cup {Null}]
      /\ q.first \in Timers \cup {Null} /\ q.index \in [Timers -> Nat]
  BY QueueIs
<1>6. r \in Queues
  <2>1. o \in [Timers -> Seq(Waits)] BY <1>4
  <2>2. [heap |-> q.heap, index |-> q.index, next |-> q.next, prev |-> q.prev,
         first |-> q.first, ops |-> o] \in Queues
    BY <1>8, <2>1, QueueIs, RecordTyped
  <2> QED BY <1>3, <2>2
<1>7. WithOps(q, r, t, ws) BY <1>3, <1>4 DEF WithOps
<1> QED BY <1>6, <1>7

LEMMA IndexTyped ==
  ASSUME NEW q \in Queues, NEW t \in Timers, NEW r, r = [q EXCEPT !.index[t] = NoIndex]
  PROVE  r \in Queues /\ WithoutIndex(q, r, t)
<1>1. PICK x : x = [q.index EXCEPT ![t] = NoIndex] OBVIOUS
<1>2. r = [q EXCEPT !.index = x] BY <1>1
<1>3. r = [heap |-> q.heap, index |-> x, next |-> q.next, prev |-> q.prev,
           first |-> q.first, ops |-> q.ops]
  BY <1>2, QueueIs DEF Whole
<1>4. x \in [Timers -> Nat] /\ \A u \in Timers : x[u] = IF u = t THEN NoIndex ELSE q.index[u]
  BY <1>1, QueueIs DEF NoIndex
<1>5. q.heap \in Seq([at : Times, timer : Timers]) BY QueueIs DEF HeapEntries
<1>6. /\ q.next \in [Timers -> Timers \cup {Null}] /\ q.prev \in [Timers -> Timers \cup {Null}]
      /\ q.first \in Timers \cup {Null} /\ q.ops \in [Timers -> Seq(Waits)]
  BY QueueIs
<1>7. r \in Queues BY <1>3, <1>4, <1>5, <1>6 DEF Queues
<1>8. WithoutIndex(q, r, t) BY <1>3, <1>4 DEF WithoutIndex
<1> QED BY <1>7, <1>8

\* The number of waits that a cancel takes.
LEMMA WithoutTyped ==
  ASSUME NEW q \in Queues, NEW t \in Timers, NEW n \in 0 .. Len(q.ops[t]),
         NEW r, r = Without(q, t, n)
  PROVE  r \in Queues /\ Taken(q, t, n) \in Seq(Waits)
<1>1. q.ops[t] \in Seq(Waits) /\ Len(q.ops[t]) \in Nat BY QueueIs
<1>2. SubSeq(q.ops[t], n + 1, Len(q.ops[t])) \in Seq(Waits) /\ SubSeq(q.ops[t], 1, n) \in Seq(Waits)
  BY <1>1
<1>3. Taken(q, t, n) \in Seq(Waits)
  <2>1. << >> \in Seq(Waits) OBVIOUS
  <2> QED BY <1>2, <2>1 DEF Taken
<1>4. CASE ~ Active(q, t) BY <1>3, <1>4 DEF Without
<1>5. CASE Active(q, t)
  <2>1. PICK ws : ws = SubSeq(q.ops[t], n + 1, Len(q.ops[t])) OBVIOUS
  <2>2. PICK p : p = [q EXCEPT !.ops[t] = ws] OBVIOUS
  <2>3. p \in Queues BY <1>2, <2>1, <2>2, OpsTyped
  <2>4. r = RemovedIfIdle(p, t) BY <1>5, <2>1, <2>2 DEF Without
  <2>5. r = p \/ r = Removed(p, t) BY <2>4 DEF RemovedIfIdle
  <2> QED BY <1>3, <2>3, <2>5, RemovedTyped
<1> QED BY <1>4, <1>5

LEMMA WithoutIs ==
  ASSUME NEW q \in Queues, NEW ex \in Expiries, Exact(q, ex), NEW t \in Timers,
         NEW n \in 0 .. Len(q.ops[t]), NEW r, r = Without(q, t, n)
  PROVE  /\ Exact(r, ex)
         /\ \A u \in Timers : u # t => r.ops[u] = q.ops[u]
         /\ AwaitedIn(r) \subseteq AwaitedIn(q)
         /\ n = Len(q.ops[t]) => r.ops[t] = << >> /\ ~ Active(r, t)
<1>1. q.ops[t] \in Seq(Waits) /\ Len(q.ops[t]) \in Nat BY QueueIs
<1>2. Listed(q) = AwaitedIn(q) BY DEF Exact
<1>3. CASE ~ Active(q, t)
  <2>1. r = q BY <1>3 DEF Without
  <2>2. t \notin AwaitedIn(q) BY <1>2, <1>3 DEF Listed
  <2>3. r.ops[t] = << >> BY <2>1, <2>2 DEF AwaitedIn
  <2> QED BY <1>3, <2>1, <2>3
<1>4. CASE Active(q, t)
  <2>1. PICK ws : ws = SubSeq(q.ops[t], n + 1, Len(q.ops[t])) OBVIOUS
  <2>2. PICK p : p = [q EXCEPT !.ops[t] = ws] OBVIOUS
  <2>3. ws \in Seq(Waits) BY <1>1, <2>1
  <2>4. /\ p \in Queues
        /\ p.heap = q.heap /\ p.index = q.index /\ p.next = q.next /\ p.prev = q.prev
        /\ p.first = q.first
        /\ \A u \in Timers : p.ops[u] = IF u = t THEN ws ELSE q.ops[u]
    <3>1. p \in Queues /\ WithOps(q, p, t, ws) BY <2>2, <2>3, OpsTyped
    <3> QED BY <3>1 DEF WithOps
  <2>5. r = RemovedIfIdle(p, t) BY <1>4, <2>1, <2>2 DEF Without
  <2>6. t \in AwaitedIn(q) BY <1>2, <1>4 DEF Listed
  <2>7. n = Len(q.ops[t]) => ws = << >> BY <1>1, <2>1
  <2>8. CASE ws = << >>
    <3>1. r = Removed(p, t) BY <2>4, <2>5, <2>8 DEF RemovedIfIdle
    <3>2. p = [q EXCEPT !.ops[t] = << >>] BY <2>2, <2>8
    <3>3. Exact(r, ex) /\ ~ Active(r, t) /\ r.ops = [q.ops EXCEPT ![t] = << >>]
      BY <1>4, <3>1, <3>2, RemovedIs
    <3>4. \A u \in Timers : r.ops[u] = IF u = t THEN << >> ELSE q.ops[u] BY <3>3, QueueIs
    <3>5. AwaitedIn(r) \subseteq AwaitedIn(q) BY <3>4 DEF AwaitedIn
    <3> QED BY <3>3, <3>4, <3>5
  <2>9. CASE ws # << >>
    <3>1. r = p BY <2>4, <2>5, <2>9 DEF RemovedIfIdle
    <3>2. AwaitedIn(p) = AwaitedIn(q) BY <2>4, <2>6, <2>9 DEF AwaitedIn
    <3>3. Exact(p, ex) BY <2>4, <3>2, OpsKeep
    <3> QED BY <2>4, <2>7, <2>9, <3>1, <3>2, <3>3
  <2> QED BY <2>8, <2>9
<1> QED BY <1>3, <1>4

\* Before its wait is queued, t is made active.
LEMMA ActivatedTyped ==
  ASSUME NEW q \in Queues, NEW t \in Timers, NEW at \in Times \cup {Never},
         NEW r, r = Activated(q, t, at)
  PROVE  r \in Queues /\ r.ops = q.ops
<1>1. CASE Active(q, t) BY <1>1 DEF Activated
<1>2. CASE ~ Active(q, t) /\ at = Never
  <2>1. PICK p : p = [q EXCEPT !.index[t] = NoIndex] OBVIOUS
  <2>2. p \in Queues /\ p.ops = q.ops BY <2>1, IndexTyped DEF WithoutIndex
  <2>3. r = Linked(p, t) BY <1>2, <2>1 DEF Activated
  <2> QED BY <2>2, <2>3, LinkedFields DEF SameHeap
<1>3. CASE ~ Active(q, t) /\ at # Never
  <2>1. PICK p : p = Pushed(q, t, at) OBVIOUS
  <2>2. p \in Queues /\ p.ops = q.ops BY <1>3, <2>1, PushedIs DEF MoreEntry, SameList
  <2>3. r = Linked(p, t) BY <1>3, <2>1 DEF Activated
  <2> QED BY <2>2, <2>3, LinkedFields DEF SameHeap
<1> QED BY <1>1, <1>2, <1>3

LEMMA EnqueuedIs ==
  ASSUME NEW q \in Queues, NEW ex \in Expiries, NEW t \in Timers, NEW w \in Waits,
         NEW r, r = Enqueued(q, t, ex[t], w)
  PROVE  /\ r \in Queues
         /\ \A u \in Timers : r.ops[u] = IF u = t THEN Append(q.ops[t], w) ELSE q.ops[u]
         /\ Exact(q, ex) => Exact(r, ex)
<1> DEFINE a == Activated(q, t, ex[t])
<1>1. PICK ws : ws = Append(q.ops[t], w) OBVIOUS
<1>2. ws \in Seq(Waits) /\ ws # << >>
  <2>1. q.ops[t] \in Seq(Waits) BY QueueIs
  <2>2. ws \in Seq(Waits) /\ Len(ws) = Len(q.ops[t]) + 1 BY <1>1, <2>1, AppendProperties
  <2> QED BY <2>1, <2>2
<1>3. a \in Queues /\ a.ops = q.ops
  <2>1. ex[t] \in Times \cup {Never} BY DEF Expiries
  <2> QED BY <2>1, ActivatedTyped
<1>4. r = [a EXCEPT !.ops[t] = ws] BY <1>1, <1>3 DEF Enqueued
<1>5. a = Activated(q, t, ex[t]) OBVIOUS
<1> HIDE DEF a
<1>6. /\ r \in Queues
      /\ r.heap = a.heap /\ r.index = a.index /\ r.next = a.next /\ r.prev = a.prev
      /\ r.first = a.first
      /\ \A u \in Timers : r.ops[u] = IF u = t THEN ws ELSE q.ops[u]
  <2>1. r \in Queues /\ WithOps(a, r, t, ws) BY <1>2, <1>3, <1>4, OpsTyped
  <2> QED BY <1>3, <2>1 DEF WithOps
<1>7. ASSUME Exact(q, ex) PROVE Exact(r, ex)
  <2>1. AwaitedIn(r) = AwaitedIn(q) \cup {t} BY <1>2, <1>6 DEF AwaitedIn
  <2>2. Listed(q) = AwaitedIn(q) BY <1>7 DEF Exact
  <2>3. CASE Active(q, t)
    <3>1. a = q BY <1>5, <2>3 DEF Activated
    <3>2. t \in AwaitedIn(q) BY <2>2, <2>3 DEF Listed
    <3> QED BY <1>6, <1>7, <2>1, <3>1, <3>2, OpsKeep
  <2>4. CASE ~ Active(q, t)
    <3> DEFINE p == IF ex[t] = Never THEN [q EXCEPT !.index[t] = NoIndex] ELSE Pushed(q, t, ex[t])
    <3>1. a = Linked(p, t) BY <1>5, <2>4 DEF Activated
    <3>2. t \notin AwaitedIn(q) BY <2>2, <2>4 DEF Listed
    <3>3. t \notin InHeap(q) BY <1>7, <3>2, ExactHeap DEF ExpiringIn
    <3>4. Ordered(q) /\ Indexed(q) /\ Entries(q) = EntriesOf(q, ex) BY <1>7 DEF Exact
    <3>5. /\ p \in Queues /\ SameList(q, p) /\ Ordered(p) /\ Indexed(p)
          /\ Entries(p) = Entries(q) \cup (IF ex[t] = Never THEN {} ELSE {[at |-> ex[t], timer |-> t]})
          /\ \A u \in Timers : u \notin InHeap(q) /\ u # t => p.index[u] = q.index[u]
          /\ ex[t] = Never => p.index[t] = NoIndex
      <4>1. CASE ex[t] = Never
        <5>1. p = [q EXCEPT !.index[t] = NoIndex] BY <4>1
        <5>2. /\ p \in Queues /\ SameList(q, p) /\ p.heap = q.heap
              /\ \A u \in Timers : p.index[u] = IF u = t THEN NoIndex ELSE q.index[u]
          <6>1. p \in Queues /\ WithoutIndex(q, p, t) BY <5>1, IndexTyped
          <6> QED BY <6>1 DEF SameList, WithoutIndex
        <5> HIDE DEF p
        <5>3. Ordered(p) /\ Entries(p) = Entries(q) BY <3>4, <5>2, SameHeapKeeps
        <5>4. Indexed(p)
          <6> SUFFICES ASSUME NEW k \in 1 .. Len(p.heap) PROVE p.index[p.heap[k].timer] = k BY DEF Indexed
          <6>1. q.index[q.heap[k].timer] = k /\ q.heap[k].timer \in Timers /\ q.heap[k].timer # t
            BY <3>3, <3>4, <5>2, EntryIs DEF Indexed, InHeap
          <6> QED BY <5>2, <6>1
        <5> QED BY <4>1, <5>2, <5>3, <5>4
      <4>2. CASE ex[t] # Never
        <5>1. p = Pushed(q, t, ex[t]) /\ ex[t] \in Times BY <4>2 DEF Expiries
        <5> HIDE DEF p
        <5>2. MoreEntry(q, p) /\ MoreTimer(q, p, t, ex[t]) BY <3>3, <3>4, <5>1, PushedIs
        <5> QED BY <4>2, <5>2 DEF MoreEntry, MoreTimer
      <4> QED BY <4>1, <4>2
    <3> HIDE DEF p
    <3>6. Linear(p) /\ Listed(p) = AwaitedIn(q) /\ ~ Active(p, t)
      BY <1>7, <2>4, <3>5, SameLinksKeep DEF Exact, SameList
    <3>7. Linear(a) /\ Listed(a) = AwaitedIn(q) \cup {t} BY <3>1, <3>5, <3>6, LinkedIs
    <3>8. SameHeap(p, a) BY <3>1, <3>5, LinkedFields
    <3>9. /\ Ordered(r) /\ Indexed(r) /\ Entries(r) = Entries(p) /\ Linear(r) /\ Listed(r) = AwaitedIn(r)
      <4>1. r.heap = p.heap /\ r.index = p.index BY <1>6, <3>8 DEF SameHeap
      <4>2. Ordered(r) /\ Indexed(r) /\ Entries(r) = Entries(p) BY <3>5, <4>1, SameHeapKeeps
      <4>3. Linear(r) /\ Listed(r) = Listed(a) BY <1>6, <3>7, SameLinksKeep
      <4> QED BY <2>1, <3>7, <4>2, <4>3
    <3>10. Entries(r) = EntriesOf(r, ex)
      <4>1. ExpiringIn(r, ex) = ExpiringIn(q, ex) \cup (IF ex[t] = Never THEN {} ELSE {t})
        BY <2>1 DEF ExpiringIn
      <4>2. EntriesOf(r, ex)
              = EntriesOf(q, ex) \cup (IF ex[t] = Never THEN {} ELSE {[at |-> ex[t], timer |-> t]})
        <5>1. CASE ex[t] = Never
          <6>1. ExpiringIn(r, ex) = ExpiringIn(q, ex) BY <4>1, <5>1
          <6> QED BY <5>1, <6>1 DEF EntriesOf
        <5>2. CASE ex[t] # Never
          <6>1. ExpiringIn(r, ex) = ExpiringIn(q, ex) \cup {t} BY <4>1, <5>2
          <6>2. EntriesOf(r, ex) = EntriesOf(q, ex) \cup {[at |-> ex[t], timer |-> t]}
            BY <6>1 DEF EntriesOf
          <6> QED BY <5>2, <6>2
        <5> QED BY <5>1, <5>2
      <4> QED BY <3>4, <3>5, <3>9, <4>2
    <3>11. \A u \in AwaitedIn(r) : ex[u] = Never => r.index[u] = NoIndex
      <4> SUFFICES ASSUME NEW u \in AwaitedIn(r), ex[u] = Never PROVE r.index[u] = NoIndex OBVIOUS
      <4>1. r.index = p.index BY <1>6, <3>8 DEF SameHeap
      <4>2. CASE u = t BY <3>5, <4>1, <4>2
      <4>3. CASE u # t
        <5>1. u \in AwaitedIn(q) /\ u \in Timers BY <2>1, <4>3 DEF AwaitedIn
        <5>2. q.index[u] = NoIndex /\ u \notin InHeap(q) BY <1>7, <5>1, ExactHeap DEF Exact, ExpiringIn
        <5> QED BY <3>5, <4>1, <4>3, <5>1, <5>2
      <4> QED BY <4>2, <4>3
    <3> QED BY <3>9, <3>10, <3>11 DEF Exact
  <2> QED BY <2>3, <2>4
<1> QED BY <1>1, <1>6, <1>7

\* Another expiry for a timer without waits.
LEMMA ExpiryKeeps ==
  ASSUME NEW q \in Queues, NEW ex \in Expiries, NEW fx \in Expiries, Exact(q, ex),
         \A u \in AwaitedIn(q) : fx[u] = ex[u]
  PROVE  Exact(q, fx)
<1>1. ExpiringIn(q, fx) = ExpiringIn(q, ex) BY DEF ExpiringIn
<1>2. \A u \in ExpiringIn(q, ex) : fx[u] = ex[u] BY DEF ExpiringIn
<1>3. EntriesOf(q, fx) = EntriesOf(q, ex)
  <2>1. EntriesOf(q, fx) = {[at |-> fx[u], timer |-> u] : u \in ExpiringIn(q, ex)}
    BY <1>1 DEF EntriesOf
  <2> QED BY <1>2, <2>1 DEF EntriesOf
<1> QED BY <1>3 DEF Exact

LEMMA HarmlessMove ==
  ASSUME NEW q, NEW s \in Timers, MoveHarm(q, s) = {}
  PROVE  /\ q.prev[s] = Null
         /\ Active(q, s) \/ (q.index[s] \notin DOMAIN q.heap /\ q.next[s] = Null)
BY DEF MoveHarm

\* What waits and expiries a move leaves.
WaitsMove(q, ex, r, fx, t, s) ==
  /\ AwaitedIn(r) = (AwaitedIn(q) \ {s}) \cup (IF s \in AwaitedIn(q) THEN {t} ELSE {})
  /\ ExpiringIn(r, fx) = (ExpiringIn(q, ex) \ {s}) \cup (IF s \in ExpiringIn(q, ex) THEN {t} ELSE {})
  /\ \A u \in Timers : fx[u] = IF u = t THEN ex[s] ELSE IF u = s THEN Never ELSE ex[u]

LEMMA MovedWaits ==
  ASSUME NEW q \in Queues, NEW ex \in Expiries, NEW t \in Timers, NEW s \in Timers, s # t,
         q.ops[t] = << >>, NEW r, MovedData(q, r, t, s), NEW fx, fx = [ex EXCEPT ![t] = ex[s], ![s] = Never]
  PROVE  fx \in Expiries /\ WaitsMove(q, ex, r, fx, t, s)
<1>1. q.ops[s] \in Seq(Waits) BY QueueIs
<1>2. PICK c : c = q.ops[t] \o q.ops[s] OBVIOUS
<1>3. c = q.ops[s] BY <1>1, <1>2
<1>4. \A u \in Timers : r.ops[u] = IF u = t THEN q.ops[s] ELSE IF u = s THEN << >> ELSE q.ops[u]
  BY <1>2, <1>3 DEF MovedData
<1>5. fx \in Expiries /\ \A u \in Timers : fx[u] = IF u = t THEN ex[s] ELSE IF u = s THEN Never ELSE ex[u]
  BY DEF Expiries
<1>6. AwaitedIn(r) = (AwaitedIn(q) \ {s}) \cup (IF s \in AwaitedIn(q) THEN {t} ELSE {})
  BY <1>4 DEF AwaitedIn
<1>7. ExpiringIn(r, fx) = (ExpiringIn(q, ex) \ {s}) \cup (IF s \in ExpiringIn(q, ex) THEN {t} ELSE {})
  <2>1. t \notin AwaitedIn(q) /\ \A u \in AwaitedIn(q) : u \in Timers BY DEF AwaitedIn
  <2>2. \A u : u \in ExpiringIn(r, fx) <=> u \in AwaitedIn(r) /\ fx[u] # Never BY DEF ExpiringIn
  <2>3. \A u : u \in ExpiringIn(q, ex) <=> u \in AwaitedIn(q) /\ ex[u] # Never BY DEF ExpiringIn
  <2>4. \A u : u \in AwaitedIn(r) <=> (u \in AwaitedIn(q) /\ u # s) \/ (u = t /\ s \in AwaitedIn(q)) BY <1>6
  <2>5. ASSUME NEW u
        PROVE  u \in ExpiringIn(r, fx) <=> (u \in ExpiringIn(q, ex) /\ u # s) \/ (u = t /\ s \in ExpiringIn(q, ex))
    <3>1. CASE u = t
      <4>1. fx[t] = ex[s] BY <1>5
      <4> QED BY <2>1, <2>2, <2>3, <2>4, <3>1, <4>1
    <3>2. CASE u # t /\ u = s BY <2>2, <2>4, <3>2
    <3>3. CASE u # t /\ u # s
      <4>1. u \in AwaitedIn(r) <=> u \in AwaitedIn(q) BY <2>4, <3>3
      <4>2. u \in AwaitedIn(q) => fx[u] = ex[u] BY <1>5, <2>1, <3>3
      <4> QED BY <2>2, <2>3, <3>3, <4>1, <4>2
    <3> QED BY <3>1, <3>2, <3>3
  <2>6. PICK E, F : E = ExpiringIn(q, ex) /\ F = ExpiringIn(r, fx) OBVIOUS
  <2>7. \A u : u \in F <=> (u \in E /\ u # s) \/ (u = t /\ s \in E) BY <2>5, <2>6
  <2>8. F = (E \ {s}) \cup (IF s \in E THEN {t} ELSE {}) BY <2>7
  <2> QED BY <2>6, <2>8
<1> QED BY <1>5, <1>6, <1>7 DEF WaitsMove

\* A move that does no harm: t has the place and the waits of s.
LEMMA MovedIs ==
  ASSUME NEW q \in Queues, NEW ex \in Expiries, Exact(q, ex), NEW t \in Timers, NEW s \in Timers,
         s # t, ~ Active(q, t), MoveHarm(q, s) = {}, NEW r, r = Moved(q, t, s),
         NEW fx, fx = [ex EXCEPT ![t] = ex[s], ![s] = Never]
  PROVE  Exact(r, fx)
<1> DEFINE i == q.index[s]
           n == Len(q.heap)
<1>1. r \in Queues /\ MovedLinks(q, r, t, s) /\ MovedData(q, r, t, s) BY MovedFields
<1>2. /\ q.prev[s] = Null
      /\ Active(q, s) \/ (i \notin DOMAIN q.heap /\ q.next[s] = Null)
  BY HarmlessMove
<1>3. Listed(q) = AwaitedIn(q) /\ Linear(q) /\ Ordered(q) /\ Indexed(q) /\ Entries(q) = EntriesOf(q, ex)
  BY DEF Exact
<1>4. t \notin AwaitedIn(q) /\ q.ops[t] = << >> BY <1>3 DEF Listed, AwaitedIn
<1>5. Active(q, s) <=> s \in AwaitedIn(q) BY <1>3 DEF Listed
<1>6. /\ fx \in Expiries
      /\ AwaitedIn(r) = (AwaitedIn(q) \ {s}) \cup (IF s \in AwaitedIn(q) THEN {t} ELSE {})
      /\ ExpiringIn(r, fx) = (ExpiringIn(q, ex) \ {s}) \cup (IF s \in ExpiringIn(q, ex) THEN {t} ELSE {})
      /\ \A u \in Timers : fx[u] = IF u = t THEN ex[s] ELSE IF u = s THEN Never ELSE ex[u]
  <2>1. fx \in Expiries /\ WaitsMove(q, ex, r, fx, t, s) BY <1>1, <1>4, MovedWaits
  <2> QED BY <2>1 DEF WaitsMove
<1>7. Linear(r) /\ Listed(r) = AwaitedIn(r)
  <2>1. Linear(r) /\ Listed(r) = IF Active(q, s) THEN (Listed(q) \ {s}) \cup {t} ELSE Listed(q)
    BY <1>2, <1>3, MovedList
  <2> QED BY <1>3, <1>5, <1>6, <2>1
<1>8. /\ n \in Nat /\ DOMAIN q.heap = 1 .. n /\ q.heap \in Seq(HeapEntries) /\ i \in Nat
      /\ \A k \in 1 .. n : q.heap[k].timer \in Timers
  <2>1. n \in Nat /\ q.heap \in Seq(HeapEntries) /\ q.index \in [Timers -> Nat] BY QueueIs
  <2>2. DOMAIN q.heap = 1 .. n /\ i \in Nat BY <2>1
  <2>3. \A k \in 1 .. n : q.heap[k].timer \in Timers BY EntryIs
  <2> HIDE DEF i, n
  <2> QED BY <2>1, <2>2, <2>3
<1> HIDE DEF i, n
<1>9. /\ Len(r.heap) = n
      /\ \A k \in 1 .. n :
           /\ r.heap[k] = IF k = i THEN [at |-> q.heap[k].at, timer |-> t] ELSE q.heap[k]
           /\ r.heap[k].at = q.heap[k].at
           /\ r.heap[k].timer = IF k = i THEN t ELSE q.heap[k].timer
  <2>1. r.heap = Repointed(q.heap, i, t) BY <1>1 DEF MovedData, i
  <2> QED BY <1>8, <2>1, RepointedIs DEF n
<1>10. \A u \in Timers : r.index[u] = IF u = t THEN i ELSE IF u = s THEN NoIndex ELSE q.index[u]
  BY <1>1 DEF MovedData, i
<1>11. /\ InHeap(q) = ExpiringIn(q, ex)
       /\ \A u \in ExpiringIn(q, ex) : InTheHeap(q, u) /\ q.heap[q.index[u]].at = ex[u]
       /\ \A k \in 1 .. n : q.heap[k].timer \in ExpiringIn(q, ex) /\ q.index[q.heap[k].timer] = k
  BY ExactHeap DEF n
<1>12. \A u \in AwaitedIn(q) : ex[u] = Never => q.index[u] = NoIndex BY DEF Exact
<1>13. t \notin ExpiringIn(q, ex) /\ ExpiringIn(q, ex) \subseteq Timers
  BY <1>4 DEF ExpiringIn, AwaitedIn
<1>14. Ordered(r)
  <2> SUFFICES ASSUME NEW k \in 2 .. n PROVE ~ Before(r, k, Parent(k)) BY <1>9 DEF Ordered
  <2>1. k \in 1 .. n /\ Parent(k) \in 1 .. n BY <1>8, ParentIs
  <2>2. ~ Before(q, k, Parent(k)) BY <1>3 DEF Ordered, n
  <2>3. r.heap[k].at = q.heap[k].at /\ r.heap[Parent(k)].at = q.heap[Parent(k)].at BY <1>9, <2>1
  <2> QED BY <2>2, <2>3 DEF Before
<1>15. ASSUME NEW k \in 1 .. n PROVE q.heap[k].timer = s => k = i
  <2>1. q.index[q.heap[k].timer] = k BY <1>11
  <2> QED BY <2>1 DEF i
<1>16. Indexed(r)
  <2> SUFFICES ASSUME NEW k \in 1 .. n PROVE r.index[r.heap[k].timer] = k BY <1>9 DEF Indexed
  <2>1. CASE k = i BY <1>9, <1>10, <2>1
  <2>2. CASE k # i
    <3>1. r.heap[k].timer = q.heap[k].timer BY <1>9, <2>2
    <3>2. q.heap[k].timer # s BY <1>15, <2>2
    <3>3. q.heap[k].timer # t /\ q.heap[k].timer \in Timers BY <1>8, <1>11, <1>13
    <3> QED BY <1>10, <1>11, <3>1, <3>2, <3>3
  <2> QED BY <2>1, <2>2
<1>17. i \in 1 .. n <=> s \in ExpiringIn(q, ex)
  <2>1. s \in ExpiringIn(q, ex) => i \in 1 .. n BY <1>8, <1>11 DEF InTheHeap, i
  <2>2. ASSUME i \in 1 .. n PROVE s \in ExpiringIn(q, ex)
    <3>1. s \in AwaitedIn(q) BY <1>2, <1>5, <1>8, <2>2
    <3>2. ex[s] # Never BY <1>8, <1>12, <2>2, <3>1 DEF NoIndex, i
    <3> QED BY <3>1, <3>2 DEF ExpiringIn
  <2> QED BY <2>1, <2>2
<1>18. i \in 1 .. n => q.heap[i].at = ex[s] /\ q.heap[i].timer = s
  BY <1>11, <1>17 DEF i, InTheHeap
<1>19. Entries(r) = EntriesOf(r, fx)
  <2>1. ASSUME NEW e \in Entries(r) PROVE e \in EntriesOf(r, fx)
    <3>1. PICK k \in 1 .. n : e = r.heap[k] BY <1>9 DEF Entries
    <3>2. CASE k = i
      <4>1. e = [at |-> ex[s], timer |-> t] BY <1>9, <1>18, <3>1, <3>2
      <4>2. fx[t] = ex[s] /\ t \in ExpiringIn(r, fx) BY <1>6, <1>17, <3>2
      <4> QED BY <4>1, <4>2 DEF EntriesOf
    <3>3. CASE k # i
      <4>1. e = q.heap[k] /\ e \in Entries(q) BY <1>9, <3>1, <3>3 DEF Entries, n
      <4>2. PICK u \in ExpiringIn(q, ex) : e = [at |-> ex[u], timer |-> u] BY <1>3, <4>1 DEF EntriesOf
      <4>3. e.timer = u BY <4>2
      <4>4. u # s /\ u # t /\ u \in Timers BY <1>13, <1>15, <3>3, <4>1, <4>3
      <4>5. u \in ExpiringIn(r, fx) /\ fx[u] = ex[u] BY <1>6, <4>4
      <4> QED BY <4>2, <4>5 DEF EntriesOf
    <3> QED BY <3>2, <3>3
  <2>2. ASSUME NEW e \in EntriesOf(r, fx) PROVE e \in Entries(r)
    <3>1. PICK u \in ExpiringIn(r, fx) : e = [at |-> fx[u], timer |-> u] BY DEF EntriesOf
    <3>2. CASE u = t
      <4>1. s \in ExpiringIn(q, ex) /\ i \in 1 .. n BY <1>6, <1>13, <1>17, <3>2
      <4>2. r.heap[i] = [at |-> ex[s], timer |-> t] BY <1>9, <1>18, <4>1
      <4>3. e = r.heap[i] BY <1>6, <3>1, <3>2, <4>2
      <4> QED BY <1>9, <4>1, <4>3 DEF Entries
    <3>3. CASE u # t
      <4>1. u \in ExpiringIn(q, ex) /\ u # s /\ u \in Timers /\ fx[u] = ex[u] BY <1>6, <1>13, <3>1, <3>3
      <4>2. e \in EntriesOf(q, ex) BY <3>1, <4>1 DEF EntriesOf
      <4>3. PICK k \in 1 .. n : e = q.heap[k] BY <1>3, <4>2 DEF Entries, n
      <4>4. e.timer = u BY <3>1
      <4>5. k # i BY <1>18, <4>1, <4>3, <4>4
      <4>6. e = r.heap[k] BY <1>9, <4>3, <4>5
      <4> QED BY <1>9, <4>6 DEF Entries
    <3> QED BY <3>2, <3>3
  <2> QED BY <2>1, <2>2
<1>20. \A u \in AwaitedIn(r) : fx[u] = Never => r.index[u] = NoIndex
  <2> SUFFICES ASSUME NEW u \in AwaitedIn(r), fx[u] = Never PROVE r.index[u] = NoIndex OBVIOUS
  <2>1. u \in Timers BY DEF AwaitedIn
  <2>2. CASE u = t
    <3>1. s \in AwaitedIn(q) /\ ex[s] = Never BY <1>4, <1>6, <2>2
    <3> QED BY <1>10, <1>12, <2>2, <3>1 DEF i
  <2>3. CASE u # t
    <3>1. u \in AwaitedIn(q) /\ u # s /\ ex[u] = Never BY <1>6, <2>1, <2>3
    <3> QED BY <1>10, <1>12, <2>1, <2>3, <3>1
  <2> QED BY <2>2, <2>3
<1> QED BY <1>7, <1>14, <1>16, <1>19, <1>20 DEF Exact

\* Nothing refers to a timer that is not active.
LEMMA NotReferenced ==
  ASSUME NEW q \in Queues, NEW ex \in Expiries, Exact(q, ex), NEW t \in Timers, ~ Active(q, t)
  PROVE  ~ Referenced(q, t)
<1>1. Listed(q) = AwaitedIn(q) /\ Linear(q) /\ Entries(q) = EntriesOf(q, ex) BY DEF Exact
<1>2. t \notin AwaitedIn(q) BY <1>1 DEF Listed
<1>3. q.first # t BY DEF Active
<1>4. ASSUME NEW u \in Timers \ {t}, Active(q, u) PROVE q.next[u] # t /\ q.prev[u] # t
  <2>1. q.next[u] = t => q.prev[t] = u BY <1>1, <1>4, NullIsNoTimer DEF Linear, Forth
  <2>2. q.next[u] # t BY <2>1, NullIsNoTimer DEF Active
  <2>3. q.prev[u] = t => Active(q, t) BY <1>1, NullIsNoTimer DEF Linear, Back
  <2> QED BY <2>2, <2>3
<1>5. ASSUME NEW e \in Entries(q) PROVE e.timer # t
  <2>1. PICK u \in ExpiringIn(q, ex) : e = [at |-> ex[u], timer |-> u] BY <1>1 DEF EntriesOf
  <2>2. e.timer = u BY <2>1
  <2> QED BY <1>2, <2>2 DEF ExpiringIn
<1> QED BY <1>3, <1>4, <1>5 DEF Referenced

\* r is the queue q without anything that t had.
IsErased(q, t, r) ==
  /\ r \in Queues /\ r.heap = q.heap /\ r.first = q.first
  /\ r.index = [q.index EXCEPT ![t] = NoIndex]
  /\ r.next = [q.next EXCEPT ![t] = Null] /\ r.prev = [q.prev EXCEPT ![t] = Null]
  /\ r.ops = [q.ops EXCEPT ![t] = << >>]

LEMMA ErasedFields ==
  ASSUME NEW q \in Queues, NEW t \in Timers, NEW r, r = Erased(q, t)
  PROVE  IsErased(q, t, r)
<1>1. PICK d : d = [q.index EXCEPT ![t] = NoIndex] OBVIOUS
<1>2. PICK x : x = [q.next EXCEPT ![t] = Null] OBVIOUS
<1>3. PICK p : p = [q.prev EXCEPT ![t] = Null] OBVIOUS
<1>4. PICK o : o = [q.ops EXCEPT ![t] = << >>] OBVIOUS
<1>5. r = [q EXCEPT !.index = d, !.next = x, !.prev = p, !.ops = o]
  BY <1>1, <1>2, <1>3, <1>4 DEF Erased
<1>6. q = [heap |-> q.heap, index |-> q.index, next |-> q.next, prev |-> q.prev,
           first |-> q.first, ops |-> q.ops]
  BY QueueIs DEF Whole
<1>7. r = [heap |-> q.heap, index |-> d, next |-> x, prev |-> p, first |-> q.first, ops |-> o]
  BY <1>5, <1>6
<1>8. d \in [Timers -> Nat] BY <1>1, QueueIs DEF NoIndex
<1>9. x \in [Timers -> Timers \cup {Null}] /\ p \in [Timers -> Timers \cup {Null}]
  BY <1>2, <1>3, QueueIs
<1>10. o \in [Timers -> Seq(Waits)]
  <2>1. << >> \in Seq(Waits) OBVIOUS
  <2> QED BY <1>4, <2>1, QueueIs
<1>11. r \in Queues
  <2>1. q.heap \in Seq(HeapEntries) /\ q.first \in Timers \cup {Null} BY QueueIs
  <2>2. [heap |-> q.heap, index |-> d, next |-> x, prev |-> p, first |-> q.first, ops |-> o] \in Queues
    BY <1>8, <1>9, <1>10, <2>1, RecordTyped
  <2> QED BY <1>7, <2>2
<1>12. r.heap = q.heap /\ r.first = q.first /\ r.index = d /\ r.next = x /\ r.prev = p /\ r.ops = o BY <1>7
<1> QED BY <1>1, <1>2, <1>3, <1>4, <1>11, <1>12 DEF IsErased

LEMMA ErasedIs ==
  ASSUME NEW q \in Queues, NEW ex \in Expiries, Exact(q, ex), NEW t \in Timers, ~ Active(q, t),
         NEW r, r = Erased(q, t)
  PROVE  Exact(r, ex) /\ AwaitedIn(r) = AwaitedIn(q)
<1>1. Listed(q) = AwaitedIn(q) /\ Linear(q) /\ Entries(q) = EntriesOf(q, ex) /\ Ordered(q) /\ Indexed(q)
  BY DEF Exact
<1>2. t \notin AwaitedIn(q) /\ q.ops[t] = << >> /\ q.prev[t] = Null /\ q.first # t
  BY <1>1 DEF Listed, AwaitedIn, Active
<1>3. /\ r \in Queues /\ r.heap = q.heap /\ r.first = q.first
      /\ r.index = [q.index EXCEPT ![t] = NoIndex]
      /\ r.next = [q.next EXCEPT ![t] = Null] /\ r.prev = [q.prev EXCEPT ![t] = Null]
      /\ r.ops = [q.ops EXCEPT ![t] = << >>]
  <2>1. IsErased(q, t, r) BY ErasedFields
  <2> QED BY <2>1 DEF IsErased
<1>4. r.prev = q.prev /\ r.ops = q.ops
  <2>1. PICK p : p = q.prev OBVIOUS
  <2>2. p \in [Timers -> Timers \cup {Null}] BY <2>1, QueueIs
  <2>3. [p EXCEPT ![t] = Null] = p BY <1>2, <2>1, <2>2
  <2>4. PICK o : o = q.ops OBVIOUS
  <2>5. o \in [Timers -> Seq(Waits)] BY <2>4, QueueIs
  <2>6. [o EXCEPT ![t] = << >>] = o BY <1>2, <2>4, <2>5
  <2> QED BY <1>3, <2>1, <2>3, <2>4, <2>6
<1>5. \A u \in Timers : u # t => r.next[u] = q.next[u] /\ r.index[u] = q.index[u]
  BY <1>3, QueueIs
<1>6. \A u \in Timers : Active(r, u) <=> Active(q, u) BY <1>3, <1>4 DEF Active
<1>7. Listed(r) = Listed(q) BY <1>6 DEF Listed
<1>8. AwaitedIn(r) = AwaitedIn(q) BY <1>4 DEF AwaitedIn
<1>9. EntriesOf(r, ex) = EntriesOf(q, ex) BY <1>8 DEF EntriesOf, ExpiringIn
<1>10. Ordered(r) /\ Entries(r) = Entries(q) BY <1>1, <1>3, SameHeapKeeps
<1>11. Indexed(r)
  <2> SUFFICES ASSUME NEW k \in 1 .. Len(q.heap) PROVE r.index[q.heap[k].timer] = k
    BY <1>3 DEF Indexed
  <2>1. q.heap[k].timer \in ExpiringIn(q, ex) /\ q.index[q.heap[k].timer] = k BY ExactHeap
  <2>2. q.heap[k].timer # t /\ q.heap[k].timer \in Timers BY <1>2, <2>1 DEF ExpiringIn, AwaitedIn
  <2> QED BY <1>5, <2>1, <2>2
<1>12. Linear(r)
  <2>1. Head1(r) BY <1>1, <1>3, <1>4 DEF Linear, Head1
  <2>2. Forth(r)
    <3> SUFFICES ASSUME NEW u \in Timers, Active(r, u), r.next[u] # Null PROVE r.prev[r.next[u]] = u
      BY DEF Forth
    <3>1. u # t /\ Active(q, u) BY <1>6
    <3>2. q.prev[q.next[u]] = u BY <1>1, <1>5, <3>1 DEF Linear, Forth
    <3> QED BY <1>4, <1>5, <3>1, <3>2
  <2>3. Back(r)
    <3> SUFFICES ASSUME NEW u \in Timers, r.prev[u] # Null
                 PROVE  Active(r, r.prev[u]) /\ r.next[r.prev[u]] = u
      BY DEF Back
    <3>1. /\ q.prev[u] \in Timers /\ r.prev[u] = q.prev[u]
          /\ Active(q, q.prev[u]) /\ q.next[q.prev[u]] = u
      BY <1>1, <1>4, LinksAre DEF Linear, Back
    <3>2. q.prev[u] # t BY <3>1
    <3> QED BY <1>5, <1>6, <3>1, <3>2
  <2>4. Reached(r)
    <3> SUFFICES ASSUME NEW S \in SUBSET Timers, HoldsList(r, S) PROVE Listed(r) \subseteq S
      BY DEF Reached
    <3>1. ASSUME NEW u \in S, Active(q, u), q.next[u] # Null PROVE q.next[u] \in S
      <4>1. r.next[u] = q.next[u] BY <1>5, <3>1
      <4> QED BY <3>1, <4>1 DEF HoldsList
    <3>2. q.first # Null => q.first \in S BY <1>3 DEF HoldsList
    <3> QED BY <1>1, <1>7, <3>1, <3>2, OnlyListed
  <2> QED BY <2>1, <2>2, <2>3, <2>4 DEF Linear
<1>13. \A u \in AwaitedIn(r) : ex[u] = Never => r.index[u] = NoIndex
  <2>1. \A u \in AwaitedIn(r) : u \in Timers /\ u # t /\ u \in AwaitedIn(q) BY <1>2, <1>8 DEF AwaitedIn
  <2> QED BY <1>5, <2>1 DEF Exact
<1> QED BY <1>1, <1>7, <1>8, <1>9, <1>10, <1>11, <1>12, <1>13 DEF Exact

\* The end of the queue.
LEMMA AllTakenFields ==
  ASSUME NEW q \in Queues, NEW r, r = AllTaken(q)
  PROVE  /\ r \in Queues /\ r.heap = << >> /\ r.first = Null
         /\ \A u \in Timers : /\ r.prev[u] = IF u \in ActiveTimers(q) THEN Null ELSE q.prev[u]
                              /\ r.ops[u] = IF u \in ActiveTimers(q) THEN << >> ELSE q.ops[u]
<1>1. PICK o : o = [t \in Timers |-> IF t \in ActiveTimers(q) THEN << >> ELSE q.ops[t]] OBVIOUS
<1>2. PICK x : x = [t \in Timers |-> IF t \in ActiveTimers(q) THEN Null ELSE q.next[t]] OBVIOUS
<1>3. PICK p : p = [t \in Timers |-> IF t \in ActiveTimers(q) THEN Null ELSE q.prev[t]] OBVIOUS
<1>4. r = [q EXCEPT !.ops = o, !.next = x, !.prev = p, !.first = Null, !.heap = << >>]
  BY <1>1, <1>2, <1>3 DEF AllTaken
<1>5. q = [heap |-> q.heap, index |-> q.index, next |-> q.next, prev |-> q.prev,
           first |-> q.first, ops |-> q.ops]
  BY QueueIs DEF Whole
<1>6. r = [heap |-> << >>, index |-> q.index, next |-> x, prev |-> p, first |-> Null, ops |-> o]
  BY <1>4, <1>5
<1>7. x \in [Timers -> Timers \cup {Null}] /\ p \in [Timers -> Timers \cup {Null}]
  BY <1>2, <1>3, QueueIs
<1>8. o \in [Timers -> Seq(Waits)]
  <2>1. << >> \in Seq(Waits) OBVIOUS
  <2> QED BY <1>1, <2>1, QueueIs
<1>9. << >> \in Seq(HeapEntries) /\ Null \in Timers \cup {Null} OBVIOUS
<1>10. r \in Queues
  <2>1. q.index \in [Timers -> Nat] BY QueueIs
  <2>2. [heap |-> << >>, index |-> q.index, next |-> x, prev |-> p, first |-> Null, ops |-> o] \in Queues
    BY <1>7, <1>8, <1>9, <2>1, RecordTyped
  <2> QED BY <1>6, <2>2
<1> QED BY <1>1, <1>3, <1>6, <1>10

LEMMA AllTakenIs ==
  ASSUME NEW q \in Queues, NEW ex \in Expiries, Exact(q, ex), NEW r, r = AllTaken(q)
  PROVE  Exact(r, ex) /\ AwaitedIn(r) = {}
<1>1. Listed(q) = AwaitedIn(q) /\ Linear(q) BY DEF Exact
<1>2. ActiveTimers(q) = AwaitedIn(q) BY <1>1, ActiveTimersAre
<1>3. /\ r \in Queues /\ r.heap = << >> /\ r.first = Null
      /\ \A u \in Timers : /\ r.prev[u] = IF u \in AwaitedIn(q) THEN Null ELSE q.prev[u]
                           /\ r.ops[u] = IF u \in AwaitedIn(q) THEN << >> ELSE q.ops[u]
  BY <1>2, AllTakenFields
<1>4. \A u \in Timers : u \notin AwaitedIn(q) => q.ops[u] = << >> /\ q.prev[u] = Null
  BY <1>1 DEF Listed, AwaitedIn, Active
<1>5. \A u \in Timers : r.prev[u] = Null /\ r.ops[u] = << >> /\ ~ Active(r, u)
  BY <1>3, <1>4, NullIsNoTimer DEF Active
<1>6. AwaitedIn(r) = {} /\ Listed(r) = {} BY <1>5 DEF AwaitedIn, Listed
<1>7. Linear(r) BY <1>3, <1>5, <1>6 DEF Linear, Head1, Forth, Back, Reached
<1>8. Ordered(r) /\ Indexed(r) /\ Entries(r) = {} BY <1>3 DEF Ordered, Indexed, Entries
<1>9. EntriesOf(r, ex) = {} BY <1>6 DEF EntriesOf, ExpiringIn
<1> QED BY <1>6, <1>7, <1>8, <1>9 DEF Exact

----------------------------------------------------------------------------
(* What is due.                                                            *)

ExpireStates == [queue : Queues, ready : Seq(Completions)]

LEMMA WaitsOfIs ==
  ASSUME NEW ws \in Seq(Waits), NEW c \in Codes, NEW r, r = WaitsOf(ws, c)
  PROVE  r \in Seq(Completions) /\ (r = << >> <=> ws = << >>)
<1>1. Len(ws) \in Nat /\ DOMAIN ws = 1 .. Len(ws) /\ \A k \in 1 .. Len(ws) : ws[k] \in Waits OBVIOUS
<1>2. r = [k \in 1 .. Len(ws) |-> [wait |-> ws[k], code |-> c]] BY <1>1 DEF WaitsOf
<1>3. \A k \in 1 .. Len(ws) : [wait |-> ws[k], code |-> c] \in Completions BY <1>1 DEF Completions
<1>4. r \in [1 .. Len(ws) -> Completions] BY <1>2, <1>3
<1>5. r \in Seq(Completions) BY <1>1, <1>4, SeqDef
<1>6. Len(r) = Len(ws) BY <1>1, <1>4, <1>5, LenProperties
<1> QED BY <1>5, <1>6

LEMMA ExpiredStays ==
  ASSUME NEW ex \in Expiries, NEW s \in ExpireStates, NEW r, r = Expired(s)
  PROVE  /\ r \in ExpireStates
         /\ Exact(s.queue, ex) => Exact(r.queue, ex)
         /\ AwaitedIn(r.queue) \subseteq AwaitedIn(s.queue)
         /\ r = s \/ Len(r.queue.heap) < Len(s.queue.heap)
<1> DEFINE q == s.queue
           t == q.heap[1].timer
           p == [q EXCEPT !.ops[t] = << >>]
           g == Removed(p, t)
           y == s.ready \o WaitsOf(q.ops[t], "success")
<1>1. q \in Queues /\ s.ready \in Seq(Completions) /\ s = [queue |-> q, ready |-> s.ready]
  BY DEF ExpireStates
<1>2. CASE ~ IsDue(q) \/ IsStuck(q)
  <2>1. r = s BY <1>2 DEF Expired
  <2> QED BY <2>1
<1>3. CASE IsDue(q) /\ ~ IsStuck(q)
  <2>1. r = [queue |-> g, ready |-> y] BY <1>3 DEF Expired
  <2>2. q.heap # << >> /\ q.index[t] \in DOMAIN q.heap BY <1>3 DEF IsDue, IsStuck
  <2>3. 1 \in 1 .. Len(q.heap) /\ Len(q.heap) \in Nat BY <1>1, <2>2, QueueIs
  <2>4. t \in Timers BY <1>1, <2>3, EntryIs
  <2>5. p = [q EXCEPT !.ops[t] = << >>] /\ g = Removed(p, t) OBVIOUS
  <2>6. q.ops[t] \in Seq(Waits) BY <1>1, <2>4, QueueIs
  <2>7. y \in Seq(Completions)
    <3>1. PICK ws : ws = WaitsOf(q.ops[t], "success") OBVIOUS
    <3>2. ws \in Seq(Completions)
      <4>1. "success" \in Codes BY DEF Codes
      <4> QED BY <2>6, <3>1, <4>1, WaitsOfIs
    <3>3. y = s.ready \o ws BY <3>1
    <3> HIDE DEF y
    <3> QED BY <1>1, <3>2, <3>3, ConcatProperties
  <2> HIDE DEF p, g, y, t
  <2>8. /\ p \in Queues /\ p.heap = q.heap /\ p.index = q.index
        /\ \A u \in Timers : p.ops[u] = IF u = t THEN << >> ELSE q.ops[u]
    <3>1. << >> \in Seq(Waits) OBVIOUS
    <3>2. p \in Queues /\ WithOps(q, p, t, << >>) BY <1>1, <2>4, <2>5, <3>1, OpsTyped
    <3> QED BY <3>2 DEF WithOps
  <2>9. g \in Queues /\ g.ops = p.ops /\ Len(g.heap) = Len(q.heap) - 1
    <3>1. p \in Queues /\ g = Removed(p, t) /\ p.index[t] \in DOMAIN p.heap BY <2>2, <2>5, <2>8
    <3>2. g \in Queues /\ g.ops = p.ops /\ Len(g.heap) = Len(p.heap) - 1 BY <2>4, <3>1, RemovedTyped
    <3> QED BY <2>8, <3>2
  <2>10. ASSUME Exact(q, ex) PROVE Exact(g, ex)
    <3>1. t \in ExpiringIn(q, ex) BY <1>1, <2>2, <2>10, ExactRoot DEF t
    <3>2. Active(q, t) BY <2>10, <3>1 DEF Exact, ExpiringIn, Listed
    <3> QED BY <1>1, <2>4, <2>5, <2>10, <3>2, RemovedIs
  <2>11. r \in ExpireStates BY <2>1, <2>7, <2>9 DEF ExpireStates
  <2>12. r.queue = g BY <2>1
  <2>13. Len(r.queue.heap) < Len(s.queue.heap) BY <2>3, <2>9, <2>12
  <2>14. AwaitedIn(g) \subseteq AwaitedIn(q) BY <2>8, <2>9 DEF AwaitedIn
  <2> QED BY <2>10, <2>11, <2>12, <2>13, <2>14
<1> QED BY <1>2, <1>3

\* What every turn keeps holds when the loop ends, and no turn is left.
LEMMA ExpireLoop ==
  ASSUME NEW S \in SUBSET ExpireStates, NEW a \in S, \A s \in S : Expired(s) \in S, NEW r, r = Expire(a)
  PROVE  r \in S /\ Expired(r) = r
<1> DEFINE n == Len(a.queue.heap)
           G == [s \in S |-> Expired(s)]
           M == [s \in S |-> Len(s.queue.heap)]
           Turn(f) == [k \in 0 .. n |-> IF k = 0 THEN a ELSE Expired(f[k - 1])]
           turn == CHOOSE f : f = Turn(f)
<1>1. n \in Nat
  <2>1. a.queue \in Queues BY DEF ExpireStates
  <2> QED BY <2>1, QueueIs
<1>3. G \in [S -> S] OBVIOUS
<1>4. M \in [S -> Nat]
  <2>1. \A s \in S : s.queue \in Queues BY DEF ExpireStates
  <2>2. \A s \in S : Len(s.queue.heap) \in Nat BY <2>1, QueueIs
  <2> QED BY <2>2
<1>5. \A s \in S : G[s] = s \/ M[G[s]] < M[s]
  <2> TAKE s \in S
  <2>1. Expired(s) = s \/ Len(Expired(s).queue.heap) < Len(s.queue.heap)
    <3>1. PICK ex : ex = [t \in Timers |-> Never] OBVIOUS
    <3>2. ex \in Expiries BY <3>1 DEF Expiries
    <3> QED BY <3>2, ExpiredStays
  <2>2. G[s] = Expired(s) /\ Expired(s) \in S BY <1>3
  <2>3. M[s] = Len(s.queue.heap) /\ M[Expired(s)] = Len(Expired(s).queue.heap) BY <2>2
  <2> HIDE DEF G, M
  <2> QED BY <2>1, <2>2, <2>3
<1>6. \E f : f = Turn(f)
  <2>0. PICK f \in [0 .. n -> S] : TurnsFrom(f, a, G, n)
    <3> HIDE DEF G, n
    <3> QED BY <1>1, <1>3, LoopTurns
  <2>1. f[0] = a /\ \A k \in 1 .. n : f[k] = G[f[k - 1]]
    <3> HIDE DEF G, n
    <3> QED BY <2>0 DEF TurnsFrom
  <2>2. ASSUME NEW k \in 0 .. n PROVE f[k] = IF k = 0 THEN a ELSE Expired(f[k - 1])
    <3>1. CASE k = 0 BY <2>1, <3>1
    <3>2. CASE k # 0
      <4>1. k \in 1 .. n /\ k - 1 \in 0 .. n BY <1>1, <3>2
      <4>2. f[k - 1] \in S BY <2>0, <4>1
      <4> QED BY <2>1, <3>2, <4>1, <4>2
    <3> QED BY <3>1, <3>2
  <2>3. f = Turn(f)
    <3> HIDE DEF n
    <3> QED BY <2>0, <2>2
  <2> QED BY <2>3
<1>7. turn = Turn(turn) BY <1>6
<1>8. r = turn[n] BY DEF Expire
<1> HIDE DEF turn
<1>9. turn[0] = a BY <1>1, <1>7
<1>10. ASSUME NEW k \in 1 .. n, turn[k - 1] \in S PROVE turn[k] = G[turn[k - 1]]
  <2>1. k \in 0 .. n /\ k # 0 BY <1>1
  <2>2. turn[k] = Expired(turn[k - 1])
    <3> HIDE DEF n
    <3> QED BY <1>7, <2>1
  <2> QED BY <1>10, <2>2
<1>11. M[a] <= n BY <1>1
<1>12. turn[n] \in S /\ G[turn[n]] = turn[n]
  <2> HIDE DEF G, M, n
  <2>1. GoesFrom(turn, a, G, S, n) BY <1>9, <1>10 DEF GoesFrom
  <2>2. n \in Nat /\ a \in S /\ M[a] <= n BY <1>1, <1>11
  <2>3. Lessens(S, G, M) BY <1>3, <1>4, <1>5 DEF Lessens
  <2> QED BY <2>1, <2>2, <2>3, LoopEnds
<1>13. r \in S /\ G[r] = r BY <1>8, <1>12
<1> QED BY <1>13

LEMMA ExpireIs ==
  ASSUME NEW ex \in Expiries, NEW a \in ExpireStates, NEW r, r = Expire(a)
  PROVE  /\ r \in ExpireStates
         /\ Exact(a.queue, ex) => Exact(r.queue, ex)
         /\ AwaitedIn(r.queue) \subseteq AwaitedIn(a.queue)
<1> DEFINE S == {s \in ExpireStates : /\ Exact(a.queue, ex) => Exact(s.queue, ex)
                                      /\ AwaitedIn(s.queue) \subseteq AwaitedIn(a.queue)}
<1>1. a \in S /\ S \in SUBSET ExpireStates OBVIOUS
<1>2. \A s \in S : Expired(s) \in S BY ExpiredStays
<1>3. r \in S
  <2> HIDE DEF S
  <2> QED BY <1>1, <1>2, ExpireLoop
<1> QED BY <1>3

----------------------------------------------------------------------------
(* The invariant.                                                          *)

\* The types of the ready operations, where the thread is, what it completes and
\* how long it sleeps.
ThreadTyped(rd, rc, cu, sl) ==
  /\ rd \in Seq(Completions)
  /\ rc \in {"run", "complete", "lock", "sleep", "ended"}
  /\ cu \in Completions \cup {Null}
  /\ (cu # Null) <=> (rc = "complete")
  /\ sl \in 0 .. MaxWait

\* OnTime, of any queue, expiries, time and state of the thread.
Punctual(q, ex, n, rd, rc, sl) ==
  rc = "sleep" => rd = << >> /\ \A t \in ExpiringIn(q, ex) : sl = 0 \/ n + sl <= ex[t]

AwaitedLive(q, lf) == \A t \in AwaitedIn(q) : lf[t] = "live"

\* What a move that does harm may end.
Kept(q, ex, lf, n, rd, rc, sl) ==
  Exact(q, ex) /\ AwaitedLive(q, lf) /\ Punctual(q, ex, n, rd, rc, sl)

ReactorInv ==
  /\ TypeOK
  /\ harm = {} => Kept(queue, expiry, life, now, ready, reactor, sleep)
  /\ DefinedUnlessMoved

LEMMA TypeIs ==
  ASSUME TypeOK
  PROVE  /\ queue \in Queues /\ expiry \in Expiries /\ now \in Times
         /\ ThreadTyped(ready, reactor, current, sleep)
         /\ life \in [Timers -> {"none", "live"}]
         /\ outcome \in [Waits -> {"unused", "waiting", "destroyed"} \cup Codes]
         /\ phase \in {"up", "shutdown", "stopped", "joined"}
         /\ harm \subseteq {"index", "links"} /\ undefined \in BOOLEAN
BY DEF TypeOK, Expiries, ThreadTyped

\* The variables of a step that only concerns the queue and the thread.
LEMMA TypeNext ==
  ASSUME TypeOK,
         queue' \in Queues, ThreadTyped(ready', reactor', current', sleep'),
         expiry' \in Expiries, life' \in [Timers -> {"none", "live"}],
         now' = now, phase' = phase, outcome' = outcome, harm' \subseteq {"index", "links"},
         undefined' \in BOOLEAN
  PROVE  TypeOK'
BY DEF TypeOK, Expiries, ThreadTyped

LEMMA PunctualKeeps ==
  ASSUME NEW q, NEW ex, NEW r, NEW fx, NEW n, NEW rd, NEW rc, NEW sl,
         Punctual(q, ex, n, rd, rc, sl),
         \A u \in ExpiringIn(r, fx) : \E v \in ExpiringIn(q, ex) : fx[u] = ex[v]
  PROVE  Punctual(r, fx, n, rd, rc, sl)
BY DEF Punctual

LEMMA ReactorInit == Init => ReactorInv
<1> SUFFICES ASSUME Init PROVE ReactorInv OBVIOUS
<1> DEFINE d == [t \in Timers |-> NoIndex]
           x == [t \in Timers |-> Null]
           o == [t \in Timers |-> << >>]
<1>1. queue = [heap |-> << >>, index |-> d, next |-> x, prev |-> x, first |-> Null, ops |-> o]
  BY DEF Init
<1>2. queue \in Queues
  <2>1. << >> \in Seq(HeapEntries) /\ << >> \in Seq(Waits) /\ Null \in Timers \cup {Null} OBVIOUS
  <2>2. d \in [Timers -> Nat] /\ x \in [Timers -> Timers \cup {Null}] /\ o \in [Timers -> Seq(Waits)]
    BY <2>1 DEF NoIndex
  <2> HIDE DEF d, x, o
  <2>3. [heap |-> << >>, index |-> d, next |-> x, prev |-> x, first |-> Null, ops |-> o] \in Queues
    BY <2>1, <2>2, RecordTyped
  <2> QED BY <1>1, <2>3
<1>3. /\ queue.heap = << >> /\ queue.first = Null
      /\ \A t \in Timers : queue.prev[t] = Null /\ queue.ops[t] = << >> /\ ~ Active(queue, t)
  BY <1>1, NullIsNoTimer DEF Active
<1>4. AwaitedIn(queue) = {} /\ Listed(queue) = {} BY <1>3 DEF AwaitedIn, Listed
<1>5. Exact(queue, expiry)
  <2>1. Linear(queue) BY <1>3, <1>4 DEF Linear, Head1, Forth, Back, Reached
  <2>2. Ordered(queue) /\ Indexed(queue) /\ Entries(queue) = {}
    BY <1>3 DEF Ordered, Indexed, Entries
  <2>3. EntriesOf(queue, expiry) = {} BY <1>4 DEF EntriesOf, ExpiringIn
  <2> QED BY <1>4, <2>1, <2>2, <2>3 DEF Exact
<1>6. TypeOK
  <2>1. ready \in Seq(Completions) /\ reactor = "run" /\ current = Null /\ sleep \in 0 .. MaxWait
    BY ReactorAssumption DEF Init, ReactorAssumption
  <2>2. now \in Times /\ expiry \in [Timers -> Times \cup {Never}]
    BY ReactorAssumption DEF Init, ReactorAssumption, Times
  <2> QED BY <1>2, <2>1, <2>2 DEF Init, TypeOK
<1>7. Punctual(queue, expiry, now, ready, reactor, sleep) BY DEF Init, Punctual
<1>8. Kept(queue, expiry, life, now, ready, reactor, sleep) BY <1>4, <1>5, <1>7 DEF Kept, AwaitedLive
<1> QED BY <1>6, <1>8 DEF ReactorInv, Init, DefinedUnlessMoved

----------------------------------------------------------------------------
(* The steps.                                                              *)

LEMMA NotifiedIs ==
  ASSUME ThreadTyped(ready, reactor, current, sleep), NEW told \in BOOLEAN, Notify(told), current' = current,
         ready' \in Seq(Completions)
  PROVE  /\ ThreadTyped(ready', reactor', current', sleep')
         /\ told => reactor' # "sleep"
         /\ ~ told => reactor' = reactor /\ sleep' = sleep
<1>1. 0 \in 0 .. MaxWait BY ReactorAssumption DEF ReactorAssumption
<1> QED BY <1>1 DEF ThreadTyped, Notify

\* A cancel: the first n waits of t are ready.
LEMMA CanceledIs ==
  ASSUME TypeOK, NEW t \in Timers, NEW n \in 0 .. Len(queue.ops[t]), NEW q, q = Without(queue, t, n),
         ready' = ready \o WaitsOf(Taken(queue, t, n), "canceled"),
         Notify(Taken(queue, t, n) # << >>), current' = current
  PROVE  /\ q \in Queues /\ ThreadTyped(ready', reactor', current', sleep')
         /\ Kept(queue, expiry, life, now, ready, reactor, sleep)
              => Kept(q, expiry, life, now, ready', reactor', sleep')
<1>1. /\ queue \in Queues /\ expiry \in Expiries /\ ThreadTyped(ready, reactor, current, sleep)
      /\ ready \in Seq(Completions)
  BY TypeIs DEF ThreadTyped
<1>2. PICK ws : ws = Taken(queue, t, n) OBVIOUS
<1>3. q \in Queues /\ ws \in Seq(Waits) BY <1>1, <1>2, WithoutTyped
<1>4. PICK cs : cs = WaitsOf(ws, "canceled") OBVIOUS
<1>5. cs \in Seq(Completions) /\ (cs = << >> <=> ws = << >>)
  <2>1. "canceled" \in Codes BY DEF Codes
  <2> QED BY <1>3, <1>4, <2>1, WaitsOfIs
<1>6. ready' = ready \o cs BY <1>2, <1>4
<1>7. ready' \in Seq(Completions) BY <1>1, <1>5, <1>6, ConcatProperties
<1>8. /\ ThreadTyped(ready', reactor', current', sleep')
      /\ ws # << >> => reactor' # "sleep"
      /\ ~ (ws # << >>) => reactor' = reactor /\ sleep' = sleep
  <2>1. PICK told \in BOOLEAN : told = (ws # << >>) OBVIOUS
  <2>2. Notify(told) BY <1>2, <2>1
  <2>3. /\ ThreadTyped(ready', reactor', current', sleep')
        /\ told => reactor' # "sleep"
        /\ ~ told => reactor' = reactor /\ sleep' = sleep
    BY <1>1, <1>7, <2>2, NotifiedIs
  <2> QED BY <2>1, <2>3
<1>9. ASSUME Kept(queue, expiry, life, now, ready, reactor, sleep)
      PROVE  Kept(q, expiry, life, now, ready', reactor', sleep')
  <2>1. Exact(q, expiry) /\ AwaitedIn(q) \subseteq AwaitedIn(queue) BY <1>1, <1>9, WithoutIs DEF Kept
  <2>2. AwaitedLive(q, life) BY <1>9, <2>1 DEF Kept, AwaitedLive
  <2>3. ExpiringIn(q, expiry) \subseteq ExpiringIn(queue, expiry) BY <2>1 DEF ExpiringIn
  <2>4. Punctual(q, expiry, now, ready', reactor', sleep')
    <3>1. CASE ws # << >> BY <1>8, <3>1 DEF Punctual
    <3>2. CASE ws = << >>
      <4>1. ready' = ready BY <1>1, <1>5, <1>6, <3>2
      <4>2. reactor' = reactor /\ sleep' = sleep BY <1>8, <3>2
      <4>3. Punctual(queue, expiry, now, ready, reactor, sleep) BY <1>9 DEF Kept
      <4> QED BY <2>3, <4>1, <4>2, <4>3 DEF Punctual
    <3> QED BY <3>1, <3>2
  <2> QED BY <2>1, <2>2, <2>4 DEF Kept
<1> QED BY <1>3, <1>8, <1>9

LEMMA NothingSleepsLong ==
  ASSUME NEW q \in Queues, now \in Times
  PROVE  WaitDuration(q) \in 0 .. MaxWait
<1>1. MaxWait \in Nat /\ now \in Nat BY ReactorAssumption, TimesAre DEF ReactorAssumption
<1>2. CASE q.heap = << >> BY <1>1, <1>2 DEF WaitDuration
<1>3. CASE q.heap # << >>
  <2>1. 1 \in 1 .. Len(q.heap) BY <1>3, QueueIs
  <2>2. PICK a : a = q.heap[1].at OBVIOUS
  <2>3. a \in Nat BY <2>1, <2>2, EntryIs
  <2>4. WaitDuration(q) = IF a <= now THEN 0 ELSE Least(MaxWait, a - now)
    BY <1>3, <2>2 DEF WaitDuration
  <2> QED BY <1>1, <2>3, <2>4 DEF Least
<1> QED BY <1>2, <1>3

LEMMA CompletesOrSleeps ==
  ASSUME NEW q \in Queues, NEW ops \in Seq(Completions), now \in Times, CompleteOrSleep(q, ops)
  PROVE  /\ ThreadTyped(ready', reactor', current', sleep')
         /\ \A ex \in Expiries : Exact(q, ex) => Punctual(q, ex, now, ready', reactor', sleep')
<1>1. CASE ops # << >>
  <2>1. Head(ops) \in Completions /\ Tail(ops) \in Seq(Completions) BY <1>1, HeadTailProperties
  <2>2. reactor' = "complete" /\ current' = Head(ops) /\ ready' = Tail(ops) /\ sleep' = 0
    BY <1>1 DEF CompleteOrSleep
  <2>3. 0 \in 0 .. MaxWait BY ReactorAssumption DEF ReactorAssumption
  <2>4. current' # Null BY <2>1, <2>2, NullIsNoTimer
  <2> QED BY <2>1, <2>2, <2>3, <2>4 DEF ThreadTyped, Punctual
<1>2. CASE ops = << >>
  <2>1. reactor' = "sleep" /\ current' = Null /\ ready' = << >> /\ sleep' = WaitDuration(q)
    BY <1>2 DEF CompleteOrSleep
  <2>2. ThreadTyped(ready', reactor', current', sleep') BY <2>1, NothingSleepsLong DEF ThreadTyped
  <2>3. ASSUME NEW ex \in Expiries, Exact(q, ex) PROVE Punctual(q, ex, now, ready', reactor', sleep')
    <3> SUFFICES ASSUME NEW t \in ExpiringIn(q, ex) PROVE sleep' = 0 \/ now + sleep' <= ex[t]
      BY <2>1 DEF Punctual
    <3>1. q.heap # << >> BY <2>3, ExactRoot
    <3>2. PICK a : a = q.heap[1].at OBVIOUS
    <3>3. a \in Times /\ a <= ex[t] BY <2>3, <3>1, <3>2, ExactRoot
    <3>4. sleep' = IF a <= now THEN 0 ELSE Least(MaxWait, a - now)
      BY <2>1, <3>1, <3>2 DEF WaitDuration
    <3>5. ex[t] \in Times \cup {Never} BY DEF Expiries, ExpiringIn, AwaitedIn
    <3>6. ex[t] \in Nat /\ a \in Nat /\ now \in Nat /\ MaxWait \in Nat
      BY <3>3, <3>5, TimesAre, ReactorAssumption DEF ReactorAssumption
    <3> QED BY <3>3, <3>4, <3>6 DEF Least
  <2> QED BY <2>2, <2>3
<1> QED BY <1>1, <1>2

\* What an unchanged undefined says.
LEMMA StaysDefined == ASSUME Defined, UNCHANGED undefined PROVE DefinedUnlessMoved'
BY DEF Defined, DefinedUnlessMoved

LEMMA ConstructKeeps == ASSUME ReactorInv, NEW t \in Timers, Construct(t) PROVE ReactorInv'
<1>1. TypeOK BY DEF ReactorInv
<1>2. /\ queue \in Queues /\ expiry \in Expiries /\ life \in [Timers -> {"none", "live"}]
      /\ ThreadTyped(ready, reactor, current, sleep)
      /\ harm \subseteq {"index", "links"} /\ undefined \in BOOLEAN
  BY <1>1, TypeIs
<1>3. PICK e \in Times \cup {Never} : expiry' = [expiry EXCEPT ![t] = e] BY DEF Construct
<1>4. /\ life[t] = "none" /\ life' = [life EXCEPT ![t] = "live"]
      /\ UNCHANGED <<now, queue, ready, reactor, current, sleep, phase, outcome, harm, undefined>>
  BY DEF Construct
<1>5. expiry' \in Expiries /\ life' \in [Timers -> {"none", "live"}] BY <1>2, <1>3, <1>4 DEF Expiries
<1>6. TypeOK' BY <1>1, <1>2, <1>4, <1>5, TypeNext
<1>7. ASSUME harm' = {} PROVE Kept(queue, expiry, life, now, ready, reactor, sleep)'
  <2>1. Kept(queue, expiry, life, now, ready, reactor, sleep) BY <1>4, <1>7 DEF ReactorInv
  <2>2. t \notin AwaitedIn(queue) BY <1>4, <2>1 DEF Kept, AwaitedLive
  <2>3. \A u \in AwaitedIn(queue) : expiry'[u] = expiry[u] /\ life'[u] = life[u]
    BY <1>2, <1>3, <1>4, <2>2 DEF AwaitedIn, Expiries
  <2>4. Exact(queue, expiry') BY <1>2, <1>5, <2>1, <2>3, ExpiryKeeps DEF Kept
  <2>5. AwaitedLive(queue, life') BY <2>1, <2>3 DEF Kept, AwaitedLive
  <2>6. \A u \in ExpiringIn(queue, expiry') : u \in ExpiringIn(queue, expiry) /\ expiry'[u] = expiry[u]
    BY <2>3 DEF ExpiringIn
  <2>7. Punctual(queue, expiry', now, ready, reactor, sleep) BY <2>1, <2>6, PunctualKeeps DEF Kept
  <2> QED BY <1>4, <2>4, <2>5, <2>7 DEF Kept
<1> QED BY <1>4, <1>6, <1>7, StaysDefined DEF ReactorInv, Construct

\* Cancel, cancel_one and the cancel of expires_at, after which t has another
\* expiry.
LEMMA CancelsKeep ==
  ASSUME ReactorInv, NEW t \in Timers, NEW n \in 0 .. Len(queue.ops[t]), Defined, CancelUpTo(t, n),
         NEW e \in Times \cup {Never}, expiry' = [expiry EXCEPT ![t] = e],
         n = Len(queue.ops[t]) \/ expiry' = expiry,
         UNCHANGED <<now, life, current, phase, outcome, harm, undefined>>
  PROVE  ReactorInv'
<1>1. TypeOK BY DEF ReactorInv
<1>2. /\ queue \in Queues /\ expiry \in Expiries /\ life \in [Timers -> {"none", "live"}]
      /\ harm \subseteq {"index", "links"} /\ undefined \in BOOLEAN
  BY <1>1, TypeIs
<1>3. expiry' \in Expiries BY <1>2 DEF Expiries
<1>4. PICK q : q = Without(queue, t, n) OBVIOUS
<1>5. /\ queue' = q /\ Notify(Taken(queue, t, n) # << >>)
      /\ ready' = ready \o WaitsOf(Taken(queue, t, n), "canceled")
  BY <1>4 DEF CancelUpTo
<1>6. /\ q \in Queues /\ ThreadTyped(ready', reactor', current', sleep')
      /\ Kept(queue, expiry, life, now, ready, reactor, sleep)
           => Kept(q, expiry, life, now, ready', reactor', sleep')
  BY <1>1, <1>4, <1>5, CanceledIs
<1>7. TypeOK' BY <1>1, <1>2, <1>3, <1>5, <1>6, TypeNext
<1>8. ASSUME harm' = {} PROVE Kept(queue, expiry, life, now, ready, reactor, sleep)'
  <2>1. Kept(q, expiry, life, now, ready', reactor', sleep') BY <1>6, <1>8 DEF ReactorInv
  <2>2. \A u \in AwaitedIn(q) : expiry'[u] = expiry[u]
    <3>1. CASE expiry' = expiry BY <3>1
    <3>2. CASE n = Len(queue.ops[t])
      <4>1. Exact(queue, expiry) BY <1>8 DEF ReactorInv, Kept
      <4>2. q.ops[t] = << >> BY <1>2, <1>4, <3>2, <4>1, WithoutIs
      <4> QED BY <1>2, <4>2 DEF AwaitedIn, Expiries
    <3> QED BY <3>1, <3>2
  <2>3. Exact(q, expiry') BY <1>2, <1>3, <1>6, <2>1, <2>2, ExpiryKeeps DEF Kept
  <2>4. \A u \in ExpiringIn(q, expiry') : u \in ExpiringIn(q, expiry) /\ expiry'[u] = expiry[u]
    BY <2>2 DEF ExpiringIn
  <2>5. Punctual(q, expiry', now, ready', reactor', sleep') BY <2>1, <2>4, PunctualKeeps DEF Kept
  <2> QED BY <1>5, <2>1, <2>3, <2>5 DEF Kept
<1> QED BY <1>7, <1>8, StaysDefined DEF ReactorInv

LEMMA CancelKeeps ==
  ASSUME ReactorInv, NEW t \in Timers, Cancel(t) \/ CancelOne(t) \/ \E e \in Times \cup {Never} : ExpiresAt(t, e)
  PROVE  ReactorInv'
<1>1. queue \in Queues /\ expiry \in Expiries BY TypeIs DEF ReactorInv
<1>2. Len(queue.ops[t]) \in Nat BY <1>1, QueueIs
<1>3. expiry[t] \in Times \cup {Never} /\ expiry = [expiry EXCEPT ![t] = expiry[t]] BY <1>1 DEF Expiries
<1>4. CASE Cancel(t)
  <2>1. /\ Defined /\ CancelUpTo(t, Len(queue.ops[t])) /\ expiry' = [expiry EXCEPT ![t] = expiry[t]]
        /\ UNCHANGED <<now, life, current, phase, outcome, harm, undefined>>
    BY <1>3, <1>4 DEF Cancel, MayUse, All
  <2>2. Len(queue.ops[t]) \in 0 .. Len(queue.ops[t]) BY <1>2
  <2> QED BY <1>3, <2>1, <2>2, CancelsKeep
<1>5. CASE CancelOne(t)
  <2>1. PICK n : n = IF Len(queue.ops[t]) = 0 THEN 0 ELSE 1 OBVIOUS
  <2>2. n \in 0 .. Len(queue.ops[t]) BY <1>2, <2>1
  <2>3. /\ Defined /\ CancelUpTo(t, n) /\ expiry' = [expiry EXCEPT ![t] = expiry[t]] /\ expiry' = expiry
        /\ UNCHANGED <<now, life, current, phase, outcome, harm, undefined>>
    BY <1>3, <1>5, <2>1 DEF CancelOne, MayUse, All
  <2> QED BY <1>3, <2>2, <2>3, CancelsKeep
<1>6. ASSUME NEW e \in Times \cup {Never}, ExpiresAt(t, e) PROVE ReactorInv'
  <2>1. /\ Defined /\ CancelUpTo(t, Len(queue.ops[t])) /\ expiry' = [expiry EXCEPT ![t] = e]
        /\ UNCHANGED <<now, life, current, phase, outcome, harm, undefined>>
    BY <1>6 DEF ExpiresAt, MayUse, All
  <2>2. Len(queue.ops[t]) \in 0 .. Len(queue.ops[t]) BY <1>2
  <2> QED BY <2>1, <2>2, CancelsKeep
<1> QED BY <1>4, <1>5, <1>6

LEMMA WaitKeeps ==
  ASSUME ReactorInv, NEW t \in Timers, NEW w \in Waits, Wait(t, w)
  PROVE  ReactorInv'
<1>1. TypeOK BY DEF ReactorInv
<1>2. /\ queue \in Queues /\ expiry \in Expiries /\ life \in [Timers -> {"none", "live"}]
      /\ now \in Times /\ ThreadTyped(ready, reactor, current, sleep)
      /\ outcome \in [Waits -> {"unused", "waiting", "destroyed"} \cup Codes]
      /\ harm \subseteq {"index", "links"} /\ undefined \in BOOLEAN
  BY <1>1, TypeIs
<1>3. /\ Defined /\ life[t] = "live" /\ outcome' = [outcome EXCEPT ![w] = "waiting"]
      /\ queue' = Enqueued(queue, t, expiry[t], w)
      /\ Notify(IsFirst(queue', t, w))
      /\ UNCHANGED <<now, life, expiry, ready, current, phase, harm, undefined>>
  BY DEF Wait, MayUse
<1>4. /\ queue' \in Queues
      /\ \A u \in Timers : queue'.ops[u] = IF u = t THEN Append(queue.ops[t], w) ELSE queue.ops[u]
      /\ Exact(queue, expiry) => Exact(queue', expiry)
  BY <1>2, <1>3, EnqueuedIs
<1>5. PICK told \in BOOLEAN : told = IsFirst(queue', t, w) BY DEF IsFirst
<1>6. /\ ThreadTyped(ready', reactor', current', sleep')
      /\ told => reactor' # "sleep"
      /\ ~ told => reactor' = reactor /\ sleep' = sleep
  <2>1. Notify(told) BY <1>3, <1>5
  <2>2. ready' \in Seq(Completions) BY <1>2, <1>3 DEF ThreadTyped
  <2> QED BY <1>2, <1>3, <2>1, <2>2, NotifiedIs
<1>7. outcome' \in [Waits -> {"unused", "waiting", "destroyed"} \cup Codes] BY <1>2, <1>3
<1>8. TypeOK' BY <1>1, <1>3, <1>4, <1>6, <1>7 DEF TypeOK, ThreadTyped
<1>9. ASSUME harm' = {} PROVE Kept(queue, expiry, life, now, ready, reactor, sleep)'
  <2>1. Kept(queue, expiry, life, now, ready, reactor, sleep) BY <1>3, <1>9 DEF ReactorInv
  <2>2. Exact(queue', expiry) BY <1>4, <2>1 DEF Kept
  <2>3. \A u \in AwaitedIn(queue') : u \in Timers /\ (u # t => u \in AwaitedIn(queue)) BY <1>4 DEF AwaitedIn
  <2>4. AwaitedLive(queue', life) BY <1>3, <2>1, <2>3 DEF Kept, AwaitedLive
  <2>5. Punctual(queue', expiry, now, ready, reactor', sleep')
    <3>1. CASE told BY <1>6, <3>1 DEF Punctual
    <3>2. CASE ~ told
      <4> SUFFICES ASSUME reactor = "sleep"
                   PROVE  /\ ready = << >>
                          /\ \A u \in ExpiringIn(queue', expiry) : sleep = 0 \/ now + sleep <= expiry[u]
        BY <1>6, <3>2 DEF Punctual
      <4>1. ready = << >> /\ \A u \in ExpiringIn(queue, expiry) : sleep = 0 \/ now + sleep <= expiry[u]
        BY <2>1 DEF Kept, Punctual
      <4>2. ASSUME NEW u \in ExpiringIn(queue', expiry) PROVE sleep = 0 \/ now + sleep <= expiry[u]
        <5>1. CASE u \in ExpiringIn(queue, expiry) BY <4>1, <5>1
        <5>2. CASE u \notin ExpiringIn(queue, expiry)
          <6>1. u = t /\ t \notin AwaitedIn(queue) BY <2>3, <4>2, <5>2 DEF ExpiringIn
          <6>2. queue.ops[t] = << >> BY <6>1 DEF AwaitedIn
          <6>3. Head(queue'.ops[t]) = w
            <7>1. queue'.ops[t] = Append(<< >>, w) BY <1>4, <6>2
            <7> QED BY <7>1
          <6>4. queue'.index[t] # 1 BY <1>5, <3>2, <6>3 DEF IsFirst
          <6>5. PICK v : v = queue'.heap[1].timer OBVIOUS
          <6>6. queue'.heap # << >> BY <1>2, <1>4, <2>2, <4>2, ExactRoot
          <6>7. /\ v \in ExpiringIn(queue', expiry) /\ queue'.index[v] = 1
                /\ queue'.heap[1].at = expiry[v] /\ queue'.heap[1].at <= expiry[u]
            BY <1>2, <1>4, <2>2, <4>2, <6>5, <6>6, ExactRoot
          <6>8. v \in ExpiringIn(queue, expiry) BY <2>3, <6>4, <6>7 DEF ExpiringIn
          <6>9. expiry[v] <= expiry[u] /\ (sleep = 0 \/ now + sleep <= expiry[v]) BY <4>1, <6>7, <6>8
          <6>10. expiry[v] \in Nat /\ expiry[u] \in Nat /\ now \in Nat /\ sleep \in Nat
            <7>1. u \in Timers /\ v \in Timers BY <4>2, <6>7 DEF ExpiringIn, AwaitedIn
            <7>2. expiry[v] \in Times \cup {Never} /\ expiry[u] \in Times \cup {Never}
              BY <1>2, <7>1 DEF Expiries
            <7>3. sleep \in Nat BY <1>2, ReactorAssumption DEF ThreadTyped, ReactorAssumption
            <7> QED BY <1>2, <7>2, <7>3, TimesAre
          <6> QED BY <6>9, <6>10
        <5> QED BY <5>1, <5>2
      <4> QED BY <4>1, <4>2
    <3> QED BY <3>1, <3>2
  <2> QED BY <1>3, <2>2, <2>4, <2>5 DEF Kept
<1> QED BY <1>3, <1>8, <1>9, StaysDefined DEF ReactorInv

\* Only the links of t and of its neighbours change when t leaves the list.
LEMMA OtherNext ==
  ASSUME NEW q \in Queues, NEW ex \in Expiries, Exact(q, ex), NEW t \in Timers, NEW s \in Timers,
         ~ Active(q, s), s # t, NEW n \in 0 .. Len(q.ops[t]), NEW r, r = Without(q, t, n)
  PROVE  r.next[s] = q.next[s] /\ ~ Active(r, s)
<1>1. ~ Active(r, s)
  <2>1. Exact(r, ex) /\ AwaitedIn(r) \subseteq AwaitedIn(q) BY WithoutIs
  <2>2. Listed(r) = AwaitedIn(r) /\ Listed(q) = AwaitedIn(q) BY <2>1 DEF Exact
  <2> QED BY <2>1, <2>2 DEF Listed
<1>2. CASE ~ Active(q, t)
  <2>1. r = q BY <1>2 DEF Without
  <2> QED BY <1>1, <2>1
<1>3. CASE Active(q, t)
  <2>1. PICK ws : ws = SubSeq(q.ops[t], n + 1, Len(q.ops[t])) OBVIOUS
  <2>2. ws \in Seq(Waits)
    <3>1. q.ops[t] \in Seq(Waits) /\ Len(q.ops[t]) \in Nat BY QueueIs
    <3>2. n + 1 \in 1 .. Len(q.ops[t]) + 1 /\ n \in Nat BY <3>1
    <3>3. \A k \in n + 1 .. Len(q.ops[t]) : q.ops[t][k] \in Waits BY <3>1, <3>2
    <3> QED BY <2>1, <3>1, <3>2, <3>3, SubSeqProperties
  <2>3. PICK p : p = [q EXCEPT !.ops[t] = ws] OBVIOUS
  <2>4. r = RemovedIfIdle(p, t)
    <3>1. p = [q EXCEPT !.ops[t] = SubSeq(@, n + 1, Len(@))] BY <2>1, <2>3, QueueIs
    <3> QED BY <1>3, <3>1 DEF Without
  <2>5. p \in Queues /\ WithOps(q, p, t, ws) BY <2>2, <2>3, OpsTyped
  <2>6. p.next = q.next /\ p.prev = q.prev BY <2>5 DEF WithOps
  <2>7. CASE r = p BY <1>1, <2>6, <2>7
  <2>8. CASE r = Removed(p, t)
    <3>1. PICK o : o = OutOfHeap(p, t) OBVIOUS
    <3>2. o \in Queues /\ o.next = q.next /\ o.prev = q.prev
      BY <2>5, <2>6, <3>1, OutOfHeapIs DEF LessEntry, SameList
    <3>3. r = Unlinked(o, t) BY <2>8, <3>1 DEF Removed
    <3>4. r.next[s] = IF s = t THEN Null ELSE IF s = o.prev[t] THEN o.next[t] ELSE o.next[s]
      BY <3>2, <3>3, UnlinkedFields
    <3>5. q.prev[t] # s BY NullIsNoTimer DEF Exact, Linear, Back
    <3> QED BY <1>1, <3>2, <3>4, <3>5
  <2> QED BY <2>4, <2>7, <2>8 DEF RemovedIfIdle
<1> QED BY <1>2, <1>3

\* An active timer's neighbour is there.
LEMMA NextLives ==
  ASSUME NEW q \in Queues, NEW ex \in Expiries, Exact(q, ex), NEW lf, AwaitedLive(q, lf),
         NEW s \in Timers, Active(q, s) \/ q.next[s] = Null
  PROVE  ~ (q.next[s] # Null /\ lf[q.next[s]] = "none")
<1> SUFFICES ASSUME q.next[s] # Null, Active(q, s) PROVE lf[q.next[s]] = "live" OBVIOUS
<1>1. q.next[s] \in Timers /\ q.prev[q.next[s]] = s BY LinksAre DEF Exact, Linear, Forth
<1>2. Active(q, q.next[s]) BY <1>1, NullIsNoTimer DEF Active
<1>3. q.next[s] \in AwaitedIn(q) BY <1>1, <1>2 DEF Exact, Listed
<1> QED BY <1>3 DEF AwaitedLive

LEMMA MoveHarmIs == ASSUME NEW q, NEW s PROVE MoveHarm(q, s) \subseteq {"index", "links"}
BY DEF MoveHarm

\* A move from q, which is what a cancel has left of the queue, or the queue.
LEMMA MoveKeeps ==
  ASSUME NEW q \in Queues, NEW ex \in Expiries, NEW lf, NEW n, NEW rd, NEW rc, NEW sl,
         Kept(q, ex, lf, n, rd, rc, sl),
         NEW t \in Timers, NEW s \in Timers, s # t, ~ Active(q, t), MoveHarm(q, s) = {},
         NEW r, r = Moved(q, t, s), NEW fx, fx = [ex EXCEPT ![t] = ex[s], ![s] = Never],
         lf[t] = "live"
  PROVE  Kept(r, fx, lf, n, rd, rc, sl)
<1>1. Exact(q, ex) /\ AwaitedLive(q, lf) /\ Punctual(q, ex, n, rd, rc, sl) BY DEF Kept
<1>2. Exact(r, fx) BY <1>1, MovedIs
<1>3. q.ops[t] = << >> BY <1>1 DEF Exact, Listed, AwaitedIn
<1>4. MovedData(q, r, t, s) BY MovedFields
<1>5. WaitsMove(q, ex, r, fx, t, s) BY <1>3, <1>4, MovedWaits
<1>6. /\ AwaitedIn(r) = (AwaitedIn(q) \ {s}) \cup (IF s \in AwaitedIn(q) THEN {t} ELSE {})
      /\ ExpiringIn(r, fx) = (ExpiringIn(q, ex) \ {s}) \cup (IF s \in ExpiringIn(q, ex) THEN {t} ELSE {})
      /\ \A u \in Timers : fx[u] = IF u = t THEN ex[s] ELSE IF u = s THEN Never ELSE ex[u]
  BY <1>5 DEF WaitsMove
<1>7. AwaitedLive(r, lf)
  <2> SUFFICES ASSUME NEW u \in AwaitedIn(r), u # t PROVE lf[u] = "live" BY DEF AwaitedLive
  <2>1. u \in AwaitedIn(q) BY <1>6
  <2> QED BY <1>1, <2>1 DEF AwaitedLive
<1>8. ASSUME NEW u \in ExpiringIn(r, fx) PROVE \E v \in ExpiringIn(q, ex) : fx[u] = ex[v]
  <2>1. CASE u = t
    <3>1. t \notin ExpiringIn(q, ex) BY <1>3 DEF ExpiringIn, AwaitedIn
    <3>2. s \in ExpiringIn(q, ex) BY <1>6, <1>8, <2>1, <3>1
    <3>3. fx[u] = ex[s] BY <1>6, <2>1
    <3> QED BY <3>2, <3>3
  <2>2. CASE u # t
    <3>1. u \in ExpiringIn(q, ex) /\ u # s /\ u \in Timers BY <1>6, <1>8, <2>2 DEF ExpiringIn, AwaitedIn
    <3>2. fx[u] = ex[u] BY <1>6, <2>2, <3>1
    <3> QED BY <3>1, <3>2
  <2> QED BY <2>1, <2>2
<1>9. Punctual(r, fx, n, rd, rc, sl)
  <2> SUFFICES ASSUME rc = "sleep"
               PROVE  rd = << >> /\ \A u \in ExpiringIn(r, fx) : sl = 0 \/ n + sl <= fx[u]
    BY DEF Punctual
  <2>1. rd = << >> /\ \A u \in ExpiringIn(q, ex) : sl = 0 \/ n + sl <= ex[u] BY <1>1 DEF Punctual
  <2>2. ASSUME NEW u \in ExpiringIn(r, fx) PROVE sl = 0 \/ n + sl <= fx[u]
    <3>1. PICK v \in ExpiringIn(q, ex) : fx[u] = ex[v] BY <1>8
    <3> QED BY <2>1, <3>1
  <2> QED BY <2>1, <2>2
<1> QED BY <1>2, <1>7, <1>9 DEF Kept

LEMMA MoveConstructKeeps ==
  ASSUME ReactorInv, NEW t \in Timers, NEW s \in Timers, MoveConstruct(t, s)
  PROVE  ReactorInv'
<1>1. TypeOK BY DEF ReactorInv
<1>2. /\ queue \in Queues /\ expiry \in Expiries /\ life \in [Timers -> {"none", "live"}]
      /\ ThreadTyped(ready, reactor, current, sleep)
      /\ harm \subseteq {"index", "links"} /\ undefined \in BOOLEAN
  BY <1>1, TypeIs
<1>3. /\ life[s] = "live" /\ life[t] = "none" /\ s # t
      /\ life' = [life EXCEPT ![t] = "live"]
      /\ expiry' = [expiry EXCEPT ![t] = expiry[s], ![s] = Never]
      /\ queue' = Moved(queue, t, s) /\ harm' = harm \cup MoveHarm(queue, s)
      /\ undefined' = Dangles(s)
      /\ UNCHANGED <<now, ready, reactor, current, sleep, phase, outcome>>
  BY DEF MoveConstruct, MayUse, MoveExpiry
<1>4. queue' \in Queues BY <1>2, <1>3, MovedFields
<1>5. expiry' \in Expiries
  <2>1. Never \in Times \cup {Never} /\ expiry[s] \in Times \cup {Never} BY <1>2 DEF Expiries
  <2> QED BY <1>2, <1>3, <2>1 DEF Expiries
<1>6. life' \in [Timers -> {"none", "live"}] /\ harm' \subseteq {"index", "links"}
  BY <1>2, <1>3, MoveHarmIs
<1>7. undefined' \in BOOLEAN BY <1>3 DEF Dangles
<1>8. ThreadTyped(ready', reactor', current', sleep') BY <1>2, <1>3
<1>9. TypeOK' BY <1>1, <1>3, <1>4, <1>5, <1>6, <1>7, <1>8, TypeNext
<1>10. ASSUME harm' = {}
       PROVE  Kept(queue, expiry, life, now, ready, reactor, sleep)' /\ ~ undefined'
  <2>1. harm = {} /\ MoveHarm(queue, s) = {} BY <1>3, <1>10
  <2>2. Kept(queue, expiry, life, now, ready, reactor, sleep) BY <2>1 DEF ReactorInv
  <2>3. ~ Active(queue, t)
    <3>1. t \notin AwaitedIn(queue) BY <1>3, <2>2 DEF Kept, AwaitedLive
    <3> QED BY <2>2, <3>1 DEF Kept, Exact, Listed
  <2>4. Kept(queue, expiry, life', now, ready, reactor, sleep) /\ life'[t] = "live"
    <3>1. life'[t] = "live" /\ \A u \in Timers : u # t => life'[u] = life[u] BY <1>2, <1>3
    <3>2. \A u \in AwaitedIn(queue) : life[u] = "live" /\ u \in Timers
      BY <2>2 DEF Kept, AwaitedLive, AwaitedIn
    <3>3. AwaitedLive(queue, life') BY <3>1, <3>2 DEF AwaitedLive
    <3> QED BY <2>2, <3>1, <3>3 DEF Kept
  <2>5. Kept(queue', expiry', life', now, ready, reactor, sleep)
    <3>1. /\ s # t /\ queue' = Moved(queue, t, s)
          /\ expiry' = [expiry EXCEPT ![t] = expiry[s], ![s] = Never]
      BY <1>3
    <3> QED BY <1>2, <2>1, <2>3, <2>4, <3>1, MoveKeeps
  <2>6. Active(queue, s) \/ queue.next[s] = Null BY <2>1, HarmlessMove
  <2>7. ~ Dangles(s) BY <1>2, <2>2, <2>6, NextLives DEF Dangles, Kept
  <2> QED BY <1>3, <2>5, <2>7
<1> QED BY <1>9, <1>10 DEF ReactorInv, DefinedUnlessMoved

LEMMA MoveAssignKeeps ==
  ASSUME ReactorInv, NEW t \in Timers, NEW s \in Timers, MoveAssign(t, s)
  PROVE  ReactorInv'
<1>1. TypeOK BY DEF ReactorInv
<1>2. /\ queue \in Queues /\ expiry \in Expiries /\ life \in [Timers -> {"none", "live"}]
      /\ harm \subseteq {"index", "links"} /\ undefined \in BOOLEAN
  BY <1>1, TypeIs
<1>3. PICK n : n = Len(queue.ops[t]) OBVIOUS
<1>4. n \in 0 .. Len(queue.ops[t])
  <2>1. Len(queue.ops[t]) \in Nat BY <1>2, QueueIs
  <2> QED BY <1>3, <2>1
<1>5. PICK q : q = Without(queue, t, n) OBVIOUS
<1>6. /\ s # t /\ life[t] = "live"
      /\ expiry' = [expiry EXCEPT ![t] = expiry[s], ![s] = Never]
      /\ queue' = Moved(q, t, s) /\ harm' = harm \cup MoveHarm(q, s)
      /\ ready' = ready \o WaitsOf(Taken(queue, t, n), "canceled")
      /\ Notify(Taken(queue, t, n) # << >>)
      /\ undefined' = Dangles(s)
      /\ UNCHANGED <<now, life, current, phase, outcome>>
  BY <1>3, <1>5 DEF MoveAssign, MayUse, MoveExpiry, All
<1>7. /\ q \in Queues /\ ThreadTyped(ready', reactor', current', sleep')
      /\ Kept(queue, expiry, life, now, ready, reactor, sleep)
           => Kept(q, expiry, life, now, ready', reactor', sleep')
  BY <1>1, <1>4, <1>5, <1>6, CanceledIs
<1>8. queue' \in Queues BY <1>6, <1>7, MovedFields
<1>9. expiry' \in Expiries
  <2>1. Never \in Times \cup {Never} /\ expiry[s] \in Times \cup {Never} BY <1>2 DEF Expiries
  <2> QED BY <1>2, <1>6, <2>1 DEF Expiries
<1>10. harm' \subseteq {"index", "links"} BY <1>2, <1>6, MoveHarmIs
<1>11. undefined' \in BOOLEAN BY <1>6 DEF Dangles
<1>12. TypeOK' BY <1>1, <1>2, <1>6, <1>7, <1>8, <1>9, <1>10, <1>11, TypeNext
<1>13. ASSUME harm' = {}
       PROVE  Kept(queue, expiry, life, now, ready, reactor, sleep)' /\ ~ undefined'
  <2>1. harm = {} /\ MoveHarm(q, s) = {} BY <1>6, <1>13
  <2>2. Kept(queue, expiry, life, now, ready, reactor, sleep) BY <2>1 DEF ReactorInv
  <2>3. Kept(q, expiry, life, now, ready', reactor', sleep') BY <1>7, <2>2
  <2>4. Exact(queue, expiry) BY <2>2 DEF Kept
  <2>5. ~ Active(q, t) BY <1>2, <1>3, <1>4, <1>5, <2>4, WithoutIs
  <2>6. Kept(queue', expiry', life, now, ready', reactor', sleep')
    BY <1>2, <1>6, <1>7, <2>1, <2>3, <2>5, MoveKeeps
  <2>7. Active(queue, s) \/ queue.next[s] = Null
    <3> SUFFICES ASSUME ~ Active(queue, s) PROVE queue.next[s] = Null OBVIOUS
    <3>1. q.next[s] = queue.next[s] /\ ~ Active(q, s) BY <1>2, <1>4, <1>5, <1>6, <2>4, OtherNext
    <3>2. Active(q, s) \/ q.next[s] = Null BY <2>1, HarmlessMove
    <3> QED BY <3>1, <3>2
  <2>8. ~ Dangles(s) BY <1>2, <2>2, <2>7, NextLives DEF Dangles, Kept
  <2> QED BY <1>6, <2>6, <2>8
<1> QED BY <1>12, <1>13 DEF ReactorInv, DefinedUnlessMoved

LEMMA DestroyKeeps ==
  ASSUME ReactorInv, NEW t \in Timers, Destroy(t)
  PROVE  ReactorInv'
<1>1. TypeOK BY DEF ReactorInv
<1>2. /\ queue \in Queues /\ expiry \in Expiries /\ life \in [Timers -> {"none", "live"}]
      /\ harm \subseteq {"index", "links"} /\ undefined \in BOOLEAN
  BY <1>1, TypeIs
<1>3. PICK n : n = Len(queue.ops[t]) OBVIOUS
<1>4. n \in 0 .. Len(queue.ops[t])
  <2>1. Len(queue.ops[t]) \in Nat BY <1>2, QueueIs
  <2> QED BY <1>3, <2>1
<1>5. PICK q : q = Without(queue, t, n) OBVIOUS
<1>6. /\ expiry' = [expiry EXCEPT ![t] = Never] /\ life' = [life EXCEPT ![t] = "none"]
      /\ queue' = Erased(q, t)
      /\ ready' = ready \o WaitsOf(Taken(queue, t, n), "canceled")
      /\ Notify(Taken(queue, t, n) # << >>)
      /\ undefined' = Referenced(q, t)
      /\ UNCHANGED <<now, current, phase, outcome, harm>>
  BY <1>3, <1>5 DEF Destroy, All
<1>7. /\ q \in Queues /\ ThreadTyped(ready', reactor', current', sleep')
      /\ Kept(queue, expiry, life, now, ready, reactor, sleep)
           => Kept(q, expiry, life, now, ready', reactor', sleep')
  BY <1>1, <1>4, <1>5, <1>6, CanceledIs
<1>8. queue' \in Queues BY <1>6, <1>7, ErasedFields DEF IsErased
<1>9. expiry' \in Expiries /\ life' \in [Timers -> {"none", "live"}] BY <1>2, <1>6 DEF Expiries
<1>10. undefined' \in BOOLEAN
  <2>1. Referenced(q, t) \in BOOLEAN BY DEF Referenced
  <2> QED BY <1>6, <2>1
<1>11. TypeOK' BY <1>1, <1>2, <1>6, <1>7, <1>8, <1>9, <1>10, TypeNext
<1>12. ASSUME harm' = {}
       PROVE  Kept(queue, expiry, life, now, ready, reactor, sleep)' /\ ~ undefined'
  <2>1. Kept(queue, expiry, life, now, ready, reactor, sleep) BY <1>6, <1>12 DEF ReactorInv
  <2>2. Kept(q, expiry, life, now, ready', reactor', sleep') BY <1>7, <2>1
  <2>3. Exact(queue, expiry) /\ Exact(q, expiry) BY <2>1, <2>2 DEF Kept
  <2>4. ~ Active(q, t) /\ q.ops[t] = << >> BY <1>2, <1>3, <1>4, <1>5, <2>3, WithoutIs
  <2>5. ~ Referenced(q, t) BY <1>2, <1>7, <2>3, <2>4, NotReferenced
  <2>6. Exact(queue', expiry) /\ AwaitedIn(queue') = AwaitedIn(q) BY <1>2, <1>6, <1>7, <2>3, <2>4, ErasedIs
  <2>7. t \notin AwaitedIn(q) BY <2>4 DEF AwaitedIn
  <2>8. \A u \in AwaitedIn(queue') : expiry'[u] = expiry[u] /\ life'[u] = life[u]
    BY <1>2, <1>6, <2>6, <2>7 DEF AwaitedIn, Expiries
  <2>9. Exact(queue', expiry') BY <1>2, <1>8, <1>9, <2>6, <2>8, ExpiryKeeps
  <2>10. AwaitedLive(queue', life') BY <2>2, <2>6, <2>8 DEF Kept, AwaitedLive
  <2>11. \A u \in ExpiringIn(queue', expiry') : u \in ExpiringIn(q, expiry) /\ expiry'[u] = expiry[u]
    BY <2>6, <2>8 DEF ExpiringIn
  <2>12. Punctual(queue', expiry', now, ready', reactor', sleep') BY <2>2, <2>11, PunctualKeeps DEF Kept
  <2> QED BY <1>6, <2>5, <2>9, <2>10, <2>12 DEF Kept
<1> QED BY <1>11, <1>12 DEF ReactorInv, DefinedUnlessMoved

LEMMA RunKeeps == ASSUME ReactorInv, Run PROVE ReactorInv'
<1>1. TypeOK BY DEF ReactorInv
<1>2. /\ queue \in Queues /\ expiry \in Expiries /\ life \in [Timers -> {"none", "live"}]
      /\ now \in Times /\ ready \in Seq(Completions)
      /\ harm \subseteq {"index", "links"} /\ undefined \in BOOLEAN
  BY <1>1, TypeIs DEF ThreadTyped
<1>3. PICK a : a = [queue |-> queue, ready |-> ready] OBVIOUS
<1>4. PICK s : s = Expire(a) OBVIOUS
<1>5. /\ queue' = s.queue /\ undefined' = IsStuck(s.queue) /\ CompleteOrSleep(s.queue, s.ready)
      /\ UNCHANGED <<now, life, expiry, phase, outcome, harm>>
  BY <1>3, <1>4 DEF Run
<1>6. a \in ExpireStates /\ a.queue = queue BY <1>2, <1>3 DEF ExpireStates
<1>7. /\ s \in ExpireStates /\ (Exact(queue, expiry) => Exact(s.queue, expiry))
      /\ AwaitedIn(s.queue) \subseteq AwaitedIn(queue)
  BY <1>2, <1>4, <1>6, ExpireIs
<1>8. s.queue \in Queues /\ s.ready \in Seq(Completions) BY <1>7 DEF ExpireStates
<1>9. /\ ThreadTyped(ready', reactor', current', sleep')
      /\ \A ex \in Expiries : Exact(s.queue, ex) => Punctual(s.queue, ex, now, ready', reactor', sleep')
  BY <1>2, <1>5, <1>8, CompletesOrSleeps
<1>10. undefined' \in BOOLEAN BY <1>5 DEF IsStuck, IsDue
<1>11. TypeOK' BY <1>1, <1>2, <1>5, <1>8, <1>9, <1>10, TypeNext
<1>12. ASSUME harm' = {}
       PROVE  Kept(queue, expiry, life, now, ready, reactor, sleep)' /\ ~ undefined'
  <2>1. Kept(queue, expiry, life, now, ready, reactor, sleep) BY <1>5, <1>12 DEF ReactorInv
  <2>2. Exact(s.queue, expiry) BY <1>7, <2>1 DEF Kept
  <2>3. Punctual(s.queue, expiry, now, ready', reactor', sleep') BY <1>2, <1>9, <2>2
  <2>4. AwaitedLive(s.queue, life)
    <3> SUFFICES ASSUME NEW u \in AwaitedIn(s.queue) PROVE life[u] = "live" BY DEF AwaitedLive
    <3>1. u \in AwaitedIn(queue) BY <1>7
    <3> QED BY <2>1, <3>1 DEF Kept, AwaitedLive
  <2>5. ~ IsStuck(s.queue) BY <1>2, <1>8, <2>2, ExactRoot DEF IsStuck, IsDue
  <2> QED BY <1>5, <2>2, <2>3, <2>4, <2>5 DEF Kept
<1> QED BY <1>11, <1>12 DEF ReactorInv, DefinedUnlessMoved

\* A step of the thread or of the clock that leaves the queue as it is.
LEMMA QueueStays ==
  ASSUME ReactorInv, Defined, UNCHANGED <<life, expiry, queue, harm, undefined>>,
         now' \in Times, phase' \in {"up", "shutdown", "stopped", "joined"},
         outcome' \in [Waits -> {"unused", "waiting", "destroyed"} \cup Codes],
         ThreadTyped(ready', reactor', current', sleep'),
         Kept(queue, expiry, life, now, ready, reactor, sleep)
           => Punctual(queue, expiry, now', ready', reactor', sleep')
  PROVE  ReactorInv'
<1>1. TypeOK' BY DEF ReactorInv, TypeOK, ThreadTyped
<1>2. ASSUME harm' = {} PROVE Kept(queue, expiry, life, now, ready, reactor, sleep)'
  <2>1. Kept(queue, expiry, life, now, ready, reactor, sleep) BY <1>2 DEF ReactorInv
  <2>2. Kept(queue, expiry, life, now', ready', reactor', sleep') BY <2>1 DEF Kept
  <2> QED BY <2>2
<1> QED BY <1>1, <1>2, StaysDefined DEF ReactorInv

LEMMA CompleteKeeps == ASSUME ReactorInv, Complete PROVE ReactorInv'
<1>1. /\ now \in Times /\ ThreadTyped(ready, reactor, current, sleep)
      /\ outcome \in [Waits -> {"unused", "waiting", "destroyed"} \cup Codes]
      /\ phase \in {"up", "shutdown", "stopped", "joined"}
  BY TypeIs DEF ReactorInv
<1>2. /\ Defined /\ reactor = "complete" /\ reactor' = "lock" /\ current' = Null
      /\ outcome' = [outcome EXCEPT ![current.wait] = current.code]
      /\ UNCHANGED <<now, life, expiry, queue, ready, sleep, phase, harm, undefined>>
  BY DEF Complete
<1>3. current \in Completions BY <1>1, <1>2 DEF ThreadTyped
<1>4. outcome' \in [Waits -> {"unused", "waiting", "destroyed"} \cup Codes]
  BY <1>1, <1>2, <1>3 DEF Completions
<1>5. ThreadTyped(ready', reactor', current', sleep') BY <1>1, <1>2 DEF ThreadTyped
<1>6. Punctual(queue, expiry, now', ready', reactor', sleep') BY <1>2 DEF Punctual
<1> QED BY <1>1, <1>2, <1>4, <1>5, <1>6, QueueStays

LEMMA RelockKeeps == ASSUME ReactorInv, Relock PROVE ReactorInv'
<1>1. /\ now \in Times /\ queue \in Queues /\ expiry \in Expiries /\ ready \in Seq(Completions)
      /\ outcome \in [Waits -> {"unused", "waiting", "destroyed"} \cup Codes]
      /\ phase \in {"up", "shutdown", "stopped", "joined"}
  BY TypeIs DEF ReactorInv, ThreadTyped
<1>2. /\ Defined /\ CompleteOrSleep(queue, ready)
      /\ UNCHANGED <<now, life, expiry, queue, phase, outcome, harm, undefined>>
  BY DEF Relock
<1>3. /\ ThreadTyped(ready', reactor', current', sleep')
      /\ \A ex \in Expiries : Exact(queue, ex) => Punctual(queue, ex, now, ready', reactor', sleep')
  BY <1>1, <1>2, CompletesOrSleeps
<1>4. Kept(queue, expiry, life, now, ready, reactor, sleep)
        => Punctual(queue, expiry, now', ready', reactor', sleep')
  BY <1>1, <1>2, <1>3 DEF Kept
<1> QED BY <1>1, <1>2, <1>3, <1>4, QueueStays

LEMMA ThreadKeeps == ASSUME ReactorInv, WakeUp \/ Ends PROVE ReactorInv'
<1>1. /\ now \in Times /\ ThreadTyped(ready, reactor, current, sleep)
      /\ outcome \in [Waits -> {"unused", "waiting", "destroyed"} \cup Codes]
      /\ phase \in {"up", "shutdown", "stopped", "joined"}
  BY TypeIs DEF ReactorInv
<1>2. 0 \in 0 .. MaxWait BY ReactorAssumption DEF ReactorAssumption
<1>3. /\ Defined /\ reactor \in {"sleep", "run"} /\ reactor' \in {"run", "ended"}
      /\ sleep' \in {0, sleep}
      /\ UNCHANGED <<now, life, expiry, queue, ready, current, phase, outcome, harm, undefined>>
  BY DEF WakeUp, Ends
<1>4. ThreadTyped(ready', reactor', current', sleep') BY <1>1, <1>2, <1>3 DEF ThreadTyped
<1>5. Punctual(queue, expiry, now', ready', reactor', sleep') BY <1>3 DEF Punctual
<1> QED BY <1>1, <1>3, <1>4, <1>5, QueueStays

LEMMA TickKeeps == ASSUME ReactorInv, Tick PROVE ReactorInv'
<1>1. /\ now \in Times /\ expiry \in Expiries /\ ThreadTyped(ready, reactor, current, sleep)
      /\ outcome \in [Waits -> {"unused", "waiting", "destroyed"} \cup Codes]
      /\ phase \in {"up", "shutdown", "stopped", "joined"}
  BY TypeIs DEF ReactorInv
<1>2. /\ Defined /\ now' = Least(now + 1, MaxTime) /\ sleep' = IF sleep > 0 THEN sleep - 1 ELSE 0
      /\ UNCHANGED <<life, expiry, queue, ready, reactor, current, phase, outcome, harm, undefined>>
  BY DEF Tick
<1>3. now \in Nat /\ sleep \in Nat /\ MaxTime \in Nat /\ MaxWait \in Nat /\ sleep <= MaxWait
  BY <1>1, TimesAre, ReactorAssumption DEF ReactorAssumption, ThreadTyped
<1>4. now' \in Times /\ now' <= now + 1 /\ now' \in Nat BY <1>2, <1>3 DEF Least, Times
<1>5. sleep' \in 0 .. MaxWait /\ (sleep = 0 => sleep' = 0) /\ (sleep # 0 => sleep' = sleep - 1)
  BY <1>2, <1>3
<1>6. ThreadTyped(ready', reactor', current', sleep') BY <1>1, <1>2, <1>5 DEF ThreadTyped
<1>7. ASSUME Kept(queue, expiry, life, now, ready, reactor, sleep)
      PROVE  Punctual(queue, expiry, now', ready', reactor', sleep')
  <2> SUFFICES ASSUME reactor = "sleep"
               PROVE  /\ ready = << >>
                      /\ \A u \in ExpiringIn(queue, expiry) : sleep' = 0 \/ now' + sleep' <= expiry[u]
    BY <1>2 DEF Punctual
  <2>1. ready = << >> /\ \A u \in ExpiringIn(queue, expiry) : sleep = 0 \/ now + sleep <= expiry[u]
    BY <1>7 DEF Kept, Punctual
  <2>2. ASSUME NEW u \in ExpiringIn(queue, expiry) PROVE sleep' = 0 \/ now' + sleep' <= expiry[u]
    <3>1. expiry[u] \in Times \cup {Never} BY <1>1 DEF Expiries, ExpiringIn, AwaitedIn
    <3>2. expiry[u] \in Nat BY <3>1, TimesAre
    <3>3. sleep = 0 \/ now + sleep <= expiry[u] BY <2>1
    <3> QED BY <1>3, <1>4, <1>5, <3>2, <3>3
  <2> QED BY <2>1, <2>2
<1> QED BY <1>1, <1>2, <1>4, <1>6, <1>7, QueueStays

LEMMA ShutdownKeeps == ASSUME ReactorInv, Shutdown PROVE ReactorInv'
<1>1. TypeOK BY DEF ReactorInv
<1>2. /\ queue \in Queues /\ expiry \in Expiries /\ ThreadTyped(ready, reactor, current, sleep)
      /\ outcome \in [Waits -> {"unused", "waiting", "destroyed"} \cup Codes]
  BY <1>1, TypeIs
<1>3. /\ Defined /\ phase' = "shutdown" /\ queue' = AllTaken(queue) /\ ready' = << >>
      /\ UNCHANGED <<now, life, expiry, reactor, current, sleep, harm, undefined>>
  BY DEF Shutdown
<1>4. outcome' \in [Waits -> {"unused", "waiting", "destroyed"} \cup Codes]
  <2>1. outcome' = [w \in Waits |->
          IF \/ \E t \in ActiveTimers(queue) : w \in Range(queue.ops[t])
             \/ \E i \in DOMAIN ready : ready[i].wait = w
          THEN "destroyed" ELSE outcome[w]]
    BY DEF Shutdown
  <2> QED BY <1>2, <2>1
<1>5. queue' \in Queues BY <1>2, <1>3, AllTakenFields
<1>6. << >> \in Seq(Completions) OBVIOUS
<1>7. TypeOK' BY <1>1, <1>3, <1>4, <1>5, <1>6 DEF TypeOK
<1>8. ASSUME harm' = {} PROVE Kept(queue, expiry, life, now, ready, reactor, sleep)'
  <2>1. Exact(queue, expiry) BY <1>3, <1>8 DEF ReactorInv, Kept
  <2>2. Exact(queue', expiry) /\ AwaitedIn(queue') = {} BY <1>2, <1>3, <2>1, AllTakenIs
  <2>3. AwaitedLive(queue', life) BY <2>2 DEF AwaitedLive
  <2>4. Punctual(queue', expiry, now, ready', reactor, sleep) BY <1>3, <2>2 DEF Punctual, ExpiringIn
  <2> QED BY <1>3, <2>2, <2>3, <2>4 DEF Kept
<1> QED BY <1>3, <1>7, <1>8, StaysDefined DEF ReactorInv

LEMMA StopKeeps == ASSUME ReactorInv, Stop \/ Join PROVE ReactorInv'
<1>1. /\ now \in Times /\ ThreadTyped(ready, reactor, current, sleep) /\ ready \in Seq(Completions)
      /\ outcome \in [Waits -> {"unused", "waiting", "destroyed"} \cup Codes]
      /\ phase \in {"up", "shutdown", "stopped", "joined"}
  BY TypeIs DEF ReactorInv, ThreadTyped
<1>2. CASE Stop
  <2>1. /\ Defined /\ phase' = "stopped" /\ Notify(TRUE)
        /\ UNCHANGED <<now, life, expiry, queue, ready, current, outcome, harm, undefined>>
    BY <1>2 DEF Stop
  <2>2. ThreadTyped(ready', reactor', current', sleep') /\ reactor' # "sleep" BY <1>1, <2>1, NotifiedIs
  <2>3. Punctual(queue, expiry, now', ready', reactor', sleep') BY <2>2 DEF Punctual
  <2> QED BY <1>1, <2>1, <2>2, <2>3, QueueStays
<1>3. CASE Join
  <2>1. /\ Defined /\ phase' = "joined" /\ reactor = "ended"
        /\ UNCHANGED <<now, life, expiry, queue, ready, reactor, current, sleep, outcome, harm, undefined>>
    BY <1>3 DEF Join
  <2>2. Punctual(queue, expiry, now', ready', reactor', sleep') BY <2>1 DEF Punctual
  <2> QED BY <1>1, <2>1, <2>2, QueueStays
<1> QED BY <1>2, <1>3

LEMMA ReactorNext == ReactorInv /\ [Next]_vars => ReactorInv'
<1> SUFFICES ASSUME ReactorInv, [Next]_vars PROVE ReactorInv' OBVIOUS
<1>1. ASSUME NEW t \in Timers, Construct(t) PROVE ReactorInv' BY <1>1, ConstructKeeps
<1>2. ASSUME NEW t \in Timers, Destroy(t) PROVE ReactorInv' BY <1>2, DestroyKeeps
<1>3. ASSUME NEW t \in Timers, Cancel(t) \/ CancelOne(t) \/ \E e \in Times \cup {Never} : ExpiresAt(t, e)
      PROVE  ReactorInv'
  BY <1>3, CancelKeeps
<1>4. ASSUME NEW t \in Timers, NEW w \in Waits, Wait(t, w) PROVE ReactorInv' BY <1>4, WaitKeeps
<1>5. ASSUME NEW t \in Timers, NEW s \in Timers, MoveConstruct(t, s) PROVE ReactorInv'
  BY <1>5, MoveConstructKeeps
<1>6. ASSUME NEW t \in Timers, NEW s \in Timers, MoveAssign(t, s) PROVE ReactorInv'
  BY <1>6, MoveAssignKeeps
<1>7. ASSUME Run PROVE ReactorInv' BY <1>7, RunKeeps
<1>8. ASSUME Complete PROVE ReactorInv' BY <1>8, CompleteKeeps
<1>9. ASSUME Relock PROVE ReactorInv' BY <1>9, RelockKeeps
<1>10. ASSUME TimeOut \/ Spurious \/ Ends PROVE ReactorInv' BY <1>10, ThreadKeeps DEF TimeOut, Spurious
<1>11. ASSUME Tick PROVE ReactorInv' BY <1>11, TickKeeps
<1>12. ASSUME Shutdown PROVE ReactorInv' BY <1>12, ShutdownKeeps
<1>13. ASSUME Stop \/ Join PROVE ReactorInv' BY <1>13, StopKeeps
<1>14. ASSUME UNCHANGED vars PROVE ReactorInv'
  <2>1. TypeOK' BY <1>14 DEF ReactorInv, TypeOK, vars
  <2>2. /\ now' = now /\ life' = life /\ expiry' = expiry /\ queue' = queue /\ ready' = ready
        /\ reactor' = reactor /\ sleep' = sleep /\ harm' = harm /\ undefined' = undefined
    BY <1>14 DEF vars
  <2> QED BY <2>1, <2>2 DEF ReactorInv, DefinedUnlessMoved
<1> QED
  BY <1>1, <1>2, <1>3, <1>4, <1>5, <1>6, <1>7, <1>8, <1>9, <1>10, <1>11, <1>12, <1>13, <1>14
  DEF Next, Step

LEMMA ReactorIsInvariant == Spec => []ReactorInv
BY ReactorInit, ReactorNext, PTL DEF Spec

LEMMA ExactIs == ReactorInv => QueueIsExact
<1> SUFFICES ASSUME ReactorInv, harm = {} PROVE HeapIsExact /\ ListIsExact
  BY DEF ReactorInv, QueueIsExact
<1>1. queue \in Queues /\ Exact(queue, expiry) BY TypeIs DEF ReactorInv, Kept
<1>2. Awaited = AwaitedIn(queue) /\ Expiring = ExpiringIn(queue, expiry)
  BY DEF Awaited, Expiring, AwaitedIn, ExpiringIn
<1>3. HeapIsExact BY <1>1, <1>2 DEF HeapIsExact, Exact, EntriesOf
<1>4. Linear(queue) /\ Listed(queue) = Awaited BY <1>1, <1>2 DEF Exact
<1>5. ActiveTimers(queue) = Awaited BY <1>1, <1>4, ActiveTimersAre
<1>6. \A t \in Timers : Active(queue, t) <=> t \in Awaited BY <1>4 DEF Listed
<1>7. \A t \in Awaited : queue.next[t] # Null => queue.prev[queue.next[t]] = t
  BY <1>4, <1>6 DEF Linear, Forth, Awaited
<1> QED BY <1>3, <1>5, <1>6, <1>7 DEF ListIsExact

\* Whatever is waited for, canceled, moved or destroyed, of any timers, and
\* whenever the reactor's thread runs, the heap has one entry, in its order and at
\* the index its timer knows, for every timer that is waited for and expires,
\* and the list has the timers that are waited for, until a move leaves fields of
\* its source that another timer depends on (_Up_heap, _Down_heap,
\* _Enqueue_timer, _Remove_timer, _Move_timer, _Get_ready_timers).
THEOREM QueuesAreExact == Spec => []QueueIsExact
BY ReactorIsInvariant, ExactIs, PTL

\* A sleeping reactor has nothing ready, and sleeps past the expiry of no timer
\* that is waited for: a wait on a timer earlier than all others tells it, and any
\* other leaves a first one for which it wakes up (_Run, _Enqueue_timer).
THEOREM ReactorIsOnTime == Spec => []OnTimeUnlessMoved
<1>1. ReactorInv => OnTimeUnlessMoved
  BY DEF ReactorInv, Kept, Punctual, OnTimeUnlessMoved, OnTime, Expiring, Awaited, ExpiringIn, AwaitedIn
<1> QED BY <1>1, ReactorIsInvariant, PTL

\* Without such a move no timer is destroyed while the queue refers to it, no link
\* to a destroyed one is followed, and the loop over the timers that are due
\* ends (~basic_timer, _Move_timer, _Get_ready_timers).
THEOREM TimersAreDefined == Spec => []DefinedUnlessMoved
<1>1. ReactorInv => DefinedUnlessMoved BY DEF ReactorInv
<1> QED BY <1>1, ReactorIsInvariant, PTL

----------------------------------------------------------------------------
(* Every wait is in one place.                                             *)

InSome(o, w) == \E t \in Timers : \E i \in 1 .. Len(o[t]) : o[t][i] = w
InList(d, w) == \E j \in 1 .. Len(d) : d[j].wait = w

\* A wait that is begun and not told is with one timer, at one place, or is once
\* among those that are decided.
Once(o, d, oc) ==
  /\ \A t, u \in Timers : \A i \in 1 .. Len(o[t]), j \in 1 .. Len(o[u]) :
       o[t][i] = o[u][j] => t = u /\ i = j
  /\ \A i, j \in 1 .. Len(d) : d[i].wait = d[j].wait => i = j
  /\ \A w \in Waits : InSome(o, w) => ~ InList(d, w)
  /\ \A w \in Waits : oc[w] = "waiting" <=> InSome(o, w) \/ InList(d, w)

WaitsByTimer == [Timers -> Seq(Waits)]

\* The first n waits of t are decided.
Decides(o, r, d, e, t, n) ==
  /\ \A u \in Timers : u # t => r[u] = o[u]
  /\ Len(r[t]) = Len(o[t]) - n /\ \A i \in 1 .. Len(r[t]) : r[t][i] = o[t][i + n]
  /\ Len(e) = Len(d) + n /\ \A j \in 1 .. Len(d) : e[j] = d[j]
  /\ \A j \in 1 .. n : e[Len(d) + j].wait = o[t][j]

LEMMA OnceDecided ==
  ASSUME NEW o \in WaitsByTimer, NEW r \in WaitsByTimer, NEW d \in Seq(Completions), NEW e \in Seq(Completions),
         NEW oc, NEW t \in Timers, NEW n \in 0 .. Len(o[t]), Decides(o, r, d, e, t, n), Once(o, d, oc)
  PROVE  Once(r, e, oc)
<1>1. /\ \A u \in Timers : o[u] \in Seq(Waits) /\ Len(o[u]) \in Nat
      /\ \A u \in Timers : r[u] \in Seq(Waits) /\ Len(r[u]) \in Nat
      /\ Len(d) \in Nat /\ Len(e) \in Nat /\ n \in Nat
  BY DEF WaitsByTimer
<1>2. PICK len, m \in Nat : len = Len(o[t]) /\ m = Len(d) BY <1>1
<1>3. /\ \A u \in Timers : u # t => r[u] = o[u]
      /\ Len(r[t]) = len - n /\ \A i \in 1 .. len - n : r[t][i] = o[t][i + n] /\ i + n \in 1 .. len
      /\ Len(e) = m + n /\ \A j \in 1 .. m : e[j] = d[j]
      /\ \A j \in 1 .. n : e[m + j].wait = o[t][j] /\ j \in 1 .. len
  BY <1>1, <1>2 DEF Decides
<1>4. \A j \in 1 .. m + n : j \in 1 .. m \/ (j - m \in 1 .. n /\ j = m + (j - m)) BY <1>1, <1>2
<1>5. \A j \in 1 .. m + n : IF j \in 1 .. m THEN e[j] = d[j]
                            ELSE /\ j - m \in 1 .. n /\ e[j].wait = o[t][j - m] /\ j - m \in 1 .. len
  BY <1>3, <1>4
<1>6. ASSUME NEW u \in Timers, NEW v \in Timers, NEW i \in 1 .. Len(r[u]), NEW j \in 1 .. Len(r[v]), r[u][i] = r[v][j]
      PROVE  u = v /\ i = j
  <2> DEFINE a == IF u = t THEN i + n ELSE i
             b == IF v = t THEN j + n ELSE j
  <2>1. a \in 1 .. Len(o[u]) /\ o[u][a] = r[u][i] BY <1>1, <1>2, <1>3
  <2>2. b \in 1 .. Len(o[v]) /\ o[v][b] = r[v][j] BY <1>1, <1>2, <1>3
  <2>3. u = v /\ a = b
    <3> HIDE DEF a, b
    <3> QED BY <1>6, <2>1, <2>2 DEF Once
  <2> QED BY <1>1, <2>3
<1>7. ASSUME NEW i \in 1 .. Len(e), NEW j \in 1 .. Len(e), e[i].wait = e[j].wait PROVE i = j
  <2>0. i \in 1 .. m + n /\ j \in 1 .. m + n BY <1>3
  <2>1. CASE i \in 1 .. m /\ j \in 1 .. m BY <1>2, <1>5, <1>7, <2>0, <2>1 DEF Once
  <2>2. ASSUME NEW x \in 1 .. m + n, NEW y \in 1 .. m + n, x \in 1 .. m, y \notin 1 .. m, e[x].wait = e[y].wait
        PROVE  FALSE
    <3>1. e[x] = d[x] /\ e[y].wait = o[t][y - m] /\ y - m \in 1 .. Len(o[t]) BY <1>2, <1>5, <2>2
    <3>2. o[t][y - m] \in Waits BY <1>1, <3>1
    <3>3. InSome(o, o[t][y - m]) /\ InList(d, o[t][y - m]) BY <1>2, <2>2, <3>1 DEF InSome, InList
    <3> QED BY <3>2, <3>3 DEF Once
  <2>3. CASE i \notin 1 .. m /\ j \notin 1 .. m
    <3>1. o[t][i - m] = o[t][j - m] /\ i - m \in 1 .. Len(o[t]) /\ j - m \in 1 .. Len(o[t])
      BY <1>2, <1>5, <1>7, <2>0, <2>3
    <3>2. i - m = j - m BY <3>1 DEF Once
    <3> QED BY <1>2, <2>0, <3>2
  <2> QED BY <1>7, <2>0, <2>1, <2>2, <2>3
<1>8. ASSUME NEW w \in Waits, InSome(r, w) PROVE InSome(o, w) /\ ~ InList(e, w)
  <2>1. PICK u \in Timers : \E i \in 1 .. Len(r[u]) : r[u][i] = w BY <1>8 DEF InSome
  <2>2. PICK i \in 1 .. Len(r[u]) : r[u][i] = w BY <2>1
  <2> DEFINE a == IF u = t THEN i + n ELSE i
  <2>3. a \in 1 .. Len(o[u]) /\ o[u][a] = w BY <1>1, <1>2, <1>3, <2>2
  <2>4. InSome(o, w) BY <2>3 DEF InSome
  <2>5. ASSUME NEW j \in 1 .. Len(e), e[j].wait = w PROVE FALSE
    <3>0. j \in 1 .. m + n BY <1>3
    <3>1. CASE j \in 1 .. m
      <4>1. d[j].wait = w BY <1>5, <2>5, <3>0, <3>1
      <4>2. InList(d, w) BY <1>2, <3>1, <4>1 DEF InList
      <4> QED BY <2>4, <4>2 DEF Once
    <3>2. CASE j \notin 1 .. m
      <4>1. o[t][j - m] = w /\ j - m \in 1 .. n /\ j - m \in 1 .. Len(o[t]) BY <1>2, <1>5, <2>5, <3>0, <3>2
      <4>2. u = t /\ a = j - m
        <5>1. PICK b : b = j - m OBVIOUS
        <5>2. o[u][a] = o[t][b] /\ b \in 1 .. Len(o[t]) /\ a \in 1 .. Len(o[u]) BY <2>3, <4>1, <5>1
        <5> HIDE DEF a
        <5>3. u = t /\ a = b BY <5>2 DEF Once
        <5> QED BY <5>1, <5>3
      <4> QED BY <1>1, <1>2, <4>1, <4>2
    <3> QED BY <3>1, <3>2
  <2> QED BY <2>4, <2>5 DEF InList
<1>9. ASSUME NEW w \in Waits PROVE InSome(o, w) \/ InList(d, w) <=> InSome(r, w) \/ InList(e, w)
  <2>1. ASSUME InSome(o, w) PROVE InSome(r, w) \/ InList(e, w)
    <3>1. PICK u \in Timers : \E i \in 1 .. Len(o[u]) : o[u][i] = w BY <2>1 DEF InSome
    <3>2. PICK i \in 1 .. Len(o[u]) : o[u][i] = w BY <3>1
    <3>3. CASE u # t
      <4>1. r[u] = o[u] BY <1>3, <3>3
      <4> QED BY <3>2, <4>1 DEF InSome
    <3>4. CASE u = t /\ i <= n
      <4>1. m + i \in 1 .. Len(e) /\ e[m + i].wait = w BY <1>1, <1>2, <1>3, <3>2, <3>4
      <4> QED BY <4>1 DEF InList
    <3>5. CASE u = t /\ ~ (i <= n)
      <4>1. i - n \in 1 .. Len(r[t]) /\ (i - n) + n = i BY <1>1, <1>2, <1>3, <3>2, <3>5
      <4>2. r[t][i - n] = w BY <1>3, <3>2, <3>5, <4>1
      <4> QED BY <4>1, <4>2 DEF InSome
    <3> QED BY <3>3, <3>4, <3>5
  <2>2. ASSUME InList(d, w) PROVE InList(e, w)
    <3>1. PICK j \in 1 .. m : d[j].wait = w BY <1>2, <2>2 DEF InList
    <3>2. j \in 1 .. Len(e) /\ e[j].wait = w BY <1>1, <1>2, <1>3, <3>1
    <3> QED BY <3>2 DEF InList
  <2>3. ASSUME InList(e, w) PROVE InSome(o, w) \/ InList(d, w)
    <3>1. PICK j \in 1 .. m + n : e[j].wait = w BY <1>3, <2>3 DEF InList
    <3>2. CASE j \in 1 .. m BY <1>2, <1>5, <3>1, <3>2 DEF InList
    <3>3. CASE j \notin 1 .. m
      <4>1. o[t][j - m] = w /\ j - m \in 1 .. Len(o[t]) BY <1>2, <1>5, <3>1, <3>3
      <4> QED BY <4>1 DEF InSome
    <3> QED BY <3>2, <3>3
  <2> QED BY <1>8, <2>1, <2>2, <2>3
<1>10. /\ \A w \in Waits : InSome(r, w) => ~ InList(e, w)
       /\ \A w \in Waits : oc[w] = "waiting" <=> InSome(r, w) \/ InList(e, w)
  BY <1>8, <1>9 DEF Once
<1>11. /\ \A u, v \in Timers : \A i \in 1 .. Len(r[u]), j \in 1 .. Len(r[v]) : r[u][i] = r[v][j] => u = v /\ i = j
       /\ \A i, j \in 1 .. Len(e) : e[i].wait = e[j].wait => i = j
  BY <1>6, <1>7
<1> QED BY <1>10, <1>11 DEF Once

Put(f, t, x, g) == g = [f EXCEPT ![t] = x]
Gives(f, t, s, x, g) == g = [f EXCEPT ![t] = f[s], ![s] = x]
Outcomes == [Waits -> {"unused", "waiting", "destroyed"} \cup Codes]

\* A wait is begun.
LEMMA OnceBegun ==
  ASSUME NEW o \in WaitsByTimer, NEW d \in Seq(Completions), NEW oc \in Outcomes,
         NEW t \in Timers, NEW w \in Waits, oc[w] # "waiting", NEW oz, Put(oc, w, "waiting", oz),
         NEW r, Put(o, t, Append(o[t], w), r), Once(o, d, oc)
  PROVE  Once(r, d, oz)
<1> DEFINE len == Len(o[t])
<1>0. /\ r \in WaitsByTimer /\ \A u \in Timers : r[u] = IF u = t THEN Append(o[t], w) ELSE o[u]
      /\ oz[w] = "waiting" /\ \A v \in Waits : v # w => oz[v] = oc[v]
  <2>1. o[t] \in Seq(Waits) BY DEF WaitsByTimer
  <2>2. Append(o[t], w) \in Seq(Waits) BY <2>1, AppendProperties
  <2> QED BY <2>2 DEF Put, WaitsByTimer, Outcomes
<1>1. /\ \A u \in Timers : o[u] \in Seq(Waits) /\ Len(o[u]) \in Nat
      /\ \A u \in Timers : r[u] \in Seq(Waits) /\ Len(r[u]) \in Nat
      /\ len \in Nat
  BY <1>0 DEF WaitsByTimer
<1>2. /\ \A u \in Timers : u # t => r[u] = o[u]
      /\ Len(r[t]) = len + 1 /\ r[t][len + 1] = w /\ \A i \in 1 .. len : r[t][i] = o[t][i]
  <2>1. o[t] \in Seq(Waits) /\ r[t] = Append(o[t], w) BY <1>0, <1>1
  <2> QED BY <1>0, <2>1, AppendProperties
<1> HIDE DEF len
<1>3. \A u \in Timers : \A i \in 1 .. Len(r[u]) :
        \/ u = t /\ i = len + 1 /\ r[u][i] = w
        \/ i \in 1 .. Len(o[u]) /\ r[u][i] = o[u][i]
  <2>1. \A i \in 1 .. len + 1 : i = len + 1 \/ i \in 1 .. len BY <1>1
  <2> QED BY <1>2, <2>1 DEF len
<1>4. ~ InSome(o, w) /\ ~ InList(d, w) BY DEF Once
<1>5. ASSUME NEW u \in Timers, NEW v \in Timers, NEW i \in 1 .. Len(r[u]), NEW j \in 1 .. Len(r[v]), r[u][i] = r[v][j]
      PROVE  u = v /\ i = j
  <2>1. \A x \in Timers : \A k \in 1 .. Len(o[x]) : o[x][k] # w BY <1>4 DEF InSome
  <2>2. CASE i \in 1 .. Len(o[u]) /\ r[u][i] = o[u][i] /\ j \in 1 .. Len(o[v]) /\ r[v][j] = o[v][j]
    <3>1. o[u][i] = o[v][j] BY <1>5, <2>2
    <3> QED BY <2>2, <3>1 DEF Once
  <2> QED BY <1>3, <1>5, <2>1, <2>2
<1>6. ASSUME NEW v \in Waits PROVE InSome(r, v) <=> InSome(o, v) \/ v = w
  <2>1. ASSUME InSome(r, v) PROVE InSome(o, v) \/ v = w BY <1>3, <2>1 DEF InSome
  <2>2. ASSUME InSome(o, v) PROVE InSome(r, v)
    <3>1. PICK u \in Timers : \E i \in 1 .. Len(o[u]) : o[u][i] = v BY <2>2 DEF InSome
    <3>2. PICK i \in 1 .. Len(o[u]) : o[u][i] = v BY <3>1
    <3>3. i \in 1 .. Len(r[u]) /\ r[u][i] = v BY <1>1, <1>2, <3>2 DEF len
    <3> QED BY <3>3 DEF InSome
  <2>3. InSome(r, w)
    <3>1. len + 1 \in 1 .. Len(r[t]) BY <1>1, <1>2
    <3> QED BY <1>2, <3>1 DEF InSome
  <2> QED BY <2>1, <2>2, <2>3
<1>7. /\ \A v \in Waits : InSome(r, v) => ~ InList(d, v)
      /\ \A v \in Waits : oz[v] = "waiting" <=> InSome(r, v) \/ InList(d, v)
  BY <1>0, <1>4, <1>6 DEF Once
<1>8. /\ \A u, v \in Timers : \A i \in 1 .. Len(r[u]), j \in 1 .. Len(r[v]) : r[u][i] = r[v][j] => u = v /\ i = j
      /\ \A i, j \in 1 .. Len(d) : d[i].wait = d[j].wait => i = j
  BY <1>5 DEF Once
<1> QED BY <1>7, <1>8 DEF Once

\* The waits of s become those of t.
LEMMA OnceMoved ==
  ASSUME NEW o \in WaitsByTimer, NEW d, NEW oc, NEW t \in Timers, NEW s \in Timers, s # t, o[t] = << >>,
         NEW r, Gives(o, t, s, << >>, r), Once(o, d, oc)
  PROVE  Once(r, d, oc)
<1> DEFINE f(u) == IF u = t THEN s ELSE u
<1>0. \A u \in Timers : r[u] = IF u = t THEN o[s] ELSE IF u = s THEN << >> ELSE o[u]
  BY DEF Gives, WaitsByTimer
<1>1. Len(<< >>) = 0 /\ 1 .. 0 = {} OBVIOUS
<1>2. \A u \in Timers : \A i \in 1 .. Len(r[u]) : u # s /\ f(u) \in Timers /\ r[u] = o[f(u)] BY <1>0, <1>1
<1>3. \A u \in Timers : \A i \in 1 .. Len(o[u]) :
        u # t /\ \E v \in Timers : r[v] = o[u]
  BY <1>0, <1>1
<1>4. \A w : InSome(r, w) <=> InSome(o, w)
  <2>1. \A w : InSome(r, w) => InSome(o, w) BY <1>2 DEF InSome
  <2>2. ASSUME NEW w, InSome(o, w) PROVE InSome(r, w)
    <3>1. PICK u \in Timers : \E i \in 1 .. Len(o[u]) : o[u][i] = w BY <2>2 DEF InSome
    <3>2. PICK v \in Timers : r[v] = o[u] BY <1>3, <3>1
    <3> QED BY <3>1, <3>2 DEF InSome
  <2> QED BY <2>1, <2>2
<1>5. ASSUME NEW u \in Timers, NEW v \in Timers, NEW i \in 1 .. Len(r[u]), NEW j \in 1 .. Len(r[v]), r[u][i] = r[v][j]
      PROVE  u = v /\ i = j
  <2>1. u # s /\ v # s /\ f(u) \in Timers /\ f(v) \in Timers /\ r[u] = o[f(u)] /\ r[v] = o[f(v)] BY <1>2
  <2>2. PICK x \in Timers, y \in Timers : x = f(u) /\ y = f(v) BY <2>1
  <2>3. i \in 1 .. Len(o[x]) /\ j \in 1 .. Len(o[y]) /\ o[x][i] = o[y][j] BY <1>5, <2>1, <2>2
  <2>4. x = y /\ i = j BY <2>3 DEF Once
  <2> QED BY <2>1, <2>2, <2>4
<1> QED BY <1>4, <1>5 DEF Once

LEMMA HeadOnce ==
  ASSUME NEW d \in Seq(Completions), d # << >>, NEW e, e = Tail(d)
  PROVE  /\ \A w : InList(d, w) <=> w = Head(d).wait \/ InList(e, w)
         /\ \A o, oc : Once(o, d, oc) => ~ InList(e, Head(d).wait)
<1>1. Len(d) \in Nat \ {0} /\ Head(d) = d[1] OBVIOUS
<1>2. Len(e) = Len(d) - 1 /\ \A i \in 1 .. Len(e) : e[i] = d[i + 1] /\ i + 1 \in 1 .. Len(d)
  <2>1. e \in Seq(Completions) /\ Len(e) = Len(d) - 1 /\ \A i \in 1 .. Len(e) : e[i] = d[i + 1]
    BY HeadTailProperties
  <2> QED BY <1>1, <2>1
<1>3. \A w : InList(d, w) <=> w = d[1].wait \/ InList(e, w)
  <2>1. \A w : InList(e, w) => InList(d, w) BY <1>2 DEF InList
  <2>2. InList(d, d[1].wait) BY <1>1 DEF InList
  <2>3. ASSUME NEW w, InList(d, w), w # d[1].wait PROVE InList(e, w)
    <3>1. PICK j \in 1 .. Len(d) : d[j].wait = w BY <2>3 DEF InList
    <3>2. j - 1 \in 1 .. Len(e) /\ (j - 1) + 1 = j BY <1>1, <1>2, <2>3, <3>1
    <3>3. e[j - 1] = d[j] BY <1>2, <3>2
    <3> QED BY <3>1, <3>2, <3>3 DEF InList
  <2> QED BY <2>1, <2>2, <2>3
<1>4. ASSUME NEW o, NEW oc, Once(o, d, oc), NEW i \in 1 .. Len(e), e[i].wait = d[1].wait PROVE FALSE
  <2>1. d[i + 1].wait = d[1].wait /\ i + 1 \in 1 .. Len(d) /\ 1 \in 1 .. Len(d) BY <1>1, <1>2, <1>4
  <2>2. i + 1 = 1 BY <1>4, <2>1 DEF Once
  <2> QED BY <2>2
<1> QED BY <1>1, <1>3, <1>4 DEF InList

\* The first that is decided is told.
LEMMA OnceTold ==
  ASSUME NEW o, NEW d \in Seq(Completions), d # << >>, NEW e, e = Tail(d), NEW oc \in Outcomes,
         NEW c, c # "waiting", NEW oz, Put(oc, Head(d).wait, c, oz), Once(o, d, oc)
  PROVE  Once(o, e, oz)
<1>1. Len(d) \in Nat \ {0} /\ Head(d) = d[1] OBVIOUS
<1>2. Len(e) = Len(d) - 1 /\ \A i \in 1 .. Len(e) : e[i] = d[i + 1] /\ i + 1 \in 1 .. Len(d)
  <2>1. e \in Seq(Completions) /\ Len(e) = Len(d) - 1 /\ \A i \in 1 .. Len(e) : e[i] = d[i + 1]
    BY HeadTailProperties
  <2> QED BY <1>1, <2>1
<1>3. \A w : InList(d, w) <=> w = d[1].wait \/ InList(e, w) BY <1>1, HeadOnce
<1>4. ~ InList(e, d[1].wait) BY <1>1, HeadOnce
<1>5. \A i, j \in 1 .. Len(e) : e[i].wait = e[j].wait => i = j
  <2> SUFFICES ASSUME NEW i \in 1 .. Len(e), NEW j \in 1 .. Len(e), e[i].wait = e[j].wait PROVE i = j OBVIOUS
  <2>1. i + 1 \in 1 .. Len(d) /\ j + 1 \in 1 .. Len(d) /\ d[i + 1].wait = d[j + 1].wait BY <1>2
  <2>2. i + 1 = j + 1 BY <2>1 DEF Once
  <2> QED BY <2>2
<1>6. d[1].wait \in Waits
  <2>1. d[1] \in Completions BY <1>1
  <2> QED BY <2>1 DEF Completions
<1>7. oz[d[1].wait] # "waiting" /\ \A v \in Waits : v # d[1].wait => oz[v] = oc[v]
  BY <1>1, <1>6 DEF Put, Outcomes
<1>8. /\ \A w \in Waits : InSome(o, w) => ~ InList(e, w)
      /\ \A w \in Waits : oz[w] = "waiting" <=> InSome(o, w) \/ InList(e, w)
  BY <1>3, <1>4, <1>6, <1>7 DEF Once
<1> QED BY <1>5, <1>8 DEF Once

----------------------------------------------------------------------------
(* What the users of timers see.                                           *)

IsWithout(q, t, n, r) ==
  /\ r.ops = [q.ops EXCEPT ![t] = SubSeq(q.ops[t], n + 1, Len(q.ops[t]))]
  /\ Taken(q, t, n) = SubSeq(q.ops[t], 1, n)

LEMMA WithoutOps ==
  ASSUME NEW q \in Queues, NEW ex \in Expiries, Exact(q, ex), NEW t \in Timers,
         NEW n \in 0 .. Len(q.ops[t]), NEW r, r = Without(q, t, n)
  PROVE  IsWithout(q, t, n, r)
<1> USE DEF IsWithout
<1>1. q.ops \in [Timers -> Seq(Waits)] /\ q.ops[t] \in Seq(Waits) /\ Len(q.ops[t]) \in Nat BY QueueIs
<1>2. CASE ~ Active(q, t)
  <2>1. q.ops[t] = << >> BY <1>2 DEF Exact, Listed, AwaitedIn
  <2>2. r = q /\ Taken(q, t, n) = << >> BY <1>2 DEF Without, Taken
  <2>3. SubSeq(q.ops[t], n + 1, Len(q.ops[t])) = << >> /\ SubSeq(q.ops[t], 1, n) = << >> BY <2>1
  <2>4. q.ops = [q.ops EXCEPT ![t] = << >>] BY <1>1, <2>1
  <2> QED BY <2>2, <2>3, <2>4
<1>3. CASE Active(q, t)
  <2>1. PICK ws : ws = SubSeq(q.ops[t], n + 1, Len(q.ops[t])) OBVIOUS
  <2>2. ws \in Seq(Waits) BY <1>1, <2>1
  <2>3. PICK p : p = [q EXCEPT !.ops[t] = ws] OBVIOUS
  <2>4. p \in Queues /\ p.ops = [q.ops EXCEPT ![t] = ws]
    <3>1. p \in Queues BY <2>2, <2>3, OpsTyped
    <3>2. q = [heap |-> q.heap, index |-> q.index, next |-> q.next, prev |-> q.prev,
               first |-> q.first, ops |-> q.ops]
      BY QueueIs DEF Whole
    <3> QED BY <2>3, <3>1, <3>2
  <2>5. r = RemovedIfIdle(p, t) BY <1>3, <2>1, <2>3 DEF Without
  <2>6. r.ops = p.ops BY <2>4, <2>5, RemovedTyped DEF RemovedIfIdle
  <2>7. Taken(q, t, n) = SubSeq(q.ops[t], 1, n) BY <1>3 DEF Taken
  <2> QED BY <2>1, <2>4, <2>6, <2>7
<1> QED BY <1>2, <1>3

\* r has the waits ws with the code c.
Coded(ws, c, r) ==
  r \in Seq(Completions) /\ Len(r) = Len(ws) /\ \A k \in 1 .. Len(ws) : r[k] = [wait |-> ws[k], code |-> c]

LEMMA WaitsOfFields ==
  ASSUME NEW ws \in Seq(Waits), NEW c \in Codes, NEW r, r = WaitsOf(ws, c)
  PROVE  Coded(ws, c, r)
<1>1. r \in Seq(Completions) BY WaitsOfIs
<1>2. r = [k \in 1 .. Len(ws) |-> [wait |-> ws[k], code |-> c]] BY DEF WaitsOf
<1>3. DOMAIN r = 1 .. Len(ws) /\ DOMAIN r = 1 .. Len(r) /\ Len(ws) \in Nat /\ Len(r) \in Nat BY <1>1, <1>2
<1> QED BY <1>1, <1>2, <1>3 DEF Coded

LEMMA NothingDecided == WaitsOf(<< >>, "canceled") = << >>
<1>1. PICK ws : ws = << >> OBVIOUS
<1>2. ws \in Seq(Waits) /\ "canceled" \in Codes BY <1>1 DEF Codes
<1>3. PICK cs : cs = WaitsOf(ws, "canceled") OBVIOUS
<1>4. cs = << >> BY <1>1, <1>2, <1>3, WaitsOfIs
<1> QED BY <1>1, <1>3, <1>4

Appended(d, x, e) == e = d \o x

LEMMA DecidesIs ==
  ASSUME NEW o \in WaitsByTimer, NEW d \in Seq(Completions), NEW t \in Timers, NEW n \in 0 .. Len(o[t]), NEW c \in Codes,
         NEW r, r = [o EXCEPT ![t] = SubSeq(o[t], n + 1, Len(o[t]))],
         NEW e, Appended(d, WaitsOf(SubSeq(o[t], 1, n), c), e)
  PROVE  r \in WaitsByTimer /\ e \in Seq(Completions) /\ Decides(o, r, d, e, t, n)
<1>1. o[t] \in Seq(Waits) /\ Len(o[t]) \in Nat /\ n \in Nat BY DEF WaitsByTimer
<1>2. PICK a, b : a = SubSeq(o[t], n + 1, Len(o[t])) /\ b = SubSeq(o[t], 1, n) OBVIOUS
<1>3. /\ a \in Seq(Waits) /\ Len(a) = Len(o[t]) - n /\ \A i \in 1 .. Len(a) : a[i] = o[t][i + n]
      /\ b \in Seq(Waits) /\ Len(b) = n /\ \A i \in 1 .. n : b[i] = o[t][i]
  BY <1>1, <1>2
<1>4. PICK x : x = WaitsOf(b, c) OBVIOUS
<1>5. x \in Seq(Completions) /\ Len(x) = n /\ \A i \in 1 .. n : x[i].wait = b[i]
  <2>1. x \in Seq(Completions) /\ Len(x) = Len(b) /\ \A k \in 1 .. Len(b) : x[k] = [wait |-> b[k], code |-> c]
    BY <1>3, <1>4, WaitsOfFields DEF Coded
  <2> QED BY <1>3, <2>1
<1>6. e = d \o x BY <1>2, <1>4 DEF Appended
<1>7. e \in Seq(Completions) /\ Len(e) = Len(d) + n /\ \A j \in 1 .. Len(d) + n : e[j] = IF j <= Len(d) THEN d[j] ELSE x[j - Len(d)]
  <2>1. /\ e \in Seq(Completions) /\ Len(e) = Len(d) + Len(x)
        /\ \A j \in 1 .. Len(d) + Len(x) : e[j] = IF j <= Len(d) THEN d[j] ELSE x[j - Len(d)]
    <3>1. x \in Seq(Completions) BY <1>5
    <3>2. /\ d \o x \in Seq(Completions) /\ Len(d \o x) = Len(d) + Len(x)
          /\ \A j \in 1 .. Len(d) + Len(x) : (d \o x)[j] = IF j <= Len(d) THEN d[j] ELSE x[j - Len(d)]
      BY <3>1, ConcatProperties
    <3> QED BY <1>6, <3>2
  <2> QED BY <1>5, <2>1
<1>8. Len(d) \in Nat OBVIOUS
<1>9. /\ \A j \in 1 .. Len(d) : e[j] = d[j]
      /\ \A j \in 1 .. n : e[Len(d) + j] = x[j]
  <2>1. ASSUME NEW j \in 1 .. n PROVE e[Len(d) + j] = x[j]
    <3>1. Len(d) + j \in 1 .. Len(d) + n /\ ~ (Len(d) + j <= Len(d)) /\ (Len(d) + j) - Len(d) = j BY <1>1, <1>8
    <3> QED BY <1>7, <3>1
  <2>2. ASSUME NEW j \in 1 .. Len(d) PROVE e[j] = d[j]
    <3>1. j \in 1 .. Len(d) + n /\ j <= Len(d) BY <1>1, <1>8
    <3> QED BY <1>7, <3>1
  <2> QED BY <2>1, <2>2
<1>10. r \in [Timers -> Seq(Waits)] /\ \A u \in Timers : r[u] = IF u = t THEN a ELSE o[u]
  BY <1>2, <1>3 DEF WaitsByTimer
<1>11. Decides(o, r, d, e, t, n) BY <1>3, <1>5, <1>7, <1>9, <1>10 DEF Decides
<1> QED BY <1>7, <1>10, <1>11 DEF WaitsByTimer

\* SeenTimers, of any lives, expiries and waits.
Seen(lf, ex, o) ==
  [t \in Timers |-> IF lf[t] = "none" THEN Null ELSE [expiry |-> ex[t], waits |-> o[t]]]
Lives == [Timers -> {"none", "live"}]

SeenTimer(e, ws) == [expiry |-> e, waits |-> ws]

LEMMA SeenIs ==
  ASSUME NEW lf \in Lives, NEW ex \in Expiries, NEW o \in WaitsByTimer, NEW t \in Timers
  PROVE  /\ lf[t] = "none" => Seen(lf, ex, o)[t] = Null
         /\ lf[t] = "live" => /\ Seen(lf, ex, o)[t] = SeenTimer(ex[t], o[t])
                              /\ Seen(lf, ex, o)[t] # Null
<1>1. ex[t] \in 0 .. MaxTime + 1
  <2>1. ex[t] \in Times \cup {Never} /\ MaxTime \in Nat BY ReactorAssumption DEF Expiries, ReactorAssumption
  <2> QED BY <2>1 DEF Times, Never
<1>2. SeenTimer(ex[t], o[t]) \in [expiry : 0 .. MaxTime + 1, waits : Seq(Waits)]
  BY <1>1 DEF WaitsByTimer, SeenTimer
<1>3. SeenTimer(ex[t], o[t]) # Null BY <1>2, ReactorAssumption DEF ReactorAssumption
<1>4. Seen(lf, ex, o)[t] = IF lf[t] = "none" THEN Null ELSE SeenTimer(ex[t], o[t]) BY DEF Seen, SeenTimer
<1> QED BY <1>3, <1>4

LEMMA SeenSet ==
  ASSUME NEW lf \in Lives, NEW ex \in Expiries, NEW o \in WaitsByTimer, NEW t \in Timers, NEW e, NEW ws,
         NEW lg, Put(lf, t, "live", lg), NEW fx, Put(ex, t, e, fx), NEW r, Put(o, t, ws, r)
  PROVE  Put(Seen(lf, ex, o), t, SeenTimer(e, ws), Seen(lg, fx, r))
<1>1. /\ \A u \in Timers : lg[u] = IF u = t THEN "live" ELSE lf[u]
      /\ \A u \in Timers : fx[u] = IF u = t THEN e ELSE ex[u]
      /\ \A u \in Timers : r[u] = IF u = t THEN ws ELSE o[u]
  BY DEF Put, Lives, Expiries, WaitsByTimer
<1>2. ASSUME NEW u \in Timers
      PROVE  (IF lg[u] = "none" THEN Null ELSE [expiry |-> fx[u], waits |-> r[u]])
               = IF u = t THEN SeenTimer(e, ws) ELSE Seen(lf, ex, o)[u]
  BY <1>1 DEF Seen, SeenTimer
<1> QED BY <1>2 DEF Seen, Put

\* The timer s is moved to t.
LEMMA SeenGiven ==
  ASSUME NEW lf \in Lives, NEW ex \in Expiries, NEW o \in WaitsByTimer, NEW t \in Timers, NEW s \in Timers, s # t,
         lf[s] = "live", NEW lg, Put(lf, t, "live", lg), NEW fx, Gives(ex, t, s, Never, fx),
         NEW r, Gives(o, t, s, << >>, r)
  PROVE  Gives(Seen(lf, ex, o), t, s, SeenTimer(Never, << >>), Seen(lg, fx, r))
<1>1. /\ \A u \in Timers : lg[u] = IF u = t THEN "live" ELSE lf[u]
      /\ \A u \in Timers : fx[u] = IF u = t THEN ex[s] ELSE IF u = s THEN Never ELSE ex[u]
      /\ \A u \in Timers : r[u] = IF u = t THEN o[s] ELSE IF u = s THEN << >> ELSE o[u]
  BY DEF Put, Gives, Lives, Expiries, WaitsByTimer
<1>2. Seen(lf, ex, o)[s] = SeenTimer(ex[s], o[s]) BY SeenIs
<1>3. ASSUME NEW u \in Timers
      PROVE  (IF lg[u] = "none" THEN Null ELSE [expiry |-> fx[u], waits |-> r[u]])
               = IF u = t THEN Seen(lf, ex, o)[s] ELSE IF u = s THEN SeenTimer(Never, << >>) ELSE Seen(lf, ex, o)[u]
  BY <1>1, <1>2 DEF Seen, SeenTimer
<1>4. PICK f : f = Seen(lf, ex, o) OBVIOUS
<1>5. DOMAIN f = Timers BY <1>4 DEF Seen
<1>6. Seen(lg, fx, r) = [u \in Timers |-> IF u = t THEN f[s] ELSE IF u = s THEN SeenTimer(Never, << >>) ELSE f[u]]
  BY <1>3, <1>4 DEF Seen
<1>7. [f EXCEPT ![t] = f[s], ![s] = SeenTimer(Never, << >>)]
        = [u \in Timers |-> IF u = t THEN f[s] ELSE IF u = s THEN SeenTimer(Never, << >>) ELSE f[u]]
  BY <1>4, <1>5 DEF Seen
<1> QED BY <1>4, <1>6, <1>7 DEF Gives

\* What the thread is given to complete is what was decided.
LEMMA CompletesDecided ==
  ASSUME NEW q, NEW ops \in Seq(Completions), CompleteOrSleep(q, ops)
  PROVE  DecidedWaits' = ops
<1>1. CASE ops # << >>
  <2>1. Head(ops) \in Completions /\ Tail(ops) \in Seq(Completions) /\ <<Head(ops)>> \o Tail(ops) = ops
    <3>1. Head(ops) \in Completions /\ Tail(ops) \in Seq(Completions) BY <1>1, HeadTailProperties
    <3> QED BY <1>1, <3>1
  <2>2. current' = Head(ops) /\ ready' = Tail(ops) BY <1>1 DEF CompleteOrSleep
  <2>3. current' # Null BY <2>1, <2>2, NullIsNoTimer
  <2> QED BY <2>1, <2>2, <2>3 DEF DecidedWaits
<1>2. CASE ops = << >>
  <2>1. current' = Null /\ ready' = << >> BY <1>2 DEF CompleteOrSleep
  <2> QED BY <1>2, <2>1 DEF DecidedWaits
<1> QED BY <1>1, <1>2

LEMMA DecidedIs ==
  ASSUME ThreadTyped(ready, reactor, current, sleep)
  PROVE  /\ DecidedWaits \in Seq(Completions)
         /\ reactor # "complete" => DecidedWaits = ready /\ current = Null
         /\ reactor = "complete" => /\ DecidedWaits # << >> /\ Head(DecidedWaits) = current
                                    /\ Tail(DecidedWaits) = ready /\ current \in Completions
                                    /\ current # Null
<1>1. ready \in Seq(Completions) BY DEF ThreadTyped
<1>2. CASE reactor # "complete"
  <2>1. current = Null BY <1>2 DEF ThreadTyped
  <2> QED BY <1>1, <1>2, <2>1 DEF DecidedWaits
<1>3. CASE reactor = "complete"
  <2>1. current # Null /\ current \in Completions BY <1>3 DEF ThreadTyped
  <2>2. DecidedWaits = <<current>> \o ready BY <2>1 DEF DecidedWaits
  <2>3. PICK d : d = <<current>> \o ready OBVIOUS
  <2>4. d \in Seq(Completions) /\ d # << >> /\ Head(d) = current /\ Tail(d) = ready
    <3>1. <<current>> \in Seq(Completions) /\ Len(<<current>>) = 1 /\ <<current>>[1] = current BY <2>1
    <3>2. /\ d \in Seq(Completions) /\ Len(d) = 1 + Len(ready)
          /\ \A k \in 1 .. 1 + Len(ready) : d[k] = IF k <= 1 THEN <<current>>[k] ELSE ready[k - 1]
      BY <1>1, <2>3, <3>1, ConcatProperties
    <3>3. Len(ready) \in Nat /\ d # << >> BY <1>1, <3>2
    <3>4. d[1] = current /\ Head(d) = d[1] BY <3>1, <3>2, <3>3
    <3>5. Tail(d) \in Seq(Completions) /\ Len(Tail(d)) = Len(ready) /\ \A k \in 1 .. Len(ready) : Tail(d)[k] = ready[k]
      <4>1. Tail(d) \in Seq(Completions) /\ Len(Tail(d)) = Len(d) - 1 /\ \A k \in 1 .. Len(Tail(d)) : Tail(d)[k] = d[k + 1]
        BY <3>2, <3>3, HeadTailProperties
      <4>2. Len(Tail(d)) = Len(ready) BY <3>2, <3>3, <4>1
      <4>3. ASSUME NEW k \in 1 .. Len(ready) PROVE Tail(d)[k] = ready[k]
        <5>1. k + 1 \in 1 .. 1 + Len(ready) /\ ~ (k + 1 <= 1) /\ (k + 1) - 1 = k BY <3>3
        <5> QED BY <3>2, <4>1, <4>2, <5>1
      <4> QED BY <4>1, <4>2, <4>3
    <3>6. Tail(d) = ready BY <1>1, <3>5, SeqEqual
    <3> QED BY <3>2, <3>3, <3>4, <3>6
  <2> QED BY <2>1, <2>2, <2>3, <2>4, <1>3
<1> QED BY <1>2, <1>3

----------------------------------------------------------------------------
(* The reactor's steps, as their users see them.                           *)

LEMMA SeenNow == SeenTimers = Seen(life, expiry, queue.ops) /\ SeenTimers' = Seen(life', expiry', queue'.ops)
BY DEF SeenTimers, Seen

LEMMA TimerPut ==
  ASSUME NEW a, NEW b, NEW c, NEW x, x = [expiry |-> a, waits |-> b]
  PROVE  [x EXCEPT !.waits = c] = [expiry |-> a, waits |-> c]
<1>1. x \in [expiry : {a}, waits : {b, c}] /\ x.expiry = a OBVIOUS
<1>2. [x EXCEPT !.waits = c] = [expiry |-> x.expiry, waits |-> c] BY <1>1
<1> QED BY <1>1, <1>2

LEMMA SeenPut ==
  ASSUME life \in Lives, expiry \in Expiries, queue.ops \in WaitsByTimer, NEW t \in Timers, NEW e, NEW ws,
         Put(life, t, "live", life'), Put(expiry, t, e, expiry'), Put(queue.ops, t, ws, queue'.ops)
  PROVE  SeenTimers' = [SeenTimers EXCEPT ![t] = [expiry |-> e, waits |-> ws]]
<1>1. Put(Seen(life, expiry, queue.ops), t, SeenTimer(e, ws), Seen(life', expiry', queue'.ops)) BY SeenSet
<1> QED BY <1>1, SeenNow DEF Put, SeenTimer

\* The invariant and that nothing has been harmed.
Sound == ReactorInv /\ harm = {} /\ Defined
\* Where every wait is.
PlacedOnce == harm = {} => Once(queue.ops, DecidedWaits, outcome)

LEMMA SoundTypes ==
  ASSUME Sound
  PROVE  /\ queue \in Queues /\ expiry \in Expiries /\ life \in Lives /\ now \in Times
         /\ ThreadTyped(ready, reactor, current, sleep)
         /\ outcome \in [Waits -> {"unused", "waiting", "destroyed"} \cup Codes]
         /\ Exact(queue, expiry) /\ AwaitedLive(queue, life)
         /\ queue.ops \in WaitsByTimer /\ queue.ops \in [Timers -> Seq(Waits)]
         /\ DecidedWaits \in Seq(Completions) /\ ready \in Seq(Completions)
<1>1. /\ queue \in Queues /\ expiry \in Expiries /\ life \in Lives /\ now \in Times
      /\ ThreadTyped(ready, reactor, current, sleep)
      /\ outcome \in [Waits -> {"unused", "waiting", "destroyed"} \cup Codes]
  BY TypeIs DEF Sound, ReactorInv, Lives
<1>2. Exact(queue, expiry) /\ AwaitedLive(queue, life) BY DEF Sound, ReactorInv, Kept
<1>3. queue.ops \in WaitsByTimer /\ queue.ops \in [Timers -> Seq(Waits)] BY <1>1, QueueIs DEF WaitsByTimer
<1>4. DecidedWaits \in Seq(Completions) /\ ready \in Seq(Completions) BY <1>1, DecidedIs DEF ThreadTyped
<1> QED BY <1>1, <1>2, <1>3, <1>4

LEMMA DecidedMore ==
  ASSUME ThreadTyped(ready, reactor, current, sleep), NEW cs \in Seq(Completions), ready' = ready \o cs, current' = current
  PROVE  DecidedWaits' = DecidedWaits \o cs
<1>1. ready \in Seq(Completions) BY DEF ThreadTyped
<1>2. CASE current = Null
  <2>1. DecidedWaits = << >> \o ready /\ DecidedWaits' = << >> \o (ready \o cs) BY <1>2 DEF DecidedWaits
  <2> QED BY <1>1, <2>1
<1>3. CASE current # Null
  <2>1. current \in Completions BY <1>3 DEF ThreadTyped
  <2>2. DecidedWaits = <<current>> \o ready /\ DecidedWaits' = <<current>> \o (ready \o cs) BY <1>3 DEF DecidedWaits
  <2>3. <<current>> \in Seq(Completions) BY <2>1
  <2>4. <<current>> \o (ready \o cs) = (<<current>> \o ready) \o cs BY <1>1, <2>3, ConcatAssociative
  <2> QED BY <2>2, <2>4
<1> QED BY <1>2, <1>3

LEMMA SeenTimes == 0 .. Promise!Never = Times \cup {Never} /\ Never \in Times \cup {Never}
BY ReactorAssumption DEF ReactorAssumption, Times, Never, Promise!Never

LEMMA ConstructSeen ==
  ASSUME Sound, NEW t \in Timers, Construct(t)
  PROVE  Promise!Construct(t) /\ queue' = queue /\ DecidedWaits' = DecidedWaits
<1>1. queue \in Queues /\ expiry \in Expiries /\ life \in Lives /\ AwaitedLive(queue, life)
      /\ queue.ops \in WaitsByTimer
  BY SoundTypes
<1>2. PICK e \in Times \cup {Never} : expiry' = [expiry EXCEPT ![t] = e] BY DEF Construct
<1>3. /\ phase = "up" /\ life[t] = "none" /\ life' = [life EXCEPT ![t] = "live"]
      /\ UNCHANGED <<now, queue, ready, current, phase, outcome>>
  BY DEF Construct
<1>4. queue.ops[t] = << >> BY <1>1, <1>3 DEF AwaitedLive, AwaitedIn
<1>5. SeenTimers' = [SeenTimers EXCEPT ![t] = [expiry |-> e, waits |-> << >>]]
  <2>1. Put(life, t, "live", life') /\ Put(expiry, t, e, expiry') BY <1>2, <1>3 DEF Put
  <2>2. Put(queue.ops, t, << >>, queue'.ops) BY <1>1, <1>3, <1>4 DEF WaitsByTimer, Put
  <2> QED BY <1>1, <2>1, <2>2, SeenPut
<1>6. ~ Promise!Live(t) /\ Up /\ Up' = Up /\ DecidedWaits' = DecidedWaits
  BY <1>1, <1>3, SeenIs, SeenNow DEF Promise!Live, Up, DecidedWaits
<1> QED BY <1>2, <1>3, <1>5, <1>6, SeenTimes DEF Promise!Construct

\* What CancelUpTo does for users.
LEMMA CanceledSeen ==
  ASSUME Sound, NEW t \in Timers, NEW n \in 0 .. Len(queue.ops[t]),
         ready' = ready \o WaitsOf(Taken(queue, t, n), "canceled"), current' = current
  PROVE  /\ \A q : q = Without(queue, t, n) =>
              /\ q.ops = [queue.ops EXCEPT ![t] = SubSeq(queue.ops[t], n + 1, Len(queue.ops[t]))]
              /\ q.ops \in WaitsByTimer
              /\ Decides(queue.ops, q.ops, DecidedWaits, DecidedWaits', t, n)
         /\ DecidedWaits' = DecidedWaits \o WaitsOf(SubSeq(queue.ops[t], 1, n), "canceled")
         /\ DecidedWaits' \in Seq(Completions)
<1>1. /\ queue \in Queues /\ expiry \in Expiries /\ Exact(queue, expiry) /\ queue.ops \in WaitsByTimer
      /\ ThreadTyped(ready, reactor, current, sleep) /\ DecidedWaits \in Seq(Completions)
      /\ queue.ops \in [Timers -> Seq(Waits)]
  BY SoundTypes
<1>2. "canceled" \in Codes BY DEF Codes
<1>3. PICK q : q = Without(queue, t, n) OBVIOUS
<1>4. /\ q.ops = [queue.ops EXCEPT ![t] = SubSeq(queue.ops[t], n + 1, Len(queue.ops[t]))]
      /\ Taken(queue, t, n) = SubSeq(queue.ops[t], 1, n)
  <2>1. queue \in Queues /\ expiry \in Expiries /\ Exact(queue, expiry) BY <1>1
  <2>2. IsWithout(queue, t, n, q) BY <1>3, <2>1, WithoutOps
  <2> QED BY <2>2 DEF IsWithout
<1>5. PICK cs : cs = WaitsOf(SubSeq(queue.ops[t], 1, n), "canceled") OBVIOUS
<1>6. cs \in Seq(Completions)
  <2>1. SubSeq(queue.ops[t], 1, n) \in Seq(Waits) BY <1>1
  <2> QED BY <1>2, <1>5, <2>1, WaitsOfIs
<1>7. DecidedWaits' = DecidedWaits \o cs BY <1>1, <1>4, <1>5, <1>6, DecidedMore
<1>8. /\ q.ops \in WaitsByTimer /\ DecidedWaits' \in Seq(Completions)
      /\ Decides(queue.ops, q.ops, DecidedWaits, DecidedWaits', t, n)
  <2>1. Appended(DecidedWaits, WaitsOf(SubSeq(queue.ops[t], 1, n), "canceled"), DecidedWaits')
    BY <1>5, <1>7 DEF Appended
  <2> QED BY <1>1, <1>2, <1>4, <2>1, DecidesIs
<1> QED BY <1>3, <1>4, <1>5, <1>7, <1>8

\* Cancel and expires_at.
LEMMA CancelsSeen ==
  ASSUME Sound, NEW t \in Timers, Up, life[t] = "live", CancelUpTo(t, Len(queue.ops[t])),
         NEW e \in Times \cup {Never}, expiry' = [expiry EXCEPT ![t] = e],
         UNCHANGED <<now, life, current, phase, outcome>>
  PROVE  Promise!Cancel(t)
<1>1. queue \in Queues /\ expiry \in Expiries /\ life \in Lives /\ queue.ops \in WaitsByTimer
      /\ queue.ops \in [Timers -> Seq(Waits)]
  BY SoundTypes
<1>2. PICK n : n = Len(queue.ops[t]) OBVIOUS
<1>3. queue.ops[t] \in Seq(Waits) /\ n \in Nat /\ n \in 0 .. Len(queue.ops[t]) BY <1>1, <1>2
<1>4. /\ SubSeq(queue.ops[t], n + 1, Len(queue.ops[t])) = << >>
      /\ SubSeq(queue.ops[t], 1, n) = queue.ops[t]
  BY <1>2, <1>3
<1>5. queue' = Without(queue, t, n) /\ ready' = ready \o WaitsOf(Taken(queue, t, n), "canceled")
  BY <1>2 DEF CancelUpTo
<1>6. /\ queue'.ops = [queue.ops EXCEPT ![t] = << >>]
      /\ DecidedWaits' = DecidedWaits \o WaitsOf(queue.ops[t], "canceled")
  <2>1. /\ queue'.ops = [queue.ops EXCEPT ![t] = SubSeq(queue.ops[t], n + 1, Len(queue.ops[t]))]
        /\ DecidedWaits' = DecidedWaits \o WaitsOf(SubSeq(queue.ops[t], 1, n), "canceled")
    BY <1>3, <1>5, CanceledSeen
  <2> QED BY <1>4, <2>1
<1>7. SeenTimers' = [SeenTimers EXCEPT ![t] = [expiry |-> e, waits |-> << >>]]
  <2>1. Put(life, t, "live", life') /\ Put(expiry, t, e, expiry') BY <1>1 DEF Lives, Put
  <2>2. Put(queue.ops, t, << >>, queue'.ops) BY <1>6 DEF Put
  <2> QED BY <1>1, <2>1, <2>2, SeenPut
<1>8. Promise!Live(t) /\ Promise!WaitsOf(t) = queue.ops[t]
  <2>1. SeenTimers[t] = SeenTimer(expiry[t], queue.ops[t]) /\ SeenTimers[t] # Null BY <1>1, SeenIs, SeenNow
  <2> QED BY <2>1 DEF Promise!Live, Promise!WaitsOf, SeenTimer
<1>9. Promise!Decide(Promise!WaitsOf(t), "canceled")
  BY <1>6, <1>8 DEF Promise!Decide, Promise!Ended, WaitsOf
<1>10. Up' = Up BY DEF Up
<1> QED BY <1>7, <1>8, <1>9, <1>10, SeenTimes DEF Promise!Cancel

LEMMA CancelOneSeen ==
  ASSUME Sound, NEW t \in Timers, CancelOne(t)
  PROVE  Promise!CancelOne(t) \/ UNCHANGED Promise!vars
<1>1. queue \in Queues /\ expiry \in Expiries /\ life \in Lives /\ queue.ops \in WaitsByTimer
      /\ queue.ops \in [Timers -> Seq(Waits)] /\ DecidedWaits \in Seq(Completions)
  BY SoundTypes
<1>2. PICK n : n = IF Len(queue.ops[t]) = 0 THEN 0 ELSE 1 OBVIOUS
<1>3. queue.ops[t] \in Seq(Waits) /\ Len(queue.ops[t]) \in Nat /\ n \in 0 .. Len(queue.ops[t]) BY <1>1, <1>2
<1>4. /\ phase = "up" /\ life[t] = "live"
      /\ queue' = Without(queue, t, n) /\ ready' = ready \o WaitsOf(Taken(queue, t, n), "canceled")
      /\ UNCHANGED <<now, life, expiry, current, phase, outcome>>
  BY <1>2 DEF CancelOne, MayUse, CancelUpTo, All
<1>5. /\ queue'.ops = [queue.ops EXCEPT ![t] = SubSeq(queue.ops[t], n + 1, Len(queue.ops[t]))]
      /\ DecidedWaits' = DecidedWaits \o WaitsOf(SubSeq(queue.ops[t], 1, n), "canceled")
  BY <1>3, <1>4, CanceledSeen
<1>6. CASE queue.ops[t] = << >>
  <2>1. n = 0 /\ SubSeq(queue.ops[t], n + 1, Len(queue.ops[t])) = << >> /\ SubSeq(queue.ops[t], 1, n) = << >>
    BY <1>2, <1>3, <1>6
  <2>2. queue'.ops = queue.ops BY <1>1, <1>5, <1>6, <2>1
  <2>4. DecidedWaits' = DecidedWaits
    <3>1. DecidedWaits' = DecidedWaits \o << >> BY <1>5, <2>1, NothingDecided
    <3> QED BY <1>1, <3>1, ConcatEmptySeq
  <2>5. SeenTimers' = SeenTimers BY <1>4, <2>2, SeenNow
  <2> QED BY <1>4, <2>4, <2>5 DEF Promise!vars, Up
<1>7. CASE queue.ops[t] # << >>
  <2>1. n = 1 /\ SubSeq(queue.ops[t], n + 1, Len(queue.ops[t])) = Tail(queue.ops[t])
        /\ SubSeq(queue.ops[t], 1, n) = <<Head(queue.ops[t])>>
    <3>1. PICK ws : ws = queue.ops[t] OBVIOUS
    <3>2. ws \in Seq(Waits) /\ ws # << >> /\ n = 1 BY <1>2, <1>3, <1>7, <3>1
    <3>3. SubSeq(ws, 2, Len(ws)) = Tail(ws) BY <3>2
    <3>4. SubSeq(ws, 1, 1) = <<Head(ws)>>
      <4>1. Len(ws) \in Nat /\ Len(ws) >= 1 /\ Head(ws) = ws[1] BY <3>2
      <4>2. SubSeq(ws, 1, 1) = [k \in 1 .. 1 |-> ws[k]] BY <3>2, <4>1
      <4>3. <<Head(ws)>> = [k \in 1 .. 1 |-> ws[k]] BY <4>1
      <4> QED BY <4>2, <4>3
    <3> QED BY <3>1, <3>2, <3>3, <3>4
  <2>2. Put(life, t, "live", life') /\ Put(expiry, t, expiry[t], expiry')
    BY <1>1, <1>4 DEF Lives, Expiries, Put
  <2>3. Put(queue.ops, t, Tail(queue.ops[t]), queue'.ops) BY <1>5, <2>1 DEF Put
  <2>4. SeenTimers[t] = [expiry |-> expiry[t], waits |-> queue.ops[t]] /\ SeenTimers[t] # Null
    BY <1>1, <1>4, SeenIs, SeenNow DEF SeenTimer
  <2>5. SeenTimers' = [SeenTimers EXCEPT ![t].waits = Tail(@)]
    <3>1. SeenTimers' = [SeenTimers EXCEPT ![t] = [expiry |-> expiry[t], waits |-> Tail(queue.ops[t])]]
      BY <1>1, <2>2, <2>3, SeenPut
    <3>2. PICK x, a, b : x = SeenTimers[t] /\ a = expiry[t] /\ b = queue.ops[t] OBVIOUS
    <3>3. x = [expiry |-> a, waits |-> b] BY <2>4, <3>2
    <3>4. x.waits = b BY <3>3
    <3>5. PICK c : c = Tail(b) OBVIOUS
    <3>6. [x EXCEPT !.waits = c] = [expiry |-> a, waits |-> c] BY <3>3, TimerPut
    <3> QED BY <3>1, <3>2, <3>4, <3>5, <3>6
  <2>6. Promise!Live(t) /\ Promise!WaitsOf(t) = queue.ops[t] BY <2>4 DEF Promise!Live, Promise!WaitsOf
  <2>7. Promise!Decide(<<Head(Promise!WaitsOf(t))>>, "canceled")
    BY <1>5, <2>1, <2>6 DEF Promise!Decide, Promise!Ended, WaitsOf
  <2>8. Up /\ UNCHANGED <<now, outcome, Up>> BY <1>4 DEF Up
  <2> QED BY <1>7, <2>5, <2>6, <2>7, <2>8 DEF Promise!CancelOne
<1> QED BY <1>6, <1>7

LEMMA WaitSeen ==
  ASSUME Sound, PlacedOnce, NEW t \in Timers, NEW w \in Waits, Wait(t, w)
  PROVE  Promise!Wait(t, w) /\ PlacedOnce'
<1>1. /\ queue \in Queues /\ expiry \in Expiries /\ life \in Lives /\ queue.ops \in WaitsByTimer
      /\ queue.ops \in [Timers -> Seq(Waits)] /\ DecidedWaits \in Seq(Completions) /\ outcome \in Outcomes
  BY SoundTypes DEF Outcomes
<1>2. /\ phase = "up" /\ life[t] = "live" /\ outcome[w] = "unused"
      /\ outcome' = [outcome EXCEPT ![w] = "waiting"]
      /\ queue' = Enqueued(queue, t, expiry[t], w)
      /\ UNCHANGED <<now, life, expiry, ready, current, phase, harm>>
  BY DEF Wait, MayUse
<1>3. Put(queue.ops, t, Append(queue.ops[t], w), queue'.ops)
  <2>1. /\ queue' \in Queues
        /\ \A u \in Timers : queue'.ops[u] = IF u = t THEN Append(queue.ops[t], w) ELSE queue.ops[u]
    BY <1>1, <1>2, EnqueuedIs
  <2>2. queue'.ops \in [Timers -> Seq(Waits)] BY <2>1, QueueIs
  <2>3. PICK o, p : o = queue.ops /\ p = queue'.ops OBVIOUS
  <2>4. o \in [Timers -> Seq(Waits)] /\ p \in [Timers -> Seq(Waits)]
        /\ \A u \in Timers : p[u] = IF u = t THEN Append(o[t], w) ELSE o[u]
    BY <1>1, <2>1, <2>2, <2>3
  <2>5. p = [o EXCEPT ![t] = Append(o[t], w)] BY <2>4
  <2> QED BY <2>3, <2>5 DEF Put
<1>4. Up /\ UNCHANGED <<now, DecidedWaits, Up>> BY <1>2 DEF Up, DecidedWaits
<1>5. Promise!Wait(t, w)
  <2>1. Put(life, t, "live", life') /\ Put(expiry, t, expiry[t], expiry')
    BY <1>1, <1>2 DEF Lives, Expiries, Put
  <2>2. SeenTimers[t] = [expiry |-> expiry[t], waits |-> queue.ops[t]] /\ SeenTimers[t] # Null
    BY <1>1, <1>2, SeenIs, SeenNow DEF SeenTimer
  <2>3. SeenTimers' = [SeenTimers EXCEPT ![t].waits = Append(@, w)]
    <3>1. SeenTimers' = [SeenTimers EXCEPT ![t] = [expiry |-> expiry[t], waits |-> Append(queue.ops[t], w)]]
      BY <1>1, <1>3, <2>1, SeenPut
    <3>2. PICK x, a, b : x = SeenTimers[t] /\ a = expiry[t] /\ b = queue.ops[t] OBVIOUS
    <3>3. x = [expiry |-> a, waits |-> b] BY <2>2, <3>2
    <3>4. x.waits = b BY <3>3
    <3>5. PICK c : c = Append(b, w) OBVIOUS
    <3>6. [x EXCEPT !.waits = c] = [expiry |-> a, waits |-> c] BY <3>3, TimerPut
    <3> QED BY <3>1, <3>2, <3>4, <3>5, <3>6
  <2>4. Promise!Live(t) BY <2>2 DEF Promise!Live
  <2> QED BY <1>2, <1>4, <2>3, <2>4 DEF Promise!Wait
<1>6. PlacedOnce'
  <2>1. Once(queue.ops, DecidedWaits, outcome) BY <1>4 DEF PlacedOnce, Sound
  <2>2. Put(outcome, w, "waiting", outcome') /\ outcome[w] # "waiting" BY <1>2 DEF Put
  <2>3. Once(queue'.ops, DecidedWaits, outcome') BY <1>1, <1>3, <2>1, <2>2, OnceBegun
  <2> QED BY <1>4, <2>3 DEF PlacedOnce
<1> QED BY <1>5, <1>6

LEMMA CancelsPlaced ==
  ASSUME Sound, PlacedOnce, NEW t \in Timers, NEW n \in 0 .. Len(queue.ops[t]),
         ready' = ready \o WaitsOf(Taken(queue, t, n), "canceled"), current' = current
  PROVE  \A q : q = Without(queue, t, n) => Once(q.ops, DecidedWaits', outcome)
<1>1. queue.ops \in WaitsByTimer /\ DecidedWaits \in Seq(Completions) BY SoundTypes
<1>2. PICK q : q = Without(queue, t, n) OBVIOUS
<1>3. q.ops \in WaitsByTimer /\ Decides(queue.ops, q.ops, DecidedWaits, DecidedWaits', t, n)
      /\ DecidedWaits' \in Seq(Completions)
  BY <1>2, CanceledSeen
<1>4. Once(queue.ops, DecidedWaits, outcome) BY DEF PlacedOnce, Sound
<1>5. Once(q.ops, DecidedWaits', outcome) BY <1>1, <1>3, <1>4, OnceDecided
<1> QED BY <1>2, <1>5

\* A move, when the waits that t had are decided.
LEMMA MoveOps ==
  ASSUME NEW q \in Queues, NEW t \in Timers, NEW s \in Timers, s # t, q.ops[t] = << >>,
         NEW r, r = Moved(q, t, s)
  PROVE  Gives(q.ops, t, s, << >>, r.ops)
<1>1. r \in Queues /\ MovedData(q, r, t, s) BY MovedFields
<1>2. PICK o, p : o = q.ops /\ p = r.ops OBVIOUS
<1>3. o \in [Timers -> Seq(Waits)] /\ p \in [Timers -> Seq(Waits)] BY <1>1, <1>2, QueueIs
<1>4. \A u \in Timers : p[u] = IF u = t THEN o[s] ELSE IF u = s THEN << >> ELSE o[u]
  <2>1. o[s] \in Seq(Waits) BY <1>3
  <2>2. PICK c : c = o[t] \o o[s] OBVIOUS
  <2>3. c = << >> \o o[s] BY <1>2, <2>2
  <2>4. c = o[s] BY <2>1, <2>3, ConcatEmptySeq
  <2>5. \A u \in Timers : p[u] = IF u = t THEN c ELSE IF u = s THEN << >> ELSE o[u]
    BY <1>1, <1>2, <2>2 DEF MovedData
  <2> QED BY <2>4, <2>5
<1>5. p = [o EXCEPT ![t] = o[s], ![s] = << >>]
  <2>1. p = [u \in Timers |-> IF u = t THEN o[s] ELSE IF u = s THEN << >> ELSE o[u]] BY <1>3, <1>4
  <2>2. [o EXCEPT ![t] = o[s], ![s] = << >>] = [u \in Timers |-> IF u = t THEN o[s] ELSE IF u = s THEN << >> ELSE o[u]]
    BY <1>3
  <2> QED BY <2>1, <2>2
<1> QED BY <1>2, <1>5 DEF Gives

LEMMA MoveConstructSeen ==
  ASSUME Sound, PlacedOnce, NEW t \in Timers, NEW s \in Timers, MoveConstruct(t, s)
  PROVE  Promise!Move(t, s) /\ PlacedOnce'
<1>1. /\ queue \in Queues /\ expiry \in Expiries /\ life \in Lives /\ queue.ops \in WaitsByTimer
      /\ DecidedWaits \in Seq(Completions) /\ AwaitedLive(queue, life)
  BY SoundTypes
<1>2. /\ phase = "up" /\ life[s] = "live" /\ life[t] = "none" /\ s # t
      /\ life' = [life EXCEPT ![t] = "live"]
      /\ expiry' = [expiry EXCEPT ![t] = expiry[s], ![s] = Never]
      /\ queue' = Moved(queue, t, s)
      /\ UNCHANGED <<now, ready, current, phase, outcome>>
  BY DEF MoveConstruct, MayUse, MoveExpiry
<1>3. queue.ops[t] = << >> BY <1>1, <1>2 DEF AwaitedLive, AwaitedIn
<1>4. Gives(queue.ops, t, s, << >>, queue'.ops) BY <1>1, <1>2, <1>3, MoveOps
<1>5. Put(life, t, "live", life') /\ Gives(expiry, t, s, Never, expiry') BY <1>2 DEF Put, Gives
<1>6. Gives(Seen(life, expiry, queue.ops), t, s, SeenTimer(Never, << >>), Seen(life', expiry', queue'.ops))
  BY <1>1, <1>2, <1>4, <1>5, SeenGiven
<1>7. SeenTimers' = [SeenTimers EXCEPT ![t] = SeenTimers[s], ![s] = [expiry |-> Never, waits |-> << >>]]
  BY <1>6, SeenNow DEF Gives, SeenTimer
<1>8. Up /\ UNCHANGED <<now, outcome, Up, DecidedWaits>> BY <1>2 DEF Up, DecidedWaits
<1>9. Promise!Live(s) /\ ~ Promise!Live(t) BY <1>1, <1>2, SeenIs, SeenNow DEF Promise!Live
<1>10. Promise!Decide(Promise!WaitsOf(t), "canceled")
  <2>1. Promise!WaitsOf(t) = << >> BY <1>9 DEF Promise!WaitsOf
  <2>2. Promise!Ended(<< >>, "canceled") = << >> BY NothingDecided DEF Promise!Ended, WaitsOf
  <2>3. DecidedWaits \o << >> = DecidedWaits BY <1>1, ConcatEmptySeq
  <2> QED BY <1>8, <2>1, <2>2, <2>3 DEF Promise!Decide
<1>11. Promise!Move(t, s)
  <2>1. Promise!Never = Never BY DEF Promise!Never, Never
  <2> QED BY <1>2, <1>7, <1>8, <1>9, <1>10, <2>1 DEF Promise!Move
<1>12. PlacedOnce'
  <2>1. Once(queue.ops, DecidedWaits, outcome) BY <1>8 DEF PlacedOnce, Sound
  <2>2. Once(queue'.ops, DecidedWaits, outcome) BY <1>1, <1>2, <1>3, <1>4, <2>1, OnceMoved
  <2> QED BY <1>8, <2>2 DEF PlacedOnce
<1> QED BY <1>11, <1>12

LEMMA MoveAssignSeen ==
  ASSUME Sound, PlacedOnce, NEW t \in Timers, NEW s \in Timers, MoveAssign(t, s)
  PROVE  Promise!Move(t, s) /\ PlacedOnce'
<1>1. /\ queue \in Queues /\ expiry \in Expiries /\ life \in Lives /\ queue.ops \in WaitsByTimer
      /\ queue.ops \in [Timers -> Seq(Waits)]
  BY SoundTypes
<1>2. PICK n : n = Len(queue.ops[t]) OBVIOUS
<1>3. queue.ops[t] \in Seq(Waits) /\ n \in Nat /\ n \in 0 .. Len(queue.ops[t]) BY <1>1, <1>2
<1>4. /\ SubSeq(queue.ops[t], n + 1, Len(queue.ops[t])) = << >>
      /\ SubSeq(queue.ops[t], 1, n) = queue.ops[t]
  BY <1>2, <1>3
<1>5. PICK q : q = Without(queue, t, n) OBVIOUS
<1>6. /\ phase = "up" /\ s # t /\ life[t] = "live" /\ life[s] = "live"
      /\ expiry' = [expiry EXCEPT ![t] = expiry[s], ![s] = Never]
      /\ queue' = Moved(q, t, s)
      /\ ready' = ready \o WaitsOf(Taken(queue, t, n), "canceled")
      /\ UNCHANGED <<now, life, current, phase, outcome>>
  BY <1>2, <1>5 DEF MoveAssign, MayUse, MoveExpiry, All
<1>7. /\ q.ops = [queue.ops EXCEPT ![t] = << >>] /\ q.ops \in WaitsByTimer
      /\ DecidedWaits' = DecidedWaits \o WaitsOf(queue.ops[t], "canceled")
  <2>1. /\ q.ops = [queue.ops EXCEPT ![t] = SubSeq(queue.ops[t], n + 1, Len(queue.ops[t]))]
        /\ q.ops \in WaitsByTimer
        /\ DecidedWaits' = DecidedWaits \o WaitsOf(SubSeq(queue.ops[t], 1, n), "canceled")
    BY <1>3, <1>5, <1>6, CanceledSeen
  <2> QED BY <1>4, <2>1
<1>8. Gives(q.ops, t, s, << >>, queue'.ops) /\ q.ops[t] = << >>
  <2>1. q \in Queues BY <1>1, <1>3, <1>5, WithoutTyped
  <2>2. q.ops[t] = << >> BY <1>1, <1>7
  <2> QED BY <1>6, <2>1, <2>2, MoveOps
<1>9. Gives(queue.ops, t, s, << >>, queue'.ops)
  <2>1. PICK o, p : o = queue.ops /\ p = q.ops OBVIOUS
  <2>2. o \in [Timers -> Seq(Waits)] /\ p = [o EXCEPT ![t] = << >>] BY <1>1, <1>7, <2>1
  <2>3. queue'.ops = [p EXCEPT ![t] = p[s], ![s] = << >>] BY <1>8, <2>1 DEF Gives
  <2>4. [p EXCEPT ![t] = p[s], ![s] = << >>] = [o EXCEPT ![t] = o[s], ![s] = << >>]
    <3>1. p[s] = o[s] /\ \A u \in Timers : u # t => p[u] = o[u] BY <1>6, <2>2
    <3>2. p \in [Timers -> Seq(Waits)] BY <2>2
    <3>3. [p EXCEPT ![t] = p[s], ![s] = << >>]
            = [u \in Timers |-> IF u = s THEN << >> ELSE IF u = t THEN o[s] ELSE o[u]]
      BY <3>1, <3>2
    <3>4. [o EXCEPT ![t] = o[s], ![s] = << >>]
            = [u \in Timers |-> IF u = s THEN << >> ELSE IF u = t THEN o[s] ELSE o[u]]
      BY <2>2
    <3> QED BY <3>3, <3>4
  <2> QED BY <2>1, <2>3, <2>4 DEF Gives
<1>10. Put(life, t, "live", life') /\ Gives(expiry, t, s, Never, expiry') BY <1>1, <1>6 DEF Put, Gives, Lives
<1>11. Gives(Seen(life, expiry, queue.ops), t, s, SeenTimer(Never, << >>), Seen(life', expiry', queue'.ops))
  BY <1>1, <1>6, <1>9, <1>10, SeenGiven
<1>12. SeenTimers' = [SeenTimers EXCEPT ![t] = SeenTimers[s], ![s] = [expiry |-> Never, waits |-> << >>]]
  BY <1>11, SeenNow DEF Gives, SeenTimer
<1>13. Up /\ UNCHANGED <<now, outcome, Up>> BY <1>6 DEF Up
<1>14. Promise!Live(s) /\ Promise!WaitsOf(t) = queue.ops[t]
  <2>1. SeenTimers[t] = SeenTimer(expiry[t], queue.ops[t]) /\ SeenTimers[t] # Null /\ SeenTimers[s] # Null
    BY <1>1, <1>6, SeenIs, SeenNow
  <2> QED BY <2>1 DEF Promise!Live, Promise!WaitsOf, SeenTimer
<1>15. Promise!Decide(Promise!WaitsOf(t), "canceled")
  BY <1>7, <1>14 DEF Promise!Decide, Promise!Ended, WaitsOf
<1>16. Promise!Move(t, s)
  <2>1. Promise!Never = Never BY DEF Promise!Never, Never
  <2> QED BY <1>6, <1>12, <1>13, <1>14, <1>15, <2>1 DEF Promise!Move
<1>17. PlacedOnce'
  <2>1. Once(q.ops, DecidedWaits', outcome) BY <1>3, <1>5, <1>6, <1>13, CancelsPlaced
  <2>2. Once(queue'.ops, DecidedWaits', outcome) BY <1>6, <1>7, <1>8, <2>1, OnceMoved
  <2> QED BY <1>13, <2>2 DEF PlacedOnce
<1> QED BY <1>16, <1>17

LEMMA DestroySeen ==
  ASSUME Sound, PlacedOnce, NEW t \in Timers, Destroy(t)
  PROVE  Promise!Destroy(t) /\ PlacedOnce'
<1>1. /\ queue \in Queues /\ expiry \in Expiries /\ life \in Lives /\ queue.ops \in WaitsByTimer
      /\ queue.ops \in [Timers -> Seq(Waits)]
  BY SoundTypes
<1>2. PICK n : n = Len(queue.ops[t]) OBVIOUS
<1>3. queue.ops[t] \in Seq(Waits) /\ n \in Nat /\ n \in 0 .. Len(queue.ops[t]) BY <1>1, <1>2
<1>4. /\ SubSeq(queue.ops[t], n + 1, Len(queue.ops[t])) = << >>
      /\ SubSeq(queue.ops[t], 1, n) = queue.ops[t]
  BY <1>2, <1>3
<1>5. PICK q : q = Without(queue, t, n) OBVIOUS
<1>6. /\ life[t] = "live" /\ life' = [life EXCEPT ![t] = "none"]
      /\ expiry' = [expiry EXCEPT ![t] = Never]
      /\ queue' = Erased(q, t)
      /\ ready' = ready \o WaitsOf(Taken(queue, t, n), "canceled")
      /\ UNCHANGED <<now, current, phase, outcome>>
  BY <1>2, <1>5 DEF Destroy, All
<1>7. /\ q.ops = [queue.ops EXCEPT ![t] = << >>] /\ q.ops \in WaitsByTimer
      /\ DecidedWaits' = DecidedWaits \o WaitsOf(queue.ops[t], "canceled")
  <2>1. /\ q.ops = [queue.ops EXCEPT ![t] = SubSeq(queue.ops[t], n + 1, Len(queue.ops[t]))]
        /\ q.ops \in WaitsByTimer
        /\ DecidedWaits' = DecidedWaits \o WaitsOf(SubSeq(queue.ops[t], 1, n), "canceled")
    BY <1>3, <1>5, <1>6, CanceledSeen
  <2> QED BY <1>4, <2>1
<1>8. queue'.ops = q.ops
  <2>1. q \in Queues BY <1>1, <1>3, <1>5, WithoutTyped
  <2>2. queue'.ops = [q.ops EXCEPT ![t] = << >>]
    <3>1. PICK z : z = Erased(q, t) OBVIOUS
    <3>2. IsErased(q, t, z) BY <2>1, <3>1, ErasedFields
    <3>3. queue' = z BY <1>6, <3>1
    <3> QED BY <3>2, <3>3 DEF IsErased
  <2>3. q.ops[t] = << >> BY <1>1, <1>7
  <2> QED BY <1>7, <2>2, <2>3 DEF WaitsByTimer
<1>9. SeenTimers' = [SeenTimers EXCEPT ![t] = Null]
  <2>1. SeenTimers' = Seen(life', expiry', queue'.ops) BY SeenNow
  <2>2. PICK f : f = SeenTimers OBVIOUS
  <2>3. DOMAIN f = Timers /\ \A u \in Timers : f[u] = IF life[u] = "none" THEN Null ELSE [expiry |-> expiry[u], waits |-> queue.ops[u]]
    BY <2>2 DEF SeenTimers
  <2>4. ASSUME NEW u \in Timers
        PROVE  (IF life'[u] = "none" THEN Null ELSE [expiry |-> expiry'[u], waits |-> queue'.ops[u]])
                 = IF u = t THEN Null ELSE f[u]
    BY <1>1, <1>6, <1>7, <1>8, <2>3 DEF Lives, Expiries
  <2>5. Seen(life', expiry', queue'.ops) = [u \in Timers |-> IF u = t THEN Null ELSE f[u]] BY <2>4 DEF Seen
  <2>6. [f EXCEPT ![t] = Null] = [u \in Timers |-> IF u = t THEN Null ELSE f[u]] BY <2>2, <2>3 DEF SeenTimers
  <2> QED BY <2>1, <2>2, <2>5, <2>6
<1>10. UNCHANGED <<now, outcome, Up>> BY <1>6 DEF Up
<1>11. Promise!Live(t) /\ Promise!WaitsOf(t) = queue.ops[t]
  <2>1. SeenTimers[t] = SeenTimer(expiry[t], queue.ops[t]) /\ SeenTimers[t] # Null BY <1>1, <1>6, SeenIs, SeenNow
  <2> QED BY <2>1 DEF Promise!Live, Promise!WaitsOf, SeenTimer
<1>12. Promise!Decide(Promise!WaitsOf(t), "canceled")
  BY <1>7, <1>11 DEF Promise!Decide, Promise!Ended, WaitsOf
<1>13. Promise!Destroy(t) BY <1>9, <1>10, <1>11, <1>12 DEF Promise!Destroy
<1>14. PlacedOnce'
  <2> SUFFICES Once(queue'.ops, DecidedWaits', outcome) BY <1>10 DEF PlacedOnce
  <2>1. Once(q.ops, DecidedWaits', outcome) BY <1>3, <1>5, <1>6, CancelsPlaced
  <2> QED BY <1>8, <2>1
<1> QED BY <1>13, <1>14

LEMMA CompleteSeen ==
  ASSUME Sound, PlacedOnce, Complete
  PROVE  Promise!Tell /\ PlacedOnce'
<1>1. ThreadTyped(ready, reactor, current, sleep) /\ DecidedWaits \in Seq(Completions) /\ outcome \in Outcomes
      /\ ready \in Seq(Completions)
  BY SoundTypes DEF Outcomes
<1>2. /\ reactor = "complete" /\ current' = Null
      /\ outcome' = [outcome EXCEPT ![current.wait] = current.code]
      /\ UNCHANGED <<now, life, expiry, queue, ready, phase, harm>>
  BY DEF Complete
<1>3. /\ DecidedWaits # << >> /\ Head(DecidedWaits) = current /\ Tail(DecidedWaits) = ready
      /\ current \in Completions
  BY <1>1, <1>2, DecidedIs
<1>4. DecidedWaits' = Tail(DecidedWaits)
  <2>1. DecidedWaits' = << >> \o ready BY <1>2 DEF DecidedWaits
  <2> QED BY <1>1, <1>3, <2>1, ConcatEmptySeq
<1>5. SeenTimers' = SeenTimers /\ Up' = Up BY <1>2 DEF SeenTimers, Up
<1>6. Promise!Tell BY <1>2, <1>3, <1>4, <1>5 DEF Promise!Tell
<1>7. PlacedOnce'
  <2> SUFFICES Once(queue.ops, DecidedWaits', outcome') BY <1>2, <1>5 DEF PlacedOnce
  <2>1. Once(queue.ops, DecidedWaits, outcome) BY DEF PlacedOnce, Sound
  <2>2. Put(outcome, Head(DecidedWaits).wait, current.code, outcome') BY <1>2, <1>3 DEF Put
  <2>3. current.code # "waiting" BY <1>3 DEF Completions, Codes
  <2> QED BY <1>1, <1>3, <1>4, <2>1, <2>2, <2>3, OnceTold
<1> QED BY <1>6, <1>7

\* A step of which users see nothing.
LEMMA UnseenSteps ==
  ASSUME Sound, PlacedOnce, Relock \/ WakeUp \/ Ends \/ Stop \/ Join
  PROVE  UNCHANGED Promise!vars /\ PlacedOnce'
<1>1. ThreadTyped(ready, reactor, current, sleep) /\ ready \in Seq(Completions) BY SoundTypes
<1>2. UNCHANGED <<now, life, expiry, queue, outcome, harm>> BY DEF Relock, WakeUp, Ends, Stop, Join
<1>3. DecidedWaits' = DecidedWaits
  <2>1. CASE Relock
    <3>1. DecidedWaits = ready BY <1>1, <2>1, DecidedIs DEF Relock
    <3>2. DecidedWaits' = ready BY <1>1, <2>1, CompletesDecided DEF Relock
    <3> QED BY <3>1, <3>2
  <2>2. CASE WakeUp \/ Ends \/ Stop \/ Join BY <2>2 DEF WakeUp, Ends, Stop, Join, DecidedWaits
  <2> QED BY <2>1, <2>2
<1>4. Up' = Up BY DEF Relock, WakeUp, Ends, Stop, Join, Up
<1>5. SeenTimers' = SeenTimers BY <1>2 DEF SeenTimers
<1> QED BY <1>2, <1>3, <1>4, <1>5 DEF Promise!vars, PlacedOnce

LEMMA TickSeen ==
  ASSUME Sound, PlacedOnce, Tick
  PROVE  (Promise!Tick \/ UNCHANGED Promise!vars) /\ PlacedOnce'
<1>1. now \in Times /\ MaxTime \in Nat BY SoundTypes, ReactorAssumption DEF ReactorAssumption
<1>2. now' = Least(now + 1, MaxTime) /\ UNCHANGED <<life, expiry, queue, ready, current, phase, outcome, harm>>
  BY DEF Tick
<1>3. UNCHANGED <<SeenTimers, DecidedWaits, outcome, Up, queue, harm>> BY <1>2 DEF SeenTimers, DecidedWaits, Up
<1>4. PlacedOnce' BY <1>3 DEF PlacedOnce
<1>5. CASE now < MaxTime
  <2>1. now' = now + 1 BY <1>1, <1>2, <1>5 DEF Least, Times
  <2> QED BY <1>3, <1>4, <1>5, <2>1 DEF Promise!Tick
<1>6. CASE ~ (now < MaxTime)
  <2>1. now' = now BY <1>1, <1>2, <1>6 DEF Least, Times
  <2> QED BY <1>3, <1>4, <2>1 DEF Promise!vars
<1> QED BY <1>5, <1>6

FirstOf(d, n, e) == n \in {0, 1} /\ n <= Len(d) /\ e = SubSeq(d, 1, n)

\* The outcomes when all waits but those of e are destroyed.
DestroysBut(e, oc, oz) ==
  \A w \in Waits : oz[w] = IF oc[w] = "waiting" /\ \A i \in DOMAIN e : e[i].wait # w
                          THEN "destroyed" ELSE oc[w]

\* The waits that are with a timer or ready are destroyed, the one being told is left.
LEMMA OnceAbandoned ==
  ASSUME NEW o, NEW d \in Seq(Completions), NEW n, NEW e, FirstOf(d, n, e),
         NEW r, \A u \in Timers : r[u] = << >>, NEW oc, NEW oz, Once(o, d, oc), DestroysBut(e, oc, oz)
  PROVE  Once(r, e, oz)
<1> USE DEF FirstOf, DestroysBut
<1>1. e \in Seq(Completions) /\ Len(e) = n /\ DOMAIN e = 1 .. n
  <2>1. \A i \in 1 .. n : d[i] \in Completions
    <3>1. Len(d) \in Nat /\ \A i \in 1 .. Len(d) : d[i] \in Completions OBVIOUS
    <3> QED BY <3>1
  <2>2. e \in Seq(Completions) /\ Len(e) = n BY <2>1, SubSeqProperties
  <2> QED BY <2>2
<1>2. ASSUME NEW i \in 1 .. n PROVE e[i] = d[i] /\ i \in 1 .. Len(d)
  <2>1. \A k \in 1 .. n : d[k] \in Completions
    <3>1. Len(d) \in Nat /\ \A k \in 1 .. Len(d) : d[k] \in Completions OBVIOUS
    <3> QED BY <3>1
  <2>2. e[i] = d[1 + i - 1] BY <1>1, <2>1, SubSeqProperties
  <2>3. 1 + i - 1 = i /\ Len(d) \in Nat OBVIOUS
  <2> QED BY <2>2, <2>3
<1>3. \A w : ~ InSome(r, w)
  <2>1. Len(<< >>) = 0 /\ 1 .. 0 = {} OBVIOUS
  <2> QED BY <2>1 DEF InSome
<1>4. \A t \in Timers : \A i \in 1 .. Len(r[t]) : FALSE
  <2>1. Len(<< >>) = 0 /\ 1 .. 0 = {} OBVIOUS
  <2> QED BY <2>1
<1>5. \A i, j \in 1 .. Len(e) : e[i].wait = e[j].wait => i = j BY <1>1
<1>6. ASSUME NEW w \in Waits PROVE oz[w] = "waiting" <=> InList(e, w)
  <2>1. InList(e, w) => InList(d, w)
    <3>1. ASSUME NEW i \in 1 .. n, e[i].wait = w PROVE InList(d, w) BY <1>2, <3>1 DEF InList
    <3> QED BY <1>1, <3>1 DEF InList
  <2>2. InList(e, w) => oc[w] = "waiting" BY <2>1 DEF Once
  <2>3. InList(e, w) <=> ~ \A i \in DOMAIN e : e[i].wait # w BY <1>1 DEF InList
  <2> QED BY <2>2, <2>3
<1> QED BY <1>3, <1>4, <1>5, <1>6 DEF Once

LEMMA ShutdownSeen ==
  ASSUME Sound, PlacedOnce, Shutdown
  PROVE  Promise!Abandon /\ PlacedOnce'
<1>1. /\ queue \in Queues /\ expiry \in Expiries /\ life \in Lives /\ Exact(queue, expiry)
      /\ queue.ops \in WaitsByTimer /\ DecidedWaits \in Seq(Completions) /\ outcome \in Outcomes
      /\ ThreadTyped(ready, reactor, current, sleep) /\ ready \in Seq(Completions)
  BY SoundTypes DEF Outcomes
<1>2. /\ phase = "up" /\ phase' = "shutdown" /\ queue' = AllTaken(queue) /\ ready' = << >>
      /\ UNCHANGED <<now, life, expiry, current>>
  BY DEF Shutdown
<1>3. ActiveTimers(queue) = AwaitedIn(queue) BY <1>1, ActiveTimersAre DEF Exact
<1>4. \A u \in Timers : queue'.ops[u] = << >> BY <1>1, <1>2, <1>3, AllTakenFields DEF AwaitedIn
<1>5. Up /\ Up' = FALSE BY <1>2 DEF Up
<1>6. SeenTimers' = [t \in Timers |-> IF Promise!Live(t) THEN [SeenTimers[t] EXCEPT !.waits = << >>] ELSE Null]
  <2>1. ASSUME NEW t \in Timers
        PROVE  (IF life'[t] = "none" THEN Null ELSE [expiry |-> expiry'[t], waits |-> queue'.ops[t]])
                 = IF SeenTimers[t] # Null THEN [SeenTimers[t] EXCEPT !.waits = << >>] ELSE Null
    <3>1. CASE life[t] = "none"
      <4>1. SeenTimers[t] = Null BY <1>1, <3>1, SeenIs, SeenNow
      <4> QED BY <1>2, <3>1, <4>1
    <3>2. CASE life[t] = "live"
      <4>1. PICK x, a, b : x = SeenTimers[t] /\ a = expiry[t] /\ b = queue.ops[t] OBVIOUS
      <4>2. x = [expiry |-> a, waits |-> b] /\ x # Null BY <1>1, <3>2, <4>1, SeenIs, SeenNow DEF SeenTimer
      <4>3. [x EXCEPT !.waits = << >>] = [expiry |-> a, waits |-> << >>] BY <4>2, TimerPut
      <4> QED BY <1>2, <1>4, <3>2, <4>1, <4>2, <4>3
    <3> QED BY <1>1, <3>1, <3>2 DEF Lives
  <2> QED BY <2>1 DEF SeenTimers, Promise!Live
<1>7. Once(queue.ops, DecidedWaits, outcome) BY <1>5 DEF PlacedOnce, Sound
<1>8. PICK n \in {0, 1} :
        /\ n <= Len(DecidedWaits) /\ DecidedWaits' = SubSeq(DecidedWaits, 1, n)
        /\ \A w \in Waits : InSome(queue.ops, w) \/ InList(ready, w)
                              <=> outcome[w] = "waiting" /\ \A i \in DOMAIN DecidedWaits' : DecidedWaits'[i].wait # w
  <2>1. CASE reactor # "complete"
    <3>1. DecidedWaits = ready /\ current = Null BY <1>1, <2>1, DecidedIs
    <3>2. DecidedWaits' = << >> BY <1>2, <3>1 DEF DecidedWaits
    <3>3. 0 <= Len(DecidedWaits) /\ SubSeq(DecidedWaits, 1, 0) = << >> BY <1>1
    <3>4. \A w \in Waits : outcome[w] = "waiting" <=> InSome(queue.ops, w) \/ InList(ready, w)
      BY <1>7, <3>1 DEF Once
    <3>5. \A i \in DOMAIN DecidedWaits' : FALSE BY <3>2
    <3> QED BY <3>2, <3>3, <3>4, <3>5
  <2>2. CASE reactor = "complete"
    <3>1. /\ DecidedWaits # << >> /\ Head(DecidedWaits) = current /\ Tail(DecidedWaits) = ready
          /\ current \in Completions /\ current # Null
      BY <1>1, <2>2, DecidedIs
    <3>2. DecidedWaits' = <<current>>
      <4>1. DecidedWaits' = <<current>> \o << >> BY <1>2, <3>1 DEF DecidedWaits
      <4>2. <<current>> \in Seq(Completions) BY <3>1
      <4> QED BY <4>1, <4>2, ConcatEmptySeq
    <3>3. 1 <= Len(DecidedWaits) /\ SubSeq(DecidedWaits, 1, 1) = <<current>>
      <4>1. PICK d : d = DecidedWaits OBVIOUS
      <4>2. d \in Seq(Completions) /\ d # << >> BY <1>1, <3>1, <4>1
      <4>3. Len(d) \in Nat /\ Len(d) >= 1 /\ Head(d) = d[1] BY <4>2
      <4>4. SubSeq(d, 1, 1) = [k \in 1 .. 1 |-> d[k]] BY <4>2, <4>3
      <4>5. <<Head(d)>> = [k \in 1 .. 1 |-> d[k]] BY <4>3
      <4> QED BY <3>1, <4>1, <4>3, <4>4, <4>5
    <3>4. ASSUME NEW w \in Waits
          PROVE  InSome(queue.ops, w) \/ InList(ready, w) <=> outcome[w] = "waiting" /\ current.wait # w
      <4>1. outcome[w] = "waiting" <=> InSome(queue.ops, w) \/ InList(DecidedWaits, w) BY <1>7 DEF Once
      <4>2. InSome(queue.ops, w) => ~ InList(DecidedWaits, w) BY <1>7 DEF Once
      <4>3. InList(DecidedWaits, w) <=> w = current.wait \/ InList(ready, w) BY <1>1, <3>1, HeadOnce
      <4>4. ~ InList(ready, current.wait) BY <1>1, <1>7, <3>1, HeadOnce
      <4> QED BY <4>1, <4>2, <4>3, <4>4
    <3>5. \A w : (\A i \in DOMAIN DecidedWaits' : DecidedWaits'[i].wait # w) <=> current.wait # w
      BY <3>2
    <3> QED BY <3>2, <3>3, <3>4, <3>5
  <2> QED BY <2>1, <2>2
<1>9. outcome' = [w \in Waits |-> IF outcome[w] = "waiting" /\ \A i \in DOMAIN DecidedWaits' : DecidedWaits'[i].wait # w
                                  THEN "destroyed" ELSE outcome[w]]
  <2>1. ASSUME NEW w \in Waits
        PROVE  (\/ \E t \in ActiveTimers(queue) : w \in Range(queue.ops[t])
                \/ \E i \in DOMAIN ready : ready[i].wait = w)
                 <=> InSome(queue.ops, w) \/ InList(ready, w)
    <3>1. \A t \in Timers : DOMAIN queue.ops[t] = 1 .. Len(queue.ops[t])
      <4>1. \A t \in Timers : queue.ops[t] \in Seq(Waits) BY <1>1 DEF WaitsByTimer
      <4> QED BY <4>1
    <3>2. DOMAIN ready = 1 .. Len(ready) BY <1>1
    <3>3. \A t \in Timers : w \in Range(queue.ops[t]) <=> \E i \in 1 .. Len(queue.ops[t]) : queue.ops[t][i] = w
      BY <3>1 DEF Range
    <3>4. \A t \in Timers : t \notin AwaitedIn(queue) => ~ \E i \in 1 .. Len(queue.ops[t]) : queue.ops[t][i] = w
      <4>1. Len(<< >>) = 0 /\ 1 .. 0 = {} OBVIOUS
      <4> QED BY <4>1 DEF AwaitedIn
    <3>5. AwaitedIn(queue) \subseteq Timers BY DEF AwaitedIn
    <3> QED BY <1>3, <3>2, <3>3, <3>4, <3>5 DEF InSome, InList
  <2>2. outcome' = [w \in Waits |-> IF InSome(queue.ops, w) \/ InList(ready, w) THEN "destroyed" ELSE outcome[w]]
    <3>1. outcome' = [w \in Waits |->
             IF \/ \E t \in ActiveTimers(queue) : w \in Range(queue.ops[t])
                \/ \E i \in DOMAIN ready : ready[i].wait = w
             THEN "destroyed" ELSE outcome[w]]
      BY DEF Shutdown
    <3> QED BY <2>1, <3>1
  <2>3. \A w \in Waits : InSome(queue.ops, w) \/ InList(ready, w)
                           <=> outcome[w] = "waiting" /\ \A i \in DOMAIN DecidedWaits' : DecidedWaits'[i].wait # w
    BY <1>8
  <2> QED BY <2>2, <2>3
<1>10. Promise!Abandon BY <1>2, <1>5, <1>6, <1>8, <1>9 DEF Promise!Abandon
<1>11. PlacedOnce'
  <2>1. \A w \in Waits : outcome'[w] = IF outcome[w] = "waiting" /\ \A i \in DOMAIN DecidedWaits' : DecidedWaits'[i].wait # w
                                       THEN "destroyed" ELSE outcome[w]
    BY <1>9
  <2>2. PICK d, e, o, p, oz : d = DecidedWaits /\ e = DecidedWaits' /\ o = queue.ops /\ p = queue'.ops /\ oz = outcome'
    OBVIOUS
  <2>3. d \in Seq(Completions) /\ FirstOf(d, n, e) BY <1>1, <1>8, <2>2 DEF FirstOf
  <2>4. (\A u \in Timers : p[u] = << >>) /\ Once(o, d, outcome) BY <1>4, <1>7, <2>2
  <2>5. DestroysBut(e, outcome, oz) BY <2>1, <2>2 DEF DestroysBut
  <2>6. Once(p, e, oz) BY <2>3, <2>4, <2>5, OnceAbandoned
  <2> QED BY <2>2, <2>6 DEF PlacedOnce
<1> QED BY <1>10, <1>11

----------------------------------------------------------------------------
(* What the reactor takes when timers expire, as a sequence of timers.     *)

LEMMA WaitsOfTwo ==
  ASSUME NEW x \in Seq(Waits), NEW y \in Seq(Waits), NEW c \in Codes
  PROVE  WaitsOf(x \o y, c) = WaitsOf(x, c) \o WaitsOf(y, c)
<1>1. PICK z, a, b, d : z = x \o y /\ a = WaitsOf(x, c) /\ b = WaitsOf(y, c) /\ d = WaitsOf(z, c) OBVIOUS
<1>2. /\ z \in Seq(Waits) /\ Len(z) = Len(x) + Len(y)
      /\ \A i \in 1 .. Len(x) + Len(y) : z[i] = IF i <= Len(x) THEN x[i] ELSE y[i - Len(x)]
  BY <1>1, ConcatProperties
<1>3. a \in Seq(Completions) /\ Len(a) = Len(x) /\ \A k \in 1 .. Len(x) : a[k] = [wait |-> x[k], code |-> c]
  <2>1. a = WaitsOf(x, c) BY <1>1
  <2>2. Coded(x, c, a) BY <2>1, WaitsOfFields
  <2> QED BY <2>2 DEF Coded
<1>4. b \in Seq(Completions) /\ Len(b) = Len(y) /\ \A k \in 1 .. Len(y) : b[k] = [wait |-> y[k], code |-> c]
  <2>1. b = WaitsOf(y, c) BY <1>1
  <2>2. Coded(y, c, b) BY <2>1, WaitsOfFields
  <2> QED BY <2>2 DEF Coded
<1>5. d \in Seq(Completions) /\ Len(d) = Len(z) /\ \A k \in 1 .. Len(z) : d[k] = [wait |-> z[k], code |-> c]
  <2>1. z \in Seq(Waits) /\ d = WaitsOf(z, c) BY <1>1, <1>2
  <2>2. Coded(z, c, d) BY <2>1, WaitsOfFields
  <2> QED BY <2>2 DEF Coded
<1>6. PICK f : f = a \o b OBVIOUS
<1>7. /\ f \in Seq(Completions) /\ Len(f) = Len(a) + Len(b)
      /\ \A i \in 1 .. Len(a) + Len(b) : f[i] = IF i <= Len(a) THEN a[i] ELSE b[i - Len(a)]
  <2>1. a \in Seq(Completions) /\ b \in Seq(Completions) BY <1>3, <1>4
  <2> QED BY <1>6, <2>1, ConcatProperties
<1>8. Len(x) \in Nat /\ Len(y) \in Nat OBVIOUS
<1>9. Len(f) = Len(d) BY <1>2, <1>3, <1>4, <1>5, <1>7
<1>10. ASSUME NEW k \in 1 .. Len(d) PROVE f[k] = d[k]
  <2>1. k \in 1 .. Len(x) + Len(y) BY <1>2, <1>5
  <2>2. CASE k <= Len(x)
    <3>1. k \in 1 .. Len(x) BY <1>8, <2>1, <2>2
    <3>2. f[k] = a[k] /\ z[k] = x[k] BY <1>2, <1>3, <1>4, <1>7, <2>1, <2>2
    <3> QED BY <1>2, <1>3, <1>5, <2>1, <3>1, <3>2
  <2>3. CASE ~ (k <= Len(x))
    <3>1. k - Len(x) \in 1 .. Len(y) BY <1>8, <2>1, <2>3
    <3>2. f[k] = b[k - Len(x)] /\ z[k] = y[k - Len(x)] BY <1>2, <1>3, <1>4, <1>7, <2>1, <2>3
    <3> QED BY <1>2, <1>4, <1>5, <2>1, <3>1, <3>2
  <2> QED BY <2>2, <2>3
<1>11. f = d BY <1>5, <1>7, <1>9, <1>10, SeqEqual
<1> QED BY <1>1, <1>6, <1>11

\* One turn of the loop from st to r takes the earliest timer, t.
Takes(st, r, ex, t) ==
  /\ ex[t] <= now /\ \A u \in ExpiringIn(st.queue, ex) : ex[t] <= ex[u]
  /\ Put(st.queue.ops, t, << >>, r.queue.ops)
  /\ r.ready = st.ready \o WaitsOf(st.queue.ops[t], "success")

LEMMA ExpiredTakes ==
  ASSUME NEW ex \in Expiries, NEW st \in ExpireStates, Exact(st.queue, ex), IsDue(st.queue),
         NEW r, r = Expired(st)
  PROVE  /\ \E t \in ExpiringIn(st.queue, ex) : Takes(st, r, ex, t)
         /\ r \in ExpireStates /\ Exact(r.queue, ex) /\ r # st
<1> DEFINE q == st.queue
           t == q.heap[1].timer
           p == [q EXCEPT !.ops[t] = << >>]
           g == Removed(p, t)
           y == st.ready \o WaitsOf(q.ops[t], "success")
<1>1. q \in Queues BY DEF ExpireStates
<1>2. q.heap # << >> /\ q.heap[1].at <= now BY DEF IsDue
<1>3. /\ t \in ExpiringIn(q, ex) /\ q.heap[1].at = ex[t] /\ q.index[t] = 1 /\ 1 \in DOMAIN q.heap
      /\ \A u \in ExpiringIn(q, ex) : q.heap[1].at <= ex[u]
  BY <1>1, <1>2, ExactRoot
<1>4. r = [queue |-> g, ready |-> y] BY <1>3 DEF Expired, IsStuck
<1>5. t \in Timers /\ Active(q, t) BY <1>3 DEF Exact, Listed, ExpiringIn, AwaitedIn
<1>6. p = [q EXCEPT !.ops[t] = << >>] /\ g = Removed(p, t) OBVIOUS
<1>6a. y = st.ready \o WaitsOf(q.ops[t], "success") OBVIOUS
<1> HIDE DEF p, g, y, t
<1>7. r.queue = g /\ r.ready = y BY <1>4
<1>8. Exact(g, ex) /\ g.ops = [q.ops EXCEPT ![t] = << >>]
  <2>1. q \in Queues /\ Exact(q, ex) BY <1>1
  <2> HIDE DEF q
  <2> QED BY <1>5, <1>6, <2>1, RemovedIs
<1>9. r \in ExpireStates BY ExpiredStays
<1>10. r # st
  <2>1. q.ops[t] # << >> BY <1>3 DEF ExpiringIn, AwaitedIn
  <2>2. q.ops \in [Timers -> Seq(Waits)] BY <1>1, QueueIs
  <2>3. g.ops[t] = << >> BY <1>5, <1>8, <2>2
  <2> QED BY <1>7, <2>1, <2>3
<1>11. ex[t] <= now /\ \A u \in ExpiringIn(q, ex) : ex[t] <= ex[u] BY <1>2, <1>3
<1>12. r.ready = st.ready \o WaitsOf(q.ops[t], "success") BY <1>6a, <1>7
<1>13. Takes(st, r, ex, t) BY <1>7, <1>8, <1>11, <1>12 DEF Takes, Put
<1> QED BY <1>3, <1>7, <1>8, <1>9, <1>10, <1>13

\* g[i] is what the first i timers of s wait for, one after the other.
Joined(g, s, o) ==
  /\ g \in [1 .. Len(s) -> Seq(Waits)]
  /\ \A i \in 1 .. Len(s) : g[i] = IF i = 1 THEN o[s[i]] ELSE g[i - 1] \o o[s[i]]
JoinedAll(g, s) == IF Len(s) = 0 THEN << >> ELSE g[Len(s)]

\* From waits o and ready operations rd, by time n, st is where the timers s have
\* been taken: an earlier one first, and none later than one that is left.
Ran(o, rd, ex, n, st, s, g) ==
  /\ Joined(g, s, o) /\ st.ready = rd \o WaitsOf(JoinedAll(g, s), "success")
  /\ \A i \in 1 .. Len(s) : o[s[i]] # << >> /\ ex[s[i]] <= n /\ st.queue.ops[s[i]] = << >>
  /\ \A u \in Timers : st.queue.ops[u] = o[u] \/ \E i \in 1 .. Len(s) : s[i] = u
  /\ \A i, j \in 1 .. Len(s) : i < j => s[i] # s[j] /\ ex[s[i]] <= ex[s[j]]
  /\ \A i \in 1 .. Len(s) : \A u \in ExpiringIn(st.queue, ex) : ex[s[i]] <= ex[u]

RanSome(o, rd, ex, n, st) == \E s \in Seq(Timers) : \E g : Ran(o, rd, ex, n, st, s, g)

LEMMA RanNone ==
  ASSUME NEW st \in ExpireStates, NEW ex, NEW n
  PROVE  RanSome(st.queue.ops, st.ready, ex, n, st)
<1>1. PICK s, g, o : s = << >> /\ g = << >> /\ o = st.queue.ops OBVIOUS
<1>2. s \in Seq(Timers) /\ Len(s) = 0 /\ 1 .. Len(s) = {} BY <1>1
<1>3. Joined(g, s, o) /\ JoinedAll(g, s) = << >>
  <2>1. g \in [1 .. Len(s) -> Seq(Waits)] BY <1>1, <1>2
  <2> QED BY <1>2, <2>1 DEF Joined, JoinedAll
<1>4. WaitsOf(<< >>, "success") = << >>
  <2>1. PICK ws : ws = << >> OBVIOUS
  <2>2. ws \in Seq(Waits) /\ "success" \in Codes BY <2>1 DEF Codes
  <2>3. PICK cs : cs = WaitsOf(ws, "success") OBVIOUS
  <2>4. cs = << >> BY <2>1, <2>2, <2>3, WaitsOfIs
  <2> QED BY <2>1, <2>3, <2>4
<1>5. st.ready = st.ready \o << >>
  <2>1. st.ready \in Seq(Completions) BY DEF ExpireStates
  <2> QED BY <2>1, ConcatEmptySeq
<1>6. Ran(o, st.ready, ex, n, st, s, g) BY <1>1, <1>2, <1>3, <1>4, <1>5 DEF Ran
<1> QED BY <1>1, <1>2, <1>6 DEF RanSome

\* A sequence of timers with one more.
Longer(s, t, z) == z = Append(s, t)
JoinedWith(g, s, o, t) ==
  [i \in 1 .. Len(s) + 1 |-> IF i = Len(s) + 1 THEN JoinedAll(g, s) \o o[t] ELSE g[i]]

LEMMA JoinedMore ==
  ASSUME NEW o \in WaitsByTimer, NEW s \in Seq(Timers), NEW g, Joined(g, s, o), NEW t \in Timers,
         NEW z, Longer(s, t, z),
         NEW h, h = JoinedWith(g, s, o, t)
  PROVE  /\ Joined(h, z, o) /\ JoinedAll(h, z) = JoinedAll(g, s) \o o[t]
         /\ JoinedAll(g, s) \in Seq(Waits)
<1>1. Len(s) \in Nat /\ o[t] \in Seq(Waits) BY DEF WaitsByTimer
<1>2. PICK m \in Nat : m = Len(s) BY <1>1
<1>3. z \in Seq(Timers) /\ Len(z) = m + 1 /\ z[m + 1] = t /\ \A i \in 1 .. m : z[i] = s[i]
  BY <1>2, AppendProperties DEF Longer
<1>4. g \in [1 .. m -> Seq(Waits)] /\ \A i \in 1 .. m : g[i] = IF i = 1 THEN o[s[i]] ELSE g[i - 1] \o o[s[i]]
  BY <1>2 DEF Joined
<1>5. PICK a : a = JoinedAll(g, s) OBVIOUS
<1>6. a \in Seq(Waits) /\ (m = 0 => a = << >>) /\ (m # 0 => a = g[m])
  BY <1>2, <1>4, <1>5 DEF JoinedAll
<1>7. a \o o[t] \in Seq(Waits) BY <1>1, <1>6, ConcatProperties
<1>8. PICK b : b = a \o o[t] OBVIOUS
<1>9. h = [i \in 1 .. m + 1 |-> IF i = m + 1 THEN b ELSE g[i]] BY <1>2, <1>5, <1>8 DEF JoinedWith
<1>10. \A i \in 1 .. m + 1 : i = m + 1 \/ i \in 1 .. m BY <1>2
<1>11. h \in [1 .. m + 1 -> Seq(Waits)] BY <1>4, <1>7, <1>8, <1>9, <1>10
<1>12. ASSUME NEW i \in 1 .. m + 1 PROVE h[i] = IF i = 1 THEN o[z[i]] ELSE h[i - 1] \o o[z[i]]
  <2>1. CASE i # m + 1
    <3>1. i \in 1 .. m /\ h[i] = g[i] /\ z[i] = s[i] BY <1>3, <1>9, <1>10, <2>1
    <3>2. i # 1 => i - 1 \in 1 .. m + 1 /\ i - 1 # m + 1 BY <1>2, <3>1
    <3>3. i # 1 => h[i - 1] = g[i - 1] BY <1>9, <3>2
    <3> QED BY <1>4, <3>1, <3>3
  <2>2. CASE i = m + 1 /\ i = 1
    <3>1. m = 0 BY <2>2
    <3>2. b = << >> \o o[t] BY <1>6, <1>8, <3>1
    <3>3. b = o[t] BY <1>1, <3>2, ConcatEmptySeq
    <3> QED BY <1>3, <1>9, <2>2, <3>3
  <2>3. CASE i = m + 1 /\ i # 1
    <3>1. m # 0 /\ i - 1 = m /\ m \in 1 .. m + 1 /\ m # m + 1 BY <1>2, <2>3
    <3>2. h[m] = g[m] /\ h[i] = b BY <1>9, <2>3, <3>1
    <3> QED BY <1>3, <1>6, <1>8, <2>3, <3>1, <3>2
  <2> QED BY <2>1, <2>2, <2>3
<1>13. Joined(h, z, o) BY <1>3, <1>11, <1>12 DEF Joined
<1>14. JoinedAll(h, z) = b
  <2>1. m + 1 # 0 /\ m + 1 \in 1 .. m + 1 BY <1>2
  <2> QED BY <1>3, <1>9, <2>1 DEF JoinedAll
<1> QED BY <1>5, <1>6, <1>8, <1>13, <1>14

\* A turn takes one timer more.
LEMMA RanMore ==
  ASSUME NEW ex \in Expiries, NEW o \in WaitsByTimer, NEW rd \in Seq(Completions), NEW st \in ExpireStates,
         Exact(st.queue, ex), IsDue(st.queue), RanSome(o, rd, ex, now, st), NEW r, r = Expired(st)
  PROVE  RanSome(o, rd, ex, now, r)
<1>1. PICK t \in ExpiringIn(st.queue, ex) : Takes(st, r, ex, t)
  BY ExpiredTakes
<1>1a. /\ ex[t] <= now /\ \A u \in ExpiringIn(st.queue, ex) : ex[t] <= ex[u]
       /\ Put(st.queue.ops, t, << >>, r.queue.ops)
       /\ r.ready = st.ready \o WaitsOf(st.queue.ops[t], "success")
  BY <1>1 DEF Takes
<1>2. PICK s \in Seq(Timers) : \E g : Ran(o, rd, ex, now, st, s, g) BY DEF RanSome
<1>3. PICK g : Ran(o, rd, ex, now, st, s, g) BY <1>2
<1>4. t \in Timers /\ st.queue.ops[t] # << >> BY DEF ExpiringIn, AwaitedIn
<1>5. PICK m \in Nat : m = Len(s) OBVIOUS
<1>6. \A i \in 1 .. m : s[i] # t /\ s[i] \in Timers BY <1>3, <1>4, <1>5 DEF Ran
<1>7. st.queue.ops[t] = o[t] BY <1>3, <1>4, <1>5, <1>6 DEF Ran
<1>8. \A u \in Timers : r.queue.ops[u] = IF u = t THEN << >> ELSE st.queue.ops[u]
  <2>1. st.queue.ops \in [Timers -> Seq(Waits)]
    <3>1. st.queue \in Queues BY DEF ExpireStates
    <3> QED BY <3>1, QueueIs
  <2> QED BY <1>1a, <2>1 DEF Put
<1>9. PICK z : z = Append(s, t) OBVIOUS
<1>10. z \in Seq(Timers) /\ Len(z) = m + 1 /\ z[m + 1] = t /\ \A i \in 1 .. m : z[i] = s[i]
  BY <1>4, <1>5, <1>9, AppendProperties
<1>11. PICK h : h = JoinedWith(g, s, o, t) OBVIOUS
<1>12. Joined(h, z, o) /\ JoinedAll(h, z) = JoinedAll(g, s) \o o[t] /\ JoinedAll(g, s) \in Seq(Waits)
  <2>1. Joined(g, s, o) BY <1>3 DEF Ran
  <2>2. Longer(s, t, z) BY <1>9 DEF Longer
  <2> QED BY <1>4, <1>11, <2>1, <2>2, JoinedMore
<1>13. r.ready = rd \o WaitsOf(JoinedAll(h, z), "success")
  <2>1. PICK x, y : x = JoinedAll(g, s) /\ y = o[t] OBVIOUS
  <2>2. x \in Seq(Waits) /\ y \in Seq(Waits) /\ "success" \in Codes BY <1>4, <1>12, <2>1 DEF WaitsByTimer, Codes
  <2>3. PICK a, b : a = WaitsOf(x, "success") /\ b = WaitsOf(y, "success") OBVIOUS
  <2>4. a \in Seq(Completions) /\ b \in Seq(Completions) BY <2>2, <2>3, WaitsOfIs
  <2>5. st.ready = rd \o a /\ r.ready = st.ready \o b BY <1>1a, <1>3, <1>7, <2>1, <2>3 DEF Ran
  <2>6. r.ready = rd \o (a \o b)
    <3>1. (rd \o a) \o b = rd \o (a \o b) BY <2>4, ConcatAssociative
    <3> QED BY <2>5, <3>1
  <2>7. WaitsOf(x \o y, "success") = a \o b BY <2>2, <2>3, WaitsOfTwo
  <2>8. JoinedAll(h, z) = x \o y BY <1>12, <2>1
  <2> QED BY <2>6, <2>7, <2>8
<1>14. \A i \in 1 .. m + 1 : i = m + 1 \/ i \in 1 .. m OBVIOUS
<1>15. \A i \in 1 .. m + 1 : o[z[i]] # << >> /\ ex[z[i]] <= now /\ r.queue.ops[z[i]] = << >>
  <2> TAKE i \in 1 .. m + 1
  <2>1. CASE i = m + 1 BY <1>1a, <1>4, <1>7, <1>8, <1>10, <2>1
  <2>2. CASE i \in 1 .. m
    <3>1. z[i] = s[i] /\ s[i] # t /\ s[i] \in Timers BY <1>6, <1>10, <2>2
    <3> QED BY <1>3, <1>5, <1>8, <2>2, <3>1 DEF Ran
  <2> QED BY <1>14, <2>1, <2>2
<1>16. ASSUME NEW u \in Timers PROVE r.queue.ops[u] = o[u] \/ \E i \in 1 .. m + 1 : z[i] = u
  <2>1. CASE u = t
    <3>1. m + 1 \in 1 .. m + 1 OBVIOUS
    <3> QED BY <1>10, <2>1, <3>1
  <2>2. CASE u # t
    <3>1. r.queue.ops[u] = st.queue.ops[u] BY <1>8, <2>2
    <3>2. st.queue.ops[u] = o[u] \/ \E i \in 1 .. m : s[i] = u BY <1>3, <1>5 DEF Ran
    <3>3. \A i \in 1 .. m : i \in 1 .. m + 1 OBVIOUS
    <3> QED BY <1>10, <3>1, <3>2, <3>3
  <2> QED BY <2>1, <2>2
<1>17. \A i, j \in 1 .. m + 1 : i < j => z[i] # z[j] /\ ex[z[i]] <= ex[z[j]]
  <2> TAKE i, j \in 1 .. m + 1
  <2> HAVE i < j
  <2>0. i \in 1 .. m /\ z[i] = s[i] BY <1>10
  <2>1. CASE j = m + 1 BY <1>3, <1>5, <1>6, <1>10, <2>0, <2>1 DEF Ran
  <2>2. CASE j \in 1 .. m BY <1>3, <1>5, <1>10, <2>0, <2>2 DEF Ran
  <2> QED BY <1>14, <2>1, <2>2
<1>18. ASSUME NEW i \in 1 .. m + 1, NEW u \in ExpiringIn(r.queue, ex) PROVE ex[z[i]] <= ex[u]
  <2>1. u \in ExpiringIn(st.queue, ex) BY <1>8 DEF ExpiringIn, AwaitedIn
  <2>2. CASE i = m + 1 BY <1>1a, <1>10, <2>1, <2>2
  <2>3. CASE i \in 1 .. m BY <1>3, <1>5, <1>10, <2>1, <2>3 DEF Ran
  <2> QED BY <1>14, <2>2, <2>3
<1>19. Ran(o, rd, ex, now, r, z, h) BY <1>10, <1>12, <1>13, <1>15, <1>16, <1>17, <1>18 DEF Ran
<1> QED BY <1>10, <1>19 DEF RanSome

\* And a wait stays in one place.
LEMMA OnceAllDecided ==
  ASSUME NEW o \in WaitsByTimer, NEW d \in Seq(Completions), NEW t \in Timers, NEW c \in Codes,
         NEW p, Put(o, t, << >>, p), NEW e, Appended(d, WaitsOf(o[t], c), e), NEW oc, Once(o, d, oc)
  PROVE  Once(p, e, oc)
<1>3. o[t] \in Seq(Waits) BY DEF WaitsByTimer
<1>4. PICK n \in 0 .. Len(o[t]) : n = Len(o[t]) BY <1>3
<1>5. o[t] \in Seq(Waits) /\ n \in 0 .. Len(o[t]) BY <1>3
<1>6. SubSeq(o[t], n + 1, Len(o[t])) = << >> /\ SubSeq(o[t], 1, n) = o[t] BY <1>4, <1>5
<1>7. p = [o EXCEPT ![t] = SubSeq(o[t], n + 1, Len(o[t]))] BY <1>6 DEF Put
<1>8. Appended(d, WaitsOf(SubSeq(o[t], 1, n), c), e) BY <1>6
<1>9. p \in WaitsByTimer /\ e \in Seq(Completions) /\ Decides(o, p, d, e, t, n) BY <1>5, <1>7, <1>8, DecidesIs
<1> QED BY <1>5, <1>9, OnceDecided

LEMMA OnceTaken ==
  ASSUME NEW ex \in Expiries, NEW st \in ExpireStates, Exact(st.queue, ex), IsDue(st.queue),
         NEW oc, Once(st.queue.ops, st.ready, oc), NEW r, r = Expired(st)
  PROVE  Once(r.queue.ops, r.ready, oc)
<1>1. PICK t \in ExpiringIn(st.queue, ex) : Takes(st, r, ex, t) BY ExpiredTakes
<1>2. PICK o, p, d, e : o = st.queue.ops /\ p = r.queue.ops /\ d = st.ready /\ e = r.ready OBVIOUS
<1>3. o \in WaitsByTimer /\ d \in Seq(Completions) /\ t \in Timers /\ "success" \in Codes
  <2>1. st.queue \in Queues /\ st.ready \in Seq(Completions) BY DEF ExpireStates
  <2> QED BY <1>2, <2>1, QueueIs DEF WaitsByTimer, ExpiringIn, AwaitedIn, Codes
<1>4. Put(o, t, << >>, p) /\ Appended(d, WaitsOf(o[t], "success"), e) BY <1>1, <1>2 DEF Takes, Appended
<1>5. Once(p, e, oc) BY <1>2, <1>3, <1>4, OnceAllDecided
<1> QED BY <1>2, <1>5

LEMMA NotDueStays == ASSUME NEW st, ~ IsDue(st.queue) PROVE Expired(st) = st
BY DEF Expired

\* All that is due is taken.
LEMMA AllRun ==
  ASSUME now \in Times, NEW ex \in Expiries, NEW a \in ExpireStates, Exact(a.queue, ex), NEW r, r = Expire(a)
  PROVE  /\ r \in ExpireStates /\ RanSome(a.queue.ops, a.ready, ex, now, r)
         /\ \A oc : Once(a.queue.ops, a.ready, oc) => Once(r.queue.ops, r.ready, oc)
         /\ \A u \in ExpiringIn(r.queue, ex) : ~ (ex[u] <= now)
<1> DEFINE S == {st \in ExpireStates :
                   /\ Exact(st.queue, ex) /\ RanSome(a.queue.ops, a.ready, ex, now, st)
                   /\ \A oc : Once(a.queue.ops, a.ready, oc) => Once(st.queue.ops, st.ready, oc)}
<1>1. a \in S BY RanNone
<1>2. a.queue.ops \in WaitsByTimer /\ a.ready \in Seq(Completions)
  <2>1. a.queue \in Queues /\ a.ready \in Seq(Completions) BY DEF ExpireStates
  <2> QED BY <2>1, QueueIs DEF WaitsByTimer
<1>3. ASSUME NEW st \in S PROVE Expired(st) \in S
  <2>1. CASE ~ IsDue(st.queue) BY <2>1, NotDueStays
  <2>2. CASE IsDue(st.queue)
    <3>1. PICK x : x = Expired(st) OBVIOUS
    <3>2. x \in ExpireStates /\ Exact(x.queue, ex) BY <3>1, ExpiredStays
    <3>3. RanSome(a.queue.ops, a.ready, ex, now, x) BY <1>2, <2>2, <3>1, RanMore
    <3>4. ASSUME NEW oc, Once(a.queue.ops, a.ready, oc) PROVE Once(x.queue.ops, x.ready, oc)
      <4>1. Once(st.queue.ops, st.ready, oc) BY <3>4
      <4> QED BY <2>2, <3>1, <4>1, OnceTaken
    <3> QED BY <3>1, <3>2, <3>3, <3>4
  <2> QED BY <2>1, <2>2
<1>4. S \in SUBSET ExpireStates OBVIOUS
<1>5. r \in S /\ Expired(r) = r
  <2> HIDE DEF S
  <2> QED BY <1>1, <1>3, <1>4, ExpireLoop
<1>6. ~ IsDue(r.queue)
  <2>1. r \in ExpireStates /\ Exact(r.queue, ex) BY <1>5
  <2> QED BY <1>5, <2>1, ExpiredTakes
<1>7. ASSUME NEW u \in ExpiringIn(r.queue, ex), ex[u] <= now PROVE FALSE
  <2>1. r.queue \in Queues /\ Exact(r.queue, ex) BY <1>5 DEF ExpireStates
  <2>2. /\ r.queue.heap # << >> /\ ~ (r.queue.heap[1].at <= now)
        /\ r.queue.heap[1].at <= ex[u] /\ r.queue.heap[1].at \in Times
    BY <1>6, <2>1, ExactRoot DEF IsDue
  <2>3. ex[u] \in Times BY DEF ExpiringIn, AwaitedIn, Expiries
  <2> QED BY <1>7, <2>2, <2>3 DEF Times
<1> QED BY <1>5, <1>7

\* A sequence of all elements of a set, each once.
LEMMA SequenceOfSet ==
  ASSUME NEW n \in Nat, NEW S, NEW f \in [1 .. n -> S],
         \A i, j \in 1 .. n : i # j => f[i] # f[j], \A x \in S : \E i \in 1 .. n : f[i] = x
  PROVE  f \in Promise!SetToSeqs(S)
<1>1. f \in Bijection(1 .. n, S) BY DEF Bijection, Injection, IsInjective, Surjection
<1>2. Cardinality(S) = n BY <1>1, FS_CountingElements DEF ExistsBijection
<1>3. Promise!Cardinality(S) = Cardinality(S) BY DEF Promise!Cardinality, Cardinality
<1> QED BY <1>2, <1>3 DEF Promise!SetToSeqs

\* The waits of the timers s, one after the other.
LEMMA Flat ==
  ASSUME NEW o \in WaitsByTimer, NEW s \in Seq(Timers), NEW g, Joined(g, s, o)
  PROVE  Promise!FlattenSeq([i \in DOMAIN s |-> o[s[i]]]) = JoinedAll(g, s)
<1>1. PICK m \in Nat : m = Len(s) OBVIOUS
<1>2. PICK x : x = [i \in DOMAIN s |-> o[s[i]]] OBVIOUS
<1>3. DOMAIN s = 1 .. m BY <1>1
<1>4. x = [i \in 1 .. m |-> o[s[i]]] BY <1>2, <1>3
<1>5. Len(x) = m /\ x \in Seq(Seq(Waits))
  <2>1. \A i \in 1 .. m : o[s[i]] \in Seq(Waits)
    <3>1. \A i \in 1 .. m : s[i] \in Timers BY <1>1
    <3> QED BY <3>1 DEF WaitsByTimer
  <2>2. x \in [1 .. m -> Seq(Waits)] BY <1>4, <2>1
  <2>3. x \in Seq(Seq(Waits)) BY <2>2, SeqDef
  <2> QED BY <2>2, <2>3, LenProperties
<1>6. CASE m = 0
  <2>1. Promise!FlattenSeq(x) = x BY <1>5, <1>6 DEF Promise!FlattenSeq
  <2>2. x = << >> BY <1>5, <1>6
  <2> QED BY <1>1, <1>2, <1>6, <2>1, <2>2 DEF JoinedAll
<1>7. CASE m # 0
  <2> DEFINE F(f) == [i \in 1 .. Len(x) |-> IF i = 1 THEN x[i] ELSE f[i - 1] \o x[i]]
             h == CHOOSE f : f = F(f)
  <2>1. g = F(g)
    <3>1. g \in [1 .. m -> Seq(Waits)] /\ \A i \in 1 .. m : g[i] = IF i = 1 THEN o[s[i]] ELSE g[i - 1] \o o[s[i]]
      BY <1>1 DEF Joined
    <3>2. \A i \in 1 .. m : x[i] = o[s[i]] BY <1>4
    <3>3. \A i \in 1 .. m : g[i] = IF i = 1 THEN x[i] ELSE g[i - 1] \o x[i] BY <3>1, <3>2
    <3>4. g = [i \in 1 .. m |-> IF i = 1 THEN x[i] ELSE g[i - 1] \o x[i]] BY <3>1, <3>3
    <3> QED BY <1>5, <3>4
  <2>2. h = F(h) BY <2>1
  <2>3. Promise!FlattenSeq(x) = h[m] BY <1>5, <1>7 DEF Promise!FlattenSeq
  <2> HIDE DEF h
  <2>4. DOMAIN h = 1 .. m /\ DOMAIN g = 1 .. m BY <1>5, <2>1, <2>2
  <2>5. \A i \in 1 .. m : h[i] = IF i = 1 THEN x[i] ELSE h[i - 1] \o x[i] BY <1>5, <2>2
  <2>6. \A i \in 1 .. m : g[i] = IF i = 1 THEN x[i] ELSE g[i - 1] \o x[i]
    <3>1. PICK k : k = g OBVIOUS
    <3>2. k = F(k) BY <2>1, <3>1
    <3>3. \A i \in 1 .. m : k[i] = IF i = 1 THEN x[i] ELSE k[i - 1] \o x[i] BY <1>5, <3>2
    <3> QED BY <3>1, <3>3
  <2> HIDE DEF F
  <2>7. \A i \in 1 .. m : h[i] = g[i]
    <3> DEFINE B == {i \in 1 .. m : h[i] # g[i]}
    <3>1. SUFFICES ASSUME B # {} PROVE FALSE OBVIOUS
    <3>2. PICK k \in B : \A i \in B : k <= i
      <4>1. B \in SUBSET Nat OBVIOUS
      <4> HIDE DEF B
      <4> QED BY <3>1, <4>1, LeastNatural
    <3>3. k # 1 BY <2>5, <2>6
    <3>4. k - 1 \in 1 .. m /\ ~ (k <= k - 1) BY <3>3
    <3>5. h[k - 1] = g[k - 1] BY <3>2, <3>4
    <3> QED BY <2>5, <2>6, <3>3, <3>5
  <2>8. m \in 1 .. m BY <1>7
  <2>9. Promise!FlattenSeq(x) = g[m] BY <2>3, <2>7, <2>8
  <2> QED BY <1>1, <1>2, <1>7, <2>9 DEF JoinedAll
<1> QED BY <1>6, <1>7

\* Which timers have expired, for users.
LEMMA ExpiredSeen ==
  ASSUME Sound
  PROVE  /\ Promise!Expired = {t \in Timers : queue.ops[t] # << >> /\ expiry[t] <= now}
         /\ \A t \in Timers : Promise!WaitsOf(t) = queue.ops[t]
         /\ \A t \in Timers : queue.ops[t] # << >> => SeenTimers[t] = SeenTimer(expiry[t], queue.ops[t])
<1>1. /\ expiry \in Expiries /\ life \in Lives /\ queue.ops \in WaitsByTimer /\ AwaitedLive(queue, life)
  BY SoundTypes
<1>2. ASSUME NEW t \in Timers
      PROVE  /\ Promise!WaitsOf(t) = queue.ops[t]
             /\ queue.ops[t] # << >> => SeenTimers[t] = SeenTimer(expiry[t], queue.ops[t])
  <2>1. CASE life[t] = "none"
    <3>1. SeenTimers[t] = Null BY <1>1, <2>1, SeenIs, SeenNow
    <3>2. queue.ops[t] = << >> BY <1>1, <2>1 DEF AwaitedLive, AwaitedIn
    <3> QED BY <3>1, <3>2 DEF Promise!WaitsOf, Promise!Live
  <2>2. CASE life[t] = "live"
    <3>1. SeenTimers[t] = SeenTimer(expiry[t], queue.ops[t]) /\ SeenTimers[t] # Null
      BY <1>1, <2>2, SeenIs, SeenNow
    <3> QED BY <3>1 DEF Promise!WaitsOf, Promise!Live, SeenTimer
  <2> QED BY <1>1, <2>1, <2>2 DEF Lives
<1>3. ASSUME NEW t \in Timers, queue.ops[t] # << >> PROVE SeenTimers[t].expiry = expiry[t]
  <2>1. SeenTimers[t] = SeenTimer(expiry[t], queue.ops[t]) BY <1>2, <1>3
  <2>2. PICK x, a, b : x = SeenTimers[t] /\ a = expiry[t] /\ b = queue.ops[t] OBVIOUS
  <2>3. x = [expiry |-> a, waits |-> b] BY <2>1, <2>2 DEF SeenTimer
  <2> QED BY <2>2, <2>3
<1>4. Promise!Expired = {t \in Timers : queue.ops[t] # << >> /\ expiry[t] <= now}
  BY <1>2, <1>3 DEF Promise!Expired
<1> QED BY <1>2, <1>4

\* The step that the timers s take.
LEMMA ExpiresSeen ==
  ASSUME Sound, UNCHANGED <<now, life, expiry, outcome, phase>>,
         NEW s \in Seq(Timers), NEW g, NEW r \in ExpireStates, Ran(queue.ops, ready, expiry, now, r, s, g),
         queue' = r.queue, DecidedWaits = ready, DecidedWaits' = r.ready,
         \A u \in ExpiringIn(r.queue, expiry) : ~ (expiry[u] <= now)
  PROVE  Promise!Expire \/ UNCHANGED Promise!vars
<1>1. /\ expiry \in Expiries /\ life \in Lives /\ queue.ops \in WaitsByTimer /\ now \in Times
      /\ DecidedWaits \in Seq(Completions) /\ AwaitedLive(queue, life)
  BY SoundTypes
<1>2. queue'.ops \in WaitsByTimer
  <2>1. r.queue \in Queues BY DEF ExpireStates
  <2> QED BY <2>1, QueueIs DEF WaitsByTimer
<1>3. PICK E : E = Promise!Expired OBVIOUS
<1>4. \A t : t \in E <=> t \in Timers /\ queue.ops[t] # << >> /\ expiry[t] <= now BY <1>3, ExpiredSeen
<1>5. PICK m \in Nat : m = Len(s) OBVIOUS
<1>6. s \in [1 .. m -> Timers] /\ DOMAIN s = 1 .. m BY <1>5
<1>7. \A i \in 1 .. m : s[i] \in E /\ queue'.ops[s[i]] = << >>
  BY <1>4, <1>5, <1>6 DEF Ran
<1>8. \A t \in Timers : queue'.ops[t] = queue.ops[t] \/ \E i \in 1 .. m : s[i] = t
  BY <1>5 DEF Ran
<1>9. ASSUME NEW t \in E PROVE \E i \in 1 .. m : s[i] = t
  <2>1. SUFFICES ASSUME queue'.ops[t] = queue.ops[t] PROVE FALSE BY <1>4, <1>8
  <2>2. expiry[t] # Never
    <3>1. MaxTime \in Nat /\ now <= MaxTime /\ now \in Nat BY <1>1, ReactorAssumption DEF ReactorAssumption, Times
    <3> QED BY <1>4, <3>1 DEF Never
  <2>3. t \in ExpiringIn(r.queue, expiry) BY <1>4, <2>1, <2>2 DEF ExpiringIn, AwaitedIn
  <2> QED BY <1>4, <2>3
<1>10. DecidedWaits' = DecidedWaits \o WaitsOf(JoinedAll(g, s), "success") BY DEF Ran
<1>11. Up' = Up BY DEF Up
<1>12. CASE m = 0
  <2>1. queue'.ops = queue.ops
    <3>1. \A t \in Timers : queue'.ops[t] = queue.ops[t] BY <1>8, <1>12
    <3>2. PICK o, p : o = queue.ops /\ p = queue'.ops OBVIOUS
    <3>3. o \in [Timers -> Seq(Waits)] /\ p \in [Timers -> Seq(Waits)] /\ \A t \in Timers : p[t] = o[t]
      BY <1>1, <1>2, <3>1, <3>2 DEF WaitsByTimer
    <3>4. o = p BY <3>3
    <3> QED BY <3>2, <3>4
  <2>2. SeenTimers' = SeenTimers BY <2>1, SeenNow
  <2>3. DecidedWaits' = DecidedWaits
    <3>1. JoinedAll(g, s) = << >> BY <1>5, <1>12 DEF JoinedAll
    <3>2. WaitsOf(<< >>, "success") = << >>
      <4>1. PICK ws, cs : ws = << >> /\ cs = WaitsOf(ws, "success") OBVIOUS
      <4>2. ws \in Seq(Waits) /\ "success" \in Codes BY <4>1 DEF Codes
      <4>3. cs = << >> BY <4>1, <4>2, WaitsOfIs
      <4> QED BY <4>1, <4>3
    <3>3. DecidedWaits' = DecidedWaits \o << >> BY <1>10, <3>1, <3>2
    <3> QED BY <1>1, <3>3, ConcatEmptySeq
  <2> QED BY <1>11, <2>2, <2>3 DEF Promise!vars
<1>13. CASE m # 0
  <2>1. E # {}
    <3>1. 1 \in 1 .. m BY <1>13
    <3> QED BY <1>7, <3>1
  <2>2. s \in Promise!SetToSeqs(E)
    <3>1. s \in [1 .. m -> E] BY <1>6, <1>7
    <3>2. \A i, j \in 1 .. m : i # j => s[i] # s[j]
      <4>1. \A i, j \in 1 .. m : i < j => s[i] # s[j] BY <1>5 DEF Ran
      <4>2. \A i, j \in 1 .. m : i # j => i < j \/ j < i OBVIOUS
      <4> QED BY <4>1, <4>2
    <3> QED BY <1>9, <3>1, <3>2, SequenceOfSet
  <2>3. Promise!Earliest(s)
    <3>1. \A i \in 1 .. m : SeenTimers[s[i]].expiry = expiry[s[i]]
      <4> TAKE i \in 1 .. m
      <4>1. s[i] \in Timers /\ queue.ops[s[i]] # << >> BY <1>4, <1>7
      <4>2. SeenTimers[s[i]] = SeenTimer(expiry[s[i]], queue.ops[s[i]]) BY <4>1, ExpiredSeen
      <4> QED BY <4>2 DEF SeenTimer
    <3>2. \A i, j \in 1 .. m : i < j => expiry[s[i]] <= expiry[s[j]] BY <1>5 DEF Ran
    <3> QED BY <1>6, <3>1, <3>2 DEF Promise!Earliest
  <2>4. Promise!Decide(Promise!FlattenSeq([i \in DOMAIN s |-> Promise!WaitsOf(s[i])]), "success")
    <3>1. \A i \in DOMAIN s : Promise!WaitsOf(s[i]) = queue.ops[s[i]] BY <1>6, ExpiredSeen
    <3>2. [i \in DOMAIN s |-> Promise!WaitsOf(s[i])] = [i \in DOMAIN s |-> queue.ops[s[i]]] BY <3>1
    <3>3. Joined(g, s, queue.ops) BY DEF Ran
    <3>4. Promise!FlattenSeq([i \in DOMAIN s |-> queue.ops[s[i]]]) = JoinedAll(g, s) BY <1>1, <3>3, Flat
    <3>5. PICK x : x = JoinedAll(g, s) OBVIOUS
    <3>6. DecidedWaits' = DecidedWaits \o WaitsOf(x, "success") BY <1>10, <3>5
    <3>7. Promise!Decide(x, "success") BY <3>6 DEF Promise!Decide, Promise!Ended, WaitsOf
    <3>8. Promise!FlattenSeq([i \in DOMAIN s |-> Promise!WaitsOf(s[i])]) = x BY <3>2, <3>4, <3>5
    <3> QED BY <3>7, <3>8
  <2>5. SeenTimers' = [t \in Timers |-> IF t \in E THEN [SeenTimers[t] EXCEPT !.waits = << >>] ELSE SeenTimers[t]]
    <3>1. SeenTimers' = Seen(life, expiry, queue'.ops) BY SeenNow
    <3>2. ASSUME NEW t \in Timers
          PROVE  Seen(life, expiry, queue'.ops)[t]
                   = IF t \in E THEN [SeenTimers[t] EXCEPT !.waits = << >>] ELSE SeenTimers[t]
      <4>1. CASE t \in E
        <5>1. queue'.ops[t] = << >> BY <1>7, <1>9, <4>1
        <5>2. queue.ops[t] # << >> BY <1>4, <4>1
        <5>3. life[t] = "live" BY <1>1, <5>2 DEF AwaitedLive, AwaitedIn
        <5>4. Seen(life, expiry, queue'.ops)[t] = SeenTimer(expiry[t], queue'.ops[t]) BY <1>1, <1>2, <5>3, SeenIs
        <5>5. SeenTimers[t] = SeenTimer(expiry[t], queue.ops[t]) BY <5>2, ExpiredSeen
        <5>6. PICK x, a, b : x = SeenTimers[t] /\ a = expiry[t] /\ b = queue.ops[t] OBVIOUS
        <5>7. x = [expiry |-> a, waits |-> b] BY <5>5, <5>6 DEF SeenTimer
        <5>8. [x EXCEPT !.waits = << >>] = [expiry |-> a, waits |-> << >>] BY <5>7, TimerPut
        <5>9. Seen(life, expiry, queue'.ops)[t] = [expiry |-> a, waits |-> << >>] BY <5>1, <5>4, <5>6 DEF SeenTimer
        <5> QED BY <4>1, <5>6, <5>8, <5>9
      <4>2. CASE t \notin E
        <5>1. queue'.ops[t] = queue.ops[t] BY <1>7, <1>8, <4>2
        <5>2. Seen(life, expiry, queue'.ops)[t] = Seen(life, expiry, queue.ops)[t] BY <5>1 DEF Seen
        <5> QED BY <4>2, <5>2, SeenNow
      <4> QED BY <4>1, <4>2
    <3>3. PICK f : f = Seen(life, expiry, queue'.ops) OBVIOUS
    <3>4. DOMAIN f = Timers /\ f = [t \in Timers |-> f[t]] BY <3>3 DEF Seen
    <3> QED BY <3>1, <3>2, <3>3, <3>4
  <2> QED BY <1>3, <1>11, <2>1, <2>2, <2>3, <2>4, <2>5 DEF Promise!Expire
<1> QED BY <1>12, <1>13

LEMMA RunSeen ==
  ASSUME Sound, PlacedOnce, Run
  PROVE  (Promise!Expire \/ UNCHANGED Promise!vars) /\ PlacedOnce'
<1>1. /\ queue \in Queues /\ expiry \in Expiries /\ Exact(queue, expiry) /\ now \in Times
      /\ ready \in Seq(Completions) /\ ThreadTyped(ready, reactor, current, sleep)
  BY SoundTypes
<1>2. PICK a : a = [queue |-> queue, ready |-> ready] OBVIOUS
<1>3. PICK r : r = Expire(a) OBVIOUS
<1>4. /\ queue' = r.queue /\ CompleteOrSleep(r.queue, r.ready) /\ reactor = "run"
      /\ UNCHANGED <<now, life, expiry, phase, outcome, harm>>
  BY <1>2, <1>3 DEF Run
<1>5. a \in ExpireStates /\ a.queue = queue /\ a.ready = ready BY <1>1, <1>2 DEF ExpireStates
<1>6. /\ r \in ExpireStates /\ RanSome(queue.ops, ready, expiry, now, r)
      /\ \A oc : Once(queue.ops, ready, oc) => Once(r.queue.ops, r.ready, oc)
      /\ \A u \in ExpiringIn(r.queue, expiry) : ~ (expiry[u] <= now)
  BY <1>1, <1>3, <1>5, AllRun
<1>7. DecidedWaits = ready BY <1>1, <1>4, DecidedIs
<1>8. DecidedWaits' = r.ready
  <2>1. r.ready \in Seq(Completions) BY <1>6 DEF ExpireStates
  <2> QED BY <1>4, <2>1, CompletesDecided
<1>9. PICK s \in Seq(Timers) : \E g : Ran(queue.ops, ready, expiry, now, r, s, g) BY <1>6 DEF RanSome
<1>10. PICK g : Ran(queue.ops, ready, expiry, now, r, s, g) BY <1>9
<1>11. Promise!Expire \/ UNCHANGED Promise!vars
  BY <1>4, <1>6, <1>7, <1>8, <1>10, ExpiresSeen
<1>12. PlacedOnce'
  <2>1. Up' = Up BY <1>4 DEF Up
  <2>2. Once(queue.ops, ready, outcome) => Once(queue'.ops, DecidedWaits', outcome') BY <1>4, <1>6, <1>8
  <2> QED BY <1>4, <1>7, <2>1, <2>2 DEF PlacedOnce
<1> QED BY <1>11, <1>12

----------------------------------------------------------------------------
(* All steps.                                                              *)

LEMMA CancelsKeepPlaced ==
  ASSUME Sound, PlacedOnce, NEW t \in Timers, NEW n \in 0 .. Len(queue.ops[t]), CancelUpTo(t, n),
         UNCHANGED <<current, outcome, harm>>
  PROVE  PlacedOnce'
<1>1. queue' = Without(queue, t, n) /\ ready' = ready \o WaitsOf(Taken(queue, t, n), "canceled")
  BY DEF CancelUpTo
<1>2. Once(queue'.ops, DecidedWaits', outcome) BY <1>1, CancelsPlaced
<1> QED BY <1>2 DEF PlacedOnce

LEMMA CancelSeen ==
  ASSUME Sound, PlacedOnce, NEW t \in Timers, Cancel(t) \/ \E e \in Times \cup {Never} : ExpiresAt(t, e)
  PROVE  Promise!Cancel(t) /\ PlacedOnce'
<1>1. expiry \in Expiries /\ queue.ops \in WaitsByTimer BY SoundTypes
<1>2. /\ Up /\ life[t] = "live" /\ CancelUpTo(t, Len(queue.ops[t]))
      /\ UNCHANGED <<now, life, current, phase, outcome, harm>>
  BY DEF Cancel, ExpiresAt, MayUse, All, Up
<1>3. PICK e \in Times \cup {Never} : expiry' = [expiry EXCEPT ![t] = e]
  <2>1. CASE Cancel(t)
    <3>1. expiry' = expiry BY <2>1 DEF Cancel
    <3>2. expiry' = [expiry EXCEPT ![t] = expiry[t]] BY <1>1, <3>1 DEF Expiries
    <3>3. expiry[t] \in Times \cup {Never} BY <1>1 DEF Expiries
    <3> QED BY <3>2, <3>3
  <2>2. ASSUME NEW e \in Times \cup {Never}, ExpiresAt(t, e) PROVE expiry' = [expiry EXCEPT ![t] = e]
    BY <2>2 DEF ExpiresAt
  <2> QED BY <2>1, <2>2
<1>4. Promise!Cancel(t) BY <1>2, <1>3, CancelsSeen
<1>5. PlacedOnce'
  <2>1. PICK n : n = Len(queue.ops[t]) OBVIOUS
  <2>2. n \in 0 .. Len(queue.ops[t])
    <3>1. queue.ops[t] \in Seq(Waits) BY <1>1 DEF WaitsByTimer
    <3>2. Len(queue.ops[t]) \in Nat BY <3>1
    <3> QED BY <2>1, <3>2
  <2>3. CancelUpTo(t, n) BY <1>2, <2>1
  <2> QED BY <1>2, <2>2, <2>3, CancelsKeepPlaced
<1> QED BY <1>4, <1>5

LEMMA CancelOneKeepsPlaced ==
  ASSUME Sound, PlacedOnce, NEW t \in Timers, CancelOne(t)
  PROVE  PlacedOnce'
<1>1. queue.ops \in WaitsByTimer BY SoundTypes
<1>2. PICK n : n = IF Len(queue.ops[t]) = 0 THEN 0 ELSE 1 OBVIOUS
<1>3. n \in 0 .. Len(queue.ops[t])
  <2>1. queue.ops[t] \in Seq(Waits) BY <1>1 DEF WaitsByTimer
  <2>2. Len(queue.ops[t]) \in Nat BY <2>1
  <2> QED BY <1>2, <2>2
<1>4. Up /\ CancelUpTo(t, n) /\ UNCHANGED <<current, phase, outcome, harm>>
  BY <1>2 DEF CancelOne, MayUse, All, Up
<1> QED BY <1>3, <1>4, CancelsKeepPlaced

LEMMA StepIsDefined == ASSUME Next PROVE Defined /\ harm \subseteq harm'
<1>1. ASSUME NEW t \in Timers, NEW s \in Timers, MoveConstruct(t, s) \/ MoveAssign(t, s) PROVE Defined /\ harm \subseteq harm'
  BY <1>1 DEF MoveConstruct, MoveAssign, MayUse
<1>2. ASSUME NEW t \in Timers,
             \/ Construct(t) \/ Destroy(t) \/ Cancel(t) \/ CancelOne(t)
             \/ \E e \in Times \cup {Never} : ExpiresAt(t, e)
             \/ \E w \in Waits : Wait(t, w)
      PROVE  Defined /\ harm \subseteq harm'
  BY <1>2 DEF Construct, Destroy, Cancel, CancelOne, ExpiresAt, Wait, MayUse
<1>3. ASSUME Step \/ Spurious \/ Tick \/ Shutdown \/ Stop \/ Join PROVE Defined /\ harm \subseteq harm'
  BY <1>3 DEF Step, Run, Complete, Relock, TimeOut, Spurious, WakeUp, Ends, Tick, Shutdown, Stop, Join
<1> QED BY <1>1, <1>2, <1>3 DEF Next

LEMMA StepSeen ==
  ASSUME Sound, PlacedOnce, Next
  PROVE  (Promise!Next \/ UNCHANGED Promise!vars) /\ PlacedOnce'
<1>1. ASSUME NEW t \in Timers, Construct(t) PROVE Promise!Construct(t) /\ PlacedOnce'
  <2>1. Promise!Construct(t) /\ queue' = queue /\ DecidedWaits' = DecidedWaits BY <1>1, ConstructSeen
  <2>2. UNCHANGED <<phase, outcome, harm>> BY <1>1 DEF Construct
  <2> QED BY <2>1, <2>2 DEF PlacedOnce, Up
<1>2. ASSUME NEW t \in Timers, Destroy(t) PROVE Promise!Destroy(t) /\ PlacedOnce' BY <1>2, DestroySeen
<1>3. ASSUME NEW t \in Timers, Cancel(t) \/ \E e \in Times \cup {Never} : ExpiresAt(t, e)
      PROVE  Promise!Cancel(t) /\ PlacedOnce'
  BY <1>3, CancelSeen
<1>4. ASSUME NEW t \in Timers, CancelOne(t)
      PROVE  (Promise!CancelOne(t) \/ UNCHANGED Promise!vars) /\ PlacedOnce'
  BY <1>4, CancelOneSeen, CancelOneKeepsPlaced
<1>5. ASSUME NEW t \in Timers, NEW w \in Waits, Wait(t, w) PROVE Promise!Wait(t, w) /\ PlacedOnce'
  BY <1>5, WaitSeen
<1>6. ASSUME NEW t \in Timers, NEW s \in Timers, MoveConstruct(t, s) \/ MoveAssign(t, s)
      PROVE  Promise!Move(t, s) /\ PlacedOnce'
  BY <1>6, MoveConstructSeen, MoveAssignSeen
<1>7. ASSUME Step \/ Spurious PROVE (Promise!Next \/ UNCHANGED Promise!vars) /\ PlacedOnce'
  <2>1. CASE Run BY <2>1, RunSeen DEF Promise!Next
  <2>2. CASE Complete BY <2>2, CompleteSeen DEF Promise!Next
  <2>3. CASE Relock \/ WakeUp \/ Ends BY <2>3, UnseenSteps
  <2> QED BY <1>7, <2>1, <2>2, <2>3 DEF Step, TimeOut, Spurious
<1>8. ASSUME Tick PROVE (Promise!Next \/ UNCHANGED Promise!vars) /\ PlacedOnce' BY <1>8, TickSeen DEF Promise!Next
<1>9. ASSUME Shutdown PROVE Promise!Next /\ PlacedOnce' BY <1>9, ShutdownSeen DEF Promise!Next
<1>10. ASSUME Stop \/ Join PROVE (Promise!Next \/ UNCHANGED Promise!vars) /\ PlacedOnce' BY <1>10, UnseenSteps
<1>11. ASSUME NEW t \in Timers,
              \/ Promise!Construct(t) \/ Promise!Cancel(t) \/ Promise!CancelOne(t) \/ Promise!Destroy(t)
              \/ \E w \in Waits : Promise!Wait(t, w)
              \/ \E s \in Timers : Promise!Move(t, s)
       PROVE  Promise!Next
  BY <1>11 DEF Promise!Next
<1>12. CASE \E t \in Timers :
              \/ Construct(t) \/ Destroy(t) \/ Cancel(t) \/ CancelOne(t)
              \/ \E e \in Times \cup {Never} : ExpiresAt(t, e)
              \/ \E w \in Waits : Wait(t, w)
              \/ \E s \in Timers : MoveConstruct(t, s) \/ MoveAssign(t, s)
  BY <1>1, <1>2, <1>3, <1>4, <1>5, <1>6, <1>11, <1>12
<1>13. CASE Step \/ Spurious \/ Tick \/ Shutdown \/ Stop \/ Join BY <1>7, <1>8, <1>9, <1>10, <1>13
<1> QED BY <1>12, <1>13 DEF Next

LEMMA PlacedInit == Init => PlacedOnce
<1> SUFFICES ASSUME Init PROVE PlacedOnce OBVIOUS
<1>1. /\ \A t \in Timers : queue.ops[t] = << >>
      /\ DecidedWaits = << >> /\ \A w \in Waits : outcome[w] = "unused"
  BY DEF Init, DecidedWaits
<1>2. Len(<< >>) = 0 /\ 1 .. 0 = {} OBVIOUS
<1>3. \A w : ~ InSome(queue.ops, w) BY <1>1, <1>2 DEF InSome
<1>4. \A w : ~ InList(DecidedWaits, w) BY <1>1, <1>2 DEF InList
<1> QED BY <1>1, <1>2, <1>3, <1>4 DEF PlacedOnce, Once

LEMMA PlacedNext == ReactorInv /\ PlacedOnce /\ [Next]_vars => PlacedOnce'
<1> SUFFICES ASSUME ReactorInv, PlacedOnce, [Next]_vars PROVE PlacedOnce' OBVIOUS
<1>1. CASE UNCHANGED vars BY <1>1 DEF vars, PlacedOnce, DecidedWaits, Up
<1>2. CASE Next
  <2>1. Defined /\ harm \subseteq harm' BY <1>2, StepIsDefined
  <2>2. CASE harm # {} BY <2>1, <2>2 DEF PlacedOnce
  <2>3. CASE harm = {} BY <1>2, <2>1, <2>3, StepSeen DEF Sound
  <2> QED BY <2>2, <2>3
<1> QED BY <1>1, <1>2

LEMMA WaitsArePlacedOnce == Spec => []PlacedOnce
BY ReactorIsInvariant, PlacedInit, PlacedNext, PTL DEF Spec

LEMMA PromiseStarts == Init => Promise!Init
<1> SUFFICES ASSUME Init PROVE Promise!Init OBVIOUS
<1>1. SeenTimers = [t \in Timers |-> Null] BY DEF Init, SeenTimers
<1>2. DecidedWaits = << >> BY DEF Init, DecidedWaits
<1> QED BY <1>1, <1>2 DEF Init, Promise!Init, Up

\* To its users every timer is an expiry and the waits on it: how a wait ends is
\* decided once, with success by the thread when its timer has expired, the waits of
\* the earliest timers first, and with canceled by a cancel, another expiry, an
\* assignment or the end of its timer before that; and what was decided first is
\* told first, until a move does harm (_Get_ready_timers, _Cancel_timer,
\* _Move_timer, _Complete, _Shutdown_service).
THEOREM TimersKeepPromise == Spec => ImplementsPendingWaits
<1>1. ReactorInv /\ PlacedOnce /\ [Next]_vars => [Promise!Next \/ Harmed']_(Promise!vars)
  <2> SUFFICES ASSUME ReactorInv, PlacedOnce, [Next]_vars PROVE [Promise!Next \/ Harmed']_(Promise!vars) OBVIOUS
  <2>1. CASE UNCHANGED vars BY <2>1 DEF vars, Promise!vars, SeenTimers, DecidedWaits, Up
  <2>2. CASE Next
    <3>1. Defined /\ harm \subseteq harm' BY <2>2, StepIsDefined
    <3>2. CASE harm # {} BY <3>1, <3>2 DEF Harmed
    <3>3. CASE harm = {}
      <4>1. Promise!Next \/ UNCHANGED Promise!vars BY <2>2, <3>1, <3>3, StepSeen DEF Sound
      <4> QED BY <4>1
    <3> QED BY <3>2, <3>3
  <2> QED BY <2>1, <2>2
<1> QED BY <1>1, PromiseStarts, ReactorIsInvariant, WaitsArePlacedOnce, PTL DEF Spec, ImplementsPendingWaits

\* The ways a wait has ended.
Over == {"destroyed"} \cup Codes

\* How the outcome of a wait may change.
EndsOnce(oc, oz) ==
  /\ oc \in Over => oz = oc
  /\ oz \in Over => oc # "unused"
  /\ oc = "waiting" => oz # "unused"

WaitsEndOnce == [][harm = {} => \A w \in Waits : EndsOnce(outcome[w], outcome'[w])]_vars

LEMMA OutcomesStay ==
  ASSUME Sound, PlacedOnce, [Next]_vars, NEW w \in Waits
  PROVE  EndsOnce(outcome[w], outcome'[w])
<1>1. outcome \in Outcomes /\ DecidedWaits \in Seq(Completions) BY SoundTypes DEF Outcomes
<1>2. outcome[w] \in {"unused", "waiting", "destroyed"} \cup Codes BY <1>1 DEF Outcomes
<1>3. CASE outcome' = outcome BY <1>2, <1>3 DEF EndsOnce, Over, Codes
<1>4. ASSUME NEW t \in Timers, NEW v \in Waits, Promise!Wait(t, v) PROVE EndsOnce(outcome[w], outcome'[w])
  <2>1. outcome' = [outcome EXCEPT ![v] = "waiting"] /\ outcome[v] = "unused" BY <1>4 DEF Promise!Wait
  <2>2. CASE w = v
    <3>1. outcome'[w] = "waiting" /\ outcome[w] = "unused" BY <1>1, <2>1, <2>2 DEF Outcomes
    <3> QED BY <3>1 DEF EndsOnce, Over, Codes
  <2>3. CASE w # v
    <3>1. outcome'[w] = outcome[w] BY <1>1, <2>1, <2>3 DEF Outcomes
    <3> QED BY <1>2, <3>1 DEF EndsOnce, Over, Codes
  <2> QED BY <2>2, <2>3
<1>5. CASE Promise!Tell
  <2>1. DecidedWaits # << >> /\ outcome' = [outcome EXCEPT ![Head(DecidedWaits).wait] = Head(DecidedWaits).code]
    BY <1>5 DEF Promise!Tell
  <2>2. PICK c : c = Head(DecidedWaits) OBVIOUS
  <2>3. c \in Completions BY <1>1, <2>1, <2>2, HeadTailProperties
  <2>4. c.wait \in Waits /\ c.code \in Codes BY <2>3 DEF Completions
  <2>5. outcome[c.wait] = "waiting"
    <3>1. Once(queue.ops, DecidedWaits, outcome) BY DEF PlacedOnce, Sound
    <3>2. InList(DecidedWaits, c.wait) BY <1>1, <2>1, <2>2, HeadOnce
    <3> QED BY <2>4, <3>1, <3>2 DEF Once
  <2>6. outcome'[w] = IF w = c.wait THEN c.code ELSE outcome[w] BY <1>1, <2>1, <2>2 DEF Outcomes
  <2> QED BY <1>2, <2>4, <2>5, <2>6 DEF EndsOnce, Over, Codes
<1>6. CASE Promise!Abandon
  <2>1. outcome'[w] = outcome[w] \/ (outcome[w] = "waiting" /\ outcome'[w] = "destroyed")
    BY <1>6 DEF Promise!Abandon
  <2> QED BY <1>2, <2>1 DEF EndsOnce, Over, Codes
<1>7. CASE Promise!Next
  <2>1. ASSUME NEW t \in Timers,
               \/ Promise!Construct(t) \/ Promise!Cancel(t) \/ Promise!CancelOne(t) \/ Promise!Destroy(t)
               \/ \E s \in Timers : Promise!Move(t, s)
        PROVE  outcome' = outcome
    BY <2>1 DEF Promise!Construct, Promise!Cancel, Promise!CancelOne, Promise!Destroy, Promise!Move
  <2>2. ASSUME Promise!Expire \/ Promise!Tick PROVE outcome' = outcome BY <2>2 DEF Promise!Expire, Promise!Tick
  <2> QED BY <1>3, <1>4, <1>5, <1>6, <1>7, <2>1, <2>2 DEF Promise!Next
<1>8. CASE UNCHANGED Promise!vars BY <1>3, <1>8 DEF Promise!vars
<1>9. CASE UNCHANGED vars BY <1>3, <1>9 DEF vars
<1> QED BY <1>7, <1>8, <1>9, StepSeen

\* A wait ends once: what was begun is told of success or of a cancel, or is destroyed
\* with the context, and nothing happens to it after that, in whatever state a cancel,
\* a move or the end of the context found it (_Complete, _Destroy, _Shutdown_service).
THEOREM AWaitEndsOnce == Spec => WaitsEndOnce
<1>1. ReactorInv /\ PlacedOnce /\ [Next]_vars
        => [harm = {} => \A w \in Waits : EndsOnce(outcome[w], outcome'[w])]_vars
  <2> SUFFICES ASSUME ReactorInv, PlacedOnce, [Next]_vars, ~ UNCHANGED vars, harm = {}
               PROVE  \A w \in Waits : EndsOnce(outcome[w], outcome'[w])
    OBVIOUS
  <2>1. Sound BY StepIsDefined DEF Sound
  <2> QED BY <2>1, OutcomesStay
<1> QED BY <1>1, ReactorIsInvariant, WaitsArePlacedOnce, PTL DEF Spec, WaitsEndOnce
=============================================================================
