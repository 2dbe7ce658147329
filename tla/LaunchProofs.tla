----------------------------- MODULE LaunchProofs -----------------------------
(***************************************************************************)
(* What launches functions on executors, for any number of functions,      *)
(* threads and operations.  The functions of a chain have a loop to run in,*)
(* and its outcome is told once, whatever executors they have.  The tail   *)
(* of copost, codispatch and codefer is deleted once, by the last of its   *)
(* heads, with a counter of any width that can count them; and until a tail*)
(* is called without all its values, the calls are a fork and a join.      *)
(* Coroutines, of either kind, are entered by one thread at a time and go  *)
(* on once per answer.                                                     *)
(***************************************************************************)
EXTENDS InvokerChain, Coinvoker, YieldContext, AwaitContext,
        SequenceTheorems, FiniteSetTheorems, WellFoundedInduction, TLAPS

----------------------------------------------------------------------------
(* Chains of functions.                                                    *)

ChainFrames == [stage : Nat, catch : BOOLEAN, phase : {"call", "more", "inside", "leave"}]

\* What the chain is, which no step changes.
ChainShape ==
  /\ own \in Seq(Loops \cup {"system", "promise", "inherit"}) /\ Length > 0
  /\ \A k \in Stages : own[k] = "promise" => k = Length /\ future # "none"
  /\ kind \in [Stages -> {"plain", "passing"}] /\ kind[Length] = "plain"
  /\ cont \in [Stages -> {"none", "function", "client", "gone"}]
  /\ passed \subseteq Stages /\ held \subseteq Stages /\ up \subseteq Loops
  /\ launched \in BOOLEAN

FramesTyped == stack \in [Threads -> Seq(ChainFrames)]

\* Frames by thread and position.
Depths(t) == 1 .. Len(stack[t])

\* A frame's phase and what is done with the continuation it was given.
FrameShape ==
  \A t \in Threads : \A i \in Depths(t) :
    LET f == stack[t][i]
    IN  /\ f.stage \in 0 .. Length
        /\ f.phase = "call" => f.stage > 0
        /\ f.phase = "more" => f.stage < Length
        /\ f.phase = "inside" => f.stage \in Stages /\ cont[f.stage] # "none"
        /\ f.phase # "inside" /\ f.stage \in Stages => cont[f.stage] = "none"
        /\ f.catch => future # "none"

OneFrame ==
  \A t, u \in Threads : \A i \in Depths(t), j \in Depths(u) :
    stack[t][i].stage = stack[u][j].stage => t = u /\ i = j

HasFrame(k) == \E t \in Threads : \E i \in Depths(t) : stack[t][i].stage = k

ItemShape ==
  /\ item.on \in Threads \cup {"nowhere"} /\ item.catch \in BOOLEAN
  /\ item.on = "nowhere" => item = Nowhere
  /\ item.on # "nowhere" =>
       /\ item.stage \in 0 .. Length /\ ~HasFrame(item.stage)
       /\ item.stage \in Stages => cont[item.stage] = "none"
       /\ item.catch => future # "none"

ContShape ==
  /\ \A k \in Stages : cont[k] # "none" => k < Length
  /\ \A k \in Stages : cont[k] = "function" => HasFrame(k)
  /\ \A k \in passed : cont[k] # "none"

\* The chain has come to stage k, and has, or may have, to go on from there.
Touched(k) ==
  \/ HasFrame(k)
  \/ item.on # "nowhere" /\ item.stage = k
  \/ k \in Stages /\ cont[k] # "none"
Open(k) ==
  \/ \E t \in Threads : \E i \in Depths(t) :
       stack[t][i].stage = k /\ stack[t][i].phase \in {"call", "more"}
  \/ item.on # "nowhere" /\ item.stage = k
  \/ k \in Stages /\ cont[k] \in {"function", "client"} /\ k \notin passed

\* It goes on from the last stage it has come to, and from one only; what is
\* to come after that is held.
Frontier ==
  \A k \in 0 .. Length : Open(k) =>
    /\ \A j \in 0 .. Length : Touched(j) => j <= k
    /\ k + 1 .. Length \subseteq held

\* Nothing comes past a continuation that has not been called.
Beyond ==
  \A k \in Stages : cont[k] # "none" /\ k \notin passed =>
    \A j \in 0 .. Length : Touched(j) => j <= k

NotBegun ==
  ~launched =>
    /\ item = Nowhere /\ held = {} /\ passed = {} /\ up = Loops
    /\ \A t \in Threads : stack[t] = <<>>
    /\ \A k \in Stages : cont[k] = "none"
    /\ future \in {"none", "pending"}

\* Until a continuation has been called the promise is settled by the last that
\* happens.
LastSettles ==
  passed = {} =>
    /\ future # "error"
    /\ future \notin {"none", "pending"} =>
         item.on = "nowhere" /\ \A t \in Threads : \A i \in Depths(t) : stack[t][i].phase = "leave"

ChainInv ==
  /\ ChainShape /\ FramesTyped /\ FrameShape /\ OneFrame /\ ItemShape /\ ContShape
  /\ Frontier /\ Beyond /\ NotBegun /\ LastSettles /\ NeverStranded

LEMMA InvImpliesSound == ChainInv => ChainSound
BY DEF ChainInv, ChainSound, LastSettles, SettledOnce

----------------------------------------------------------------------------
(* Stacks.                                                                 *)

\* A set of naturals has a least.
LEMMA LeastNatural == ASSUME NEW S \in SUBSET Nat, S # {} PROVE \E m \in S : \A k \in S : m <= k
<1> DEFINE R == {p \in Nat \X Nat : p[1] < p[2]}
<1>1. IsWellFoundedOn(R, Nat) BY NatLessThanWellFounded DEF OpToRel
<1>2. \E x \in S : \A y \in S : ~ (<<y, x>> \in R)
  <2> HIDE DEF R
  <2> QED BY <1>1, WFMin
<1>3. PICK x \in S : \A y \in S : ~ (<<y, x>> \in R) BY <1>2
<1>4. \A y \in S : ~ (y < x) BY <1>3
<1> QED BY <1>4

\* One that is bounded has a greatest.
LEMMA GreatestIn ==
  ASSUME NEW n \in Nat, NEW S \in SUBSET (1 .. n), S # {}
  PROVE  \E m \in S : \A k \in S : k <= m
<1> DEFINE T == {n - k : k \in S}
<1>0. \A k \in S : k \in Nat /\ k <= n /\ n - k \in Nat OBVIOUS
<1>1. T \in SUBSET Nat /\ T # {} BY <1>0
<1>2. PICK m \in T : \A k \in T : m <= k
  <2> HIDE DEF T
  <2> QED BY <1>1, LeastNatural
<1>3. PICK h \in S : m = n - h BY <1>2
<1>4. \A k \in S : n - h <= n - k BY <1>2, <1>3
<1> QED BY <1>3, <1>4

LEMMA StagesAre ==
  ASSUME ChainShape
  PROVE  Length \in Nat \ {0} /\ Stages = 1 .. Length
BY DEF ChainShape, Length, Stages

LEMMA StackIs ==
  ASSUME FramesTyped, NEW t \in Threads
  PROVE  /\ stack[t] \in Seq(ChainFrames) /\ Len(stack[t]) \in Nat
         /\ \A i \in Depths(t) : stack[t][i] \in ChainFrames
         /\ Running(t) <=> Len(stack[t]) > 0
         /\ Running(t) => Len(stack[t]) \in Depths(t) /\ Top(t) \in ChainFrames
<1>1. stack[t] \in Seq(ChainFrames) BY DEF FramesTyped
<1>2. Len(stack[t]) \in Nat /\ \A i \in Depths(t) : stack[t][i] \in ChainFrames BY <1>1 DEF Depths
<1>3. Running(t) <=> Len(stack[t]) > 0 BY <1>1, <1>2 DEF Running
<1>4. ASSUME Running(t) PROVE Len(stack[t]) \in Depths(t) /\ Top(t) \in ChainFrames
  BY <1>2, <1>3, <1>4 DEF Depths, Top
<1> QED BY <1>1, <1>2, <1>3, <1>4

LEMMA UnderIs ==
  ASSUME FramesTyped, NEW t \in Threads, NEW n \in 0 .. Len(stack[t])
  PROVE  /\ SubSeq(stack[t], 1, n) \in Seq(ChainFrames) /\ Len(SubSeq(stack[t], 1, n)) = n
         /\ \A i \in 1 .. n : SubSeq(stack[t], 1, n)[i] = stack[t][i]
<1>1. stack[t] \in Seq(ChainFrames) /\ Len(stack[t]) \in Nat BY StackIs
<1> QED BY <1>1

LEMMA PhaseIs ==
  ASSUME FramesTyped, NEW t \in Threads, Running(t), NEW p \in {"call", "more", "inside", "leave"}
  PROVE  /\ Phase(t, p) \in Seq(ChainFrames) /\ Len(Phase(t, p)) = Len(stack[t])
         /\ \A i \in Depths(t) :
              Phase(t, p)[i] = IF i = Len(stack[t]) THEN [Top(t) EXCEPT !.phase = p] ELSE stack[t][i]
<1>1. /\ stack[t] \in Seq(ChainFrames) /\ Len(stack[t]) \in Nat /\ Len(stack[t]) > 0
      /\ Top(t) \in ChainFrames
  BY StackIs
<1> DEFINE n == Len(stack[t]) - 1
<1>2. /\ Under(t) \in Seq(ChainFrames) /\ Len(Under(t)) = n
      /\ \A i \in 1 .. n : Under(t)[i] = stack[t][i]
  BY <1>1, UnderIs DEF Under
<1>3. [Top(t) EXCEPT !.phase = p] \in ChainFrames BY <1>1 DEF ChainFrames
<1>4. /\ Phase(t, p) \in Seq(ChainFrames) /\ Len(Phase(t, p)) = n + 1
      /\ \A i \in 1 .. n : Phase(t, p)[i] = Under(t)[i]
      /\ Phase(t, p)[n + 1] = [Top(t) EXCEPT !.phase = p]
  <2> HIDE DEF n
  <2>1. n \in Nat BY <1>1 DEF n
  <2> QED BY <1>2, <1>3, <2>1 DEF Phase
<1> QED BY <1>1, <1>2, <1>4 DEF Depths
----------------------------------------------------------------------------
(* A function is handed over.                                              *)

\* The stack of t becomes s, and then the chain goes on with stage k: nothing
\* else is open.
Ready(t, s, k) ==
  /\ s \in Seq(ChainFrames) /\ Len(s) = Len(stack[t])
  /\ \A i \in Depths(t) :
       /\ s[i].stage = stack[t][i].stage /\ s[i].catch = stack[t][i].catch
       /\ s[i].phase \notin {"call", "more"}
       /\ s[i].phase = stack[t][i].phase \/ (s[i].phase = "leave" /\ stack[t][i].phase = "more")
  /\ \A u \in Threads \ {t} : \A i \in Depths(u) : stack[u][i].phase \notin {"call", "more"}
  /\ \A j \in 0 .. Length : HasFrame(j) => j < k
  /\ \A m \in Stages : cont[m] # "none" => m < k /\ m \in passed'
  /\ passed \subseteq passed' /\ passed' \subseteq Stages /\ \A m \in passed' : cont[m] # "none"
  /\ held' \subseteq Stages /\ k + 1 .. Length \subseteq held'
  /\ held' \subseteq held \/ up = Loops
  /\ passed' = {} => future \in {"none", "pending"}
  /\ launched' /\ launched' \in BOOLEAN
  /\ UNCHANGED <<own, kind, cont, up, future>>

LEMMA StagesStay ==
  ASSUME UNCHANGED own
  PROVE  Stages' = Stages /\ Length' = Length /\ \A k : ExecutorOf(k)' = ExecutorOf(k)
BY DEF Stages, Length, ExecutorOf

\* What does not depend on how it is handed over.
LEMMA ReadyKeeps ==
  ASSUME ChainInv, NEW t \in Threads, NEW s, NEW k \in 0 .. Length, Ready(t, s, k)
  PROVE  /\ ChainShape' /\ NotBegun'
         /\ \A h \in held' : ExecutorOf(h)' \in Loops => ExecutorOf(h)' \in up'
         /\ passed' = {} => future' \notin {"error", "value", "exception"}
         /\ \A m \in Stages : cont'[m] = cont[m]
         /\ \A m \in Stages : cont[m] # "none" => m < Length
<1>1. Stages' = Stages /\ Length' = Length /\ \A h : ExecutorOf(h)' = ExecutorOf(h)
  BY StagesStay DEF Ready
<1>2. ChainShape' BY <1>1 DEF Ready, ChainInv, ChainShape
<1>3. NotBegun' BY DEF Ready, NotBegun
<1>4. \A h \in held' : ExecutorOf(h)' \in Loops => ExecutorOf(h)' \in up'
  BY <1>1 DEF Ready, ChainInv, NeverStranded
<1>5. passed' = {} => future' \notin {"error", "value", "exception"} BY DEF Ready
<1>6. \A m \in Stages : cont'[m] = cont[m] /\ (cont[m] # "none" => m < Length)
  BY DEF Ready, ChainInv, ContShape
<1> QED BY <1>2, <1>3, <1>4, <1>5, <1>6

LEMMA FramePushed ==
  ASSUME ChainInv, NEW t \in Threads, NEW s, NEW k \in 0 .. Length, Ready(t, s, k),
         NEW f \in ChainFrames, f.stage = k, f.phase = IF k = 0 THEN "more" ELSE "call",
         f.catch => future # "none",
         item' = Nowhere, stack' = [stack EXCEPT ![t] = Append(s, f)]
  PROVE  ChainInv'
<1> DEFINE n == Len(stack[t])
<1>0. n \in Nat /\ Length \in Nat \ {0} /\ Stages = 1 .. Length /\ Stages' = Stages /\ Length' = Length
  BY StackIs, StagesAre, StagesStay DEF ChainInv, Ready
<1>1. /\ ChainShape' /\ NotBegun'
      /\ \A h \in held' : ExecutorOf(h)' \in Loops => ExecutorOf(h)' \in up'
      /\ passed' = {} => future' \notin {"error", "value", "exception"}
      /\ \A m \in Stages : cont'[m] = cont[m]
      /\ \A m \in Stages : cont[m] # "none" => m < Length
  BY ReadyKeeps
<1>2. /\ Append(s, f) \in Seq(ChainFrames) /\ Len(Append(s, f)) = n + 1
      /\ \A i \in 1 .. n : Append(s, f)[i] = s[i]
      /\ Append(s, f)[n + 1] = f
  BY AppendProperties DEF Ready
<1>3. FramesTyped' BY <1>2 DEF FramesTyped, ChainInv
<1>4. /\ Depths(t)' = 1 .. n + 1 /\ Depths(t) = 1 .. n
      /\ \A i \in Depths(t) : stack'[t][i] = s[i]
      /\ stack'[t][n + 1] = f
      /\ \A u \in Threads : u # t => Depths(u)' = Depths(u) /\ stack'[u] = stack[u]
  BY <1>2 DEF Depths, ChainInv, FramesTyped
<1>5. item'.on = "nowhere" BY DEF Nowhere
<1>6. \A j : HasFrame(j)' <=> HasFrame(j) \/ j = k
  <2>1. HasFrame(k)'
    <3>1. n + 1 \in Depths(t)' /\ stack'[t][n + 1].stage = k BY <1>0, <1>4 DEF Ready
    <3> QED BY <3>1 DEF HasFrame
  <2>2. ASSUME NEW j, HasFrame(j) PROVE HasFrame(j)'
    <3>0. PICK u \in Threads : \E i \in Depths(u) : stack[u][i].stage = j BY <2>2 DEF HasFrame
    <3>1. PICK i \in Depths(u) : stack[u][i].stage = j BY <3>0
    <3>2. i \in Depths(u)' BY <1>0, <1>4
    <3>3. stack'[u][i].stage = j
      <4>1. CASE u # t BY <1>4, <3>1, <4>1
      <4>2. CASE u = t
        <5>1. stack'[t][i] = s[i] BY <1>4, <4>2
        <5>2. s[i].stage = stack[t][i].stage BY <4>2 DEF Ready
        <5> QED BY <3>1, <4>2, <5>1, <5>2
      <4> QED BY <4>1, <4>2
    <3> QED BY <3>2, <3>3 DEF HasFrame
  <2>3. ASSUME NEW j, HasFrame(j)' PROVE HasFrame(j) \/ j = k
    <3>0. PICK u \in Threads : \E i \in Depths(u)' : stack'[u][i].stage = j BY <2>3 DEF HasFrame
    <3>1. PICK i \in Depths(u)' : stack'[u][i].stage = j BY <3>0
    <3>2. CASE u # t BY <1>4, <3>1, <3>2 DEF HasFrame
    <3>3. CASE u = t /\ i \in Depths(t) BY <1>4, <3>1, <3>3 DEF HasFrame, Ready
    <3>4. CASE u = t /\ i = n + 1 BY <1>4, <3>1, <3>4 DEF Ready
    <3> QED BY <1>0, <1>4, <3>1, <3>2, <3>3, <3>4
  <2> QED BY <2>1, <2>2, <2>3
<1>7. \A j \in 0 .. Length : HasFrame(j)' => j <= k BY <1>6 DEF Ready
<1>8. \A j \in 0 .. Length : Touched(j)' => j <= k
  BY <1>0, <1>1, <1>5, <1>7 DEF Touched, Ready
<1>9. \A j \in 0 .. Length : Open(j)' => j = k
  <2>1. \A u \in Threads : \A i \in Depths(u)' :
          stack'[u][i].phase \in {"call", "more"} => stack'[u][i].stage = k
    BY <1>0, <1>4 DEF Ready
  <2> QED BY <1>0, <1>1, <1>5, <2>1 DEF Open, Ready
<1>10. FrameShape'
  <2>1. ASSUME NEW u \in Threads, NEW i \in Depths(u)', u # t \/ i # n + 1
        PROVE  /\ i \in Depths(u) /\ stack'[u][i].stage = stack[u][i].stage
               /\ stack'[u][i].catch = stack[u][i].catch
               /\ \/ stack'[u][i].phase = stack[u][i].phase
                  \/ stack'[u][i].phase = "leave" /\ stack[u][i].phase = "more"
    BY <1>0, <1>4, <2>1 DEF Ready
  <2>2. k \in Stages => cont[k] = "none" BY DEF Ready
  <2>3. UNCHANGED future BY DEF Ready
  <2>4. ASSUME NEW u \in Threads, NEW i \in Depths(u)'
        PROVE  LET g == stack'[u][i]
               IN  /\ g.stage \in 0 .. Length
                   /\ g.phase = "call" => g.stage > 0
                   /\ g.phase = "more" => g.stage < Length
                   /\ g.phase = "inside" => g.stage \in Stages /\ cont'[g.stage] # "none"
                   /\ g.phase # "inside" /\ g.stage \in Stages => cont'[g.stage] = "none"
                   /\ g.catch => future' # "none"
    <3>1. CASE u = t /\ i = n + 1
      <4>1. stack'[u][i] = f BY <1>4, <3>1
      <4>2. f.stage \in 0 .. Length /\ (f.phase = "call" => f.stage > 0) /\ f.phase # "inside"
            /\ (f.phase = "more" => f.stage < Length) /\ (f.catch => future' # "none")
        BY <1>0, <2>3
      <4>3. f.stage \in Stages => cont'[f.stage] = "none" BY <1>1, <2>2
      <4> QED BY <4>1, <4>2, <4>3
    <3>2. CASE u # t \/ i # n + 1
      <4>1. /\ stack[u][i].stage \in 0 .. Length
            /\ stack[u][i].phase = "call" => stack[u][i].stage > 0
            /\ stack[u][i].phase = "more" => stack[u][i].stage < Length
            /\ stack[u][i].phase = "inside" =>
                 stack[u][i].stage \in Stages /\ cont[stack[u][i].stage] # "none"
            /\ stack[u][i].phase # "inside" /\ stack[u][i].stage \in Stages =>
                 cont[stack[u][i].stage] = "none"
            /\ stack[u][i].catch => future # "none"
        BY <2>1, <3>2 DEF ChainInv, FrameShape
      <4>2. /\ i \in Depths(u) /\ stack'[u][i].stage = stack[u][i].stage
            /\ stack'[u][i].catch = stack[u][i].catch
            /\ \/ stack'[u][i].phase = stack[u][i].phase
               \/ stack'[u][i].phase = "leave" /\ stack[u][i].phase = "more"
        BY <2>1, <3>2
      <4>3. stack[u][i].stage \in Stages => cont'[stack[u][i].stage] = cont[stack[u][i].stage]
        BY <1>1
      <4>4. stack[u][i].catch => future' # "none" BY <2>3, <4>1
      <4>5. CASE stack'[u][i].phase = stack[u][i].phase
        <5> DEFINE p == stack[u][i].phase
                   m == stack[u][i].stage
        <5>1. m \in 0 .. Length /\ (p = "call" => m > 0) /\ (p = "more" => m < Length) BY <4>1
        <5>2. p = "inside" => m \in Stages /\ cont'[m] # "none" BY <4>1, <4>3
        <5>3. p # "inside" /\ m \in Stages => cont'[m] = "none" BY <4>1, <4>3
        <5> QED BY <4>2, <4>4, <4>5, <5>1, <5>2, <5>3
      <4>6. CASE stack'[u][i].phase = "leave" /\ stack[u][i].phase = "more"
        BY <4>1, <4>2, <4>3, <4>4, <4>6
      <4> QED BY <4>2, <4>5, <4>6
    <3> QED BY <3>1, <3>2
  <2> QED BY <1>0, <2>4 DEF FrameShape
<1>11. OneFrame'
  <2>1. ASSUME NEW u \in Threads, NEW i \in Depths(u)'
        PROVE  \/ u = t /\ i = n + 1 /\ stack'[u][i].stage = k
               \/ i \in Depths(u) /\ stack'[u][i].stage = stack[u][i].stage /\ stack[u][i].stage # k
    <3>1. CASE u = t /\ i = n + 1 BY <1>4, <3>1
    <3>2. CASE u # t \/ i # n + 1
      <4>1. i \in Depths(u) /\ stack'[u][i].stage = stack[u][i].stage
        BY <1>0, <1>4, <3>2 DEF Ready
      <4>2. HasFrame(stack[u][i].stage) /\ stack[u][i].stage \in 0 .. Length
        BY <4>1 DEF HasFrame, ChainInv, FrameShape
      <4>3. \A j \in 0 .. Length : HasFrame(j) => j < k BY DEF Ready
      <4>4. stack[u][i].stage < k BY <4>2, <4>3
      <4>5. stack[u][i].stage # k BY <4>2, <4>4, <1>0
      <4> QED BY <4>1, <4>5
    <3> QED BY <3>1, <3>2
  <2>2. \A u, v \in Threads : \A i \in Depths(u), j \in Depths(v) :
          stack[u][i].stage = stack[v][j].stage => u = v /\ i = j
    BY DEF OneFrame, ChainInv
  <2>3. ASSUME NEW u \in Threads, NEW v \in Threads, NEW i \in Depths(u)', NEW j \in Depths(v)',
               stack'[u][i].stage = stack'[v][j].stage
        PROVE  u = v /\ i = j
    <3>1. CASE u = t /\ i = n + 1 /\ stack'[u][i].stage = k
      <4>1. stack'[v][j].stage = k BY <2>3, <3>1
      <4> QED BY <2>1, <3>1, <4>1
    <3>2. CASE i \in Depths(u) /\ stack'[u][i].stage = stack[u][i].stage /\ stack[u][i].stage # k
      <4>1. stack'[v][j].stage # k BY <2>3, <3>2
      <4>2. j \in Depths(v) /\ stack'[v][j].stage = stack[v][j].stage BY <2>1, <4>1
      <4>3. stack[u][i].stage = stack[v][j].stage BY <2>3, <3>2, <4>2
      <4> QED BY <2>2, <3>2, <4>2, <4>3
    <3> QED BY <2>1, <3>1, <3>2
  <2> QED BY <2>3 DEF OneFrame
<1>12. ItemShape' BY <1>5 DEF ItemShape, Nowhere
<1>13. ContShape'
  <2>1. \A m \in Stages : cont[m] = "function" => HasFrame(m) BY DEF ChainInv, ContShape
  <2> QED BY <1>0, <1>1, <1>6, <2>1 DEF ContShape, Ready
<1>14. Frontier' BY <1>0, <1>8, <1>9 DEF Frontier, Ready
<1>15. Beyond' BY <1>0, <1>1 DEF Beyond, Ready
<1>16. LastSettles' BY <1>1 DEF LastSettles, ChainInv, Ready
<1>17. NeverStranded'
  <2>1. item'.on \notin Loops BY <1>5, ChainAssumption
  <2> QED BY <1>1, <2>1 DEF NeverStranded
<1> QED BY <1>1, <1>3, <1>10, <1>11, <1>12, <1>13, <1>14, <1>15, <1>16, <1>17 DEF ChainInv

\* It is queued.
LEMMA Queued ==
  ASSUME ChainInv, NEW t \in Threads, NEW s, NEW k \in 0 .. Length, Ready(t, s, k),
         NEW x \in Threads, NEW c \in BOOLEAN, c => future # "none", x \in Loops => x \in up,
         item' = [on |-> x, stage |-> k, catch |-> c], stack' = [stack EXCEPT ![t] = s]
  PROVE  ChainInv'
<1>0. Length \in Nat \ {0} /\ Stages = 1 .. Length /\ Stages' = Stages /\ Length' = Length
  BY StagesAre, StagesStay DEF ChainInv, Ready
<1>1. /\ ChainShape' /\ NotBegun'
      /\ \A h \in held' : ExecutorOf(h)' \in Loops => ExecutorOf(h)' \in up'
      /\ passed' = {} => future' \notin {"error", "value", "exception"}
      /\ \A m \in Stages : cont'[m] = cont[m]
      /\ \A m \in Stages : cont[m] # "none" => m < Length
  BY ReadyKeeps
<1>2. FramesTyped' BY DEF FramesTyped, ChainInv, Ready
<1>3. /\ \A u \in Threads : Depths(u)' = Depths(u)
      /\ \A i \in Depths(t) : stack'[t][i] = s[i]
      /\ \A u \in Threads : u # t => stack'[u] = stack[u]
  BY DEF Depths, ChainInv, FramesTyped, Ready
<1>4. \A u \in Threads : \A i \in Depths(u) :
        /\ stack'[u][i].stage = stack[u][i].stage /\ stack'[u][i].catch = stack[u][i].catch
        /\ \/ stack'[u][i].phase = stack[u][i].phase
           \/ stack'[u][i].phase = "leave" /\ stack[u][i].phase = "more"
  BY <1>3 DEF Ready
<1>5. item'.on = x /\ item'.stage = k /\ item'.catch = c /\ x # "nowhere"
  BY ChainAssumption DEF Threads
<1>6. \A j : HasFrame(j)' <=> HasFrame(j) BY <1>3, <1>4 DEF HasFrame
<1>7. \A j \in 0 .. Length : Touched(j)' => j <= k
  BY <1>0, <1>1, <1>5, <1>6 DEF Touched, Ready
<1>8. \A j \in 0 .. Length : Open(j)' => j = k
  <2>1. \A u \in Threads : \A i \in Depths(u)' : stack'[u][i].phase \notin {"call", "more"}
    BY <1>3 DEF Ready
  <2> QED BY <1>0, <1>1, <1>5, <2>1 DEF Open, Ready
<1>9. UNCHANGED future /\ (k \in Stages => cont[k] = "none") BY DEF Ready
<1>10. FrameShape'
  <2>1. ASSUME NEW u \in Threads, NEW i \in Depths(u)
        PROVE  LET g == stack'[u][i]
               IN  /\ g.stage \in 0 .. Length
                   /\ g.phase = "call" => g.stage > 0
                   /\ g.phase = "more" => g.stage < Length
                   /\ g.phase = "inside" => g.stage \in Stages /\ cont'[g.stage] # "none"
                   /\ g.phase # "inside" /\ g.stage \in Stages => cont'[g.stage] = "none"
                   /\ g.catch => future' # "none"
    <3> DEFINE p == stack[u][i].phase
               m == stack[u][i].stage
    <3>1. /\ m \in 0 .. Length /\ (p = "call" => m > 0) /\ (p = "more" => m < Length)
          /\ p = "inside" => m \in Stages /\ cont[m] # "none"
          /\ p # "inside" /\ m \in Stages => cont[m] = "none"
          /\ stack[u][i].catch => future # "none"
      BY DEF ChainInv, FrameShape
    <3>2. m \in Stages => cont'[m] = cont[m] BY <1>1
    <3>3. stack'[u][i].stage = m /\ stack'[u][i].catch = stack[u][i].catch
          /\ (stack'[u][i].phase = p \/ (stack'[u][i].phase = "leave" /\ p = "more"))
      BY <1>4
    <3>4. p = "inside" => m \in Stages /\ cont'[m] # "none" BY <3>1, <3>2
    <3>5. p # "inside" /\ m \in Stages => cont'[m] = "none" BY <3>1, <3>2
    <3>6. CASE stack'[u][i].phase = p BY <1>9, <3>1, <3>3, <3>4, <3>5, <3>6
    <3>7. CASE stack'[u][i].phase = "leave" /\ p = "more" BY <1>9, <3>1, <3>3, <3>5, <3>7
    <3> QED BY <3>3, <3>6, <3>7
  <2> QED BY <1>0, <1>3, <2>1 DEF FrameShape
<1>11. OneFrame' BY <1>3, <1>4 DEF OneFrame, ChainInv
<1>12. ItemShape'
  <2>1. \A j \in 0 .. Length : HasFrame(j) => j < k BY DEF Ready
  <2>2. ~HasFrame(k) BY <1>0, <2>1
  <2>3. k \in Stages => cont'[k] = "none" BY <1>1, <1>9
  <2> QED BY <1>0, <1>5, <1>6, <1>9, <2>2, <2>3 DEF ItemShape
<1>13. ContShape'
  <2>1. \A m \in Stages : cont[m] = "function" => HasFrame(m) BY DEF ChainInv, ContShape
  <2> QED BY <1>0, <1>1, <1>6, <2>1 DEF ContShape, Ready
<1>14. Frontier' BY <1>0, <1>7, <1>8 DEF Frontier, Ready
<1>15. Beyond' BY <1>0, <1>1 DEF Beyond, Ready
<1>16. LastSettles' BY <1>1 DEF LastSettles, ChainInv, Ready
<1>17. NeverStranded' BY <1>1, <1>5 DEF NeverStranded, Ready
<1> QED BY <1>1, <1>2, <1>10, <1>11, <1>12, <1>13, <1>14, <1>15, <1>16, <1>17 DEF ChainInv

\* dispatch, and what a queue keeps of it.
LEMMA ExecutorIs ==
  ASSUME ChainInv, NEW k \in Stages
  PROVE  /\ ExecutorOf(k) \in Loops \cup {"system", "promise"}
         /\ ExecutorOf(k) = "promise" => future # "none"
<1>1. Length \in Nat \ {0} /\ Stages = 1 .. Length BY StagesAre DEF ChainInv
<1> DEFINE having == {j \in k .. Length : own[j] # "inherit"}
<1>2. CASE having = {} BY <1>2, ChainAssumption DEF ExecutorOf
<1>3. CASE having # {}
  <2> DEFINE first == CHOOSE j \in having : \A i \in having : j <= i
  <2>1. having \subseteq Nat BY <1>1
  <2>2. \E j \in having : \A i \in having : j <= i BY <1>3, <2>1, LeastNatural
  <2>3. first \in having BY <2>2
  <2>4. ExecutorOf(k) = own[first] BY <1>3 DEF ExecutorOf
  <2>5. own[first] \in Loops \cup {"system", "promise", "inherit"} /\ own[first] # "inherit"
        /\ first \in Stages
    <3> HIDE DEF first
    <3> QED BY <1>1, <2>3 DEF ChainInv, ChainShape, Length, Stages
  <2>6. own[first] = "promise" => future # "none" BY <2>5 DEF ChainInv, ChainShape
  <2> QED BY <2>4, <2>5, <2>6
<1> QED BY <1>2, <1>3

LEMMA Dispatched ==
  ASSUME ChainInv, NEW t \in Threads, NEW s, NEW k \in 0 .. Length, Ready(t, s, k),
         NEW e \in Loops \cup {"system", "promise"}, e = "promise" => future # "none",
         e \in Loops => e \in up, item = Nowhere, Dispatch(t, s, k, e)
  PROVE  ChainInv'
<1>1. k \in Nat BY StagesAre DEF ChainInv
<1>2. CASE e \in Loops /\ t # e
  <2>1. ThreadOf(e) = e BY <1>2, ChainAssumption DEF ThreadOf
  <2>2. /\ item' = [on |-> e, stage |-> k, catch |-> e = "promise"]
        /\ stack' = [stack EXCEPT ![t] = s]
    BY <1>2, <2>1 DEF Dispatch, Enqueue
  <2> DEFINE c == e = "promise"
  <2>3. c \in BOOLEAN /\ e \in Threads /\ (c => future # "none") BY <1>2 DEF Threads
  <2>4. item' = [on |-> e, stage |-> k, catch |-> c] BY <2>2
  <2> HIDE DEF c
  <2> QED BY <1>2, <2>2, <2>3, <2>4, Queued
<1>3. CASE ~(e \in Loops /\ t # e)
  <2> DEFINE f == Frame(k, e)
  <2>1. /\ f \in ChainFrames /\ f.stage = k /\ f.phase = (IF k = 0 THEN "more" ELSE "call")
        /\ f.catch => future # "none"
    BY <1>1 DEF Frame, ChainFrames
  <2>2. item' = Nowhere /\ stack' = [stack EXCEPT ![t] = Append(s, f)]
    BY <1>3 DEF Dispatch, Push
  <2> HIDE DEF f
  <2> QED BY <2>1, <2>2, FramePushed
<1> QED BY <1>2, <1>3

----------------------------------------------------------------------------
(* The steps.                                                              *)

LEMMA OpenIsAlone ==
  ASSUME ChainInv, NEW k \in 0 .. Length, Open(k)
  PROVE  /\ \A j \in 0 .. Length : Touched(j) => j <= k
         /\ \A j \in 0 .. Length : Open(j) => j = k
         /\ k + 1 .. Length \subseteq held
         /\ \A u \in Threads : \A i \in Depths(u) :
              stack[u][i].phase \in {"call", "more"} => stack[u][i].stage = k
         /\ item.on # "nowhere" => item.stage = k
         /\ launched = TRUE
<1>1. Length \in Nat \ {0} /\ Stages = 1 .. Length BY StagesAre DEF ChainInv
<1>2. \A j \in 0 .. Length : Open(j) => Touched(j) BY DEF Open, Touched, HasFrame
<1>3. \A j \in 0 .. Length : Touched(j) => j <= k BY DEF ChainInv, Frontier
<1>4. \A j \in 0 .. Length : Open(j) => j = k
  <2>1. ASSUME NEW j \in 0 .. Length, Open(j) PROVE j = k
    <3>1. j <= k BY <1>2, <1>3, <2>1
    <3>2. k <= j BY <1>2, <2>1 DEF ChainInv, Frontier
    <3> QED BY <1>1, <3>1, <3>2
  <2> QED BY <2>1
<1>5. \A u \in Threads : \A i \in Depths(u) :
        stack[u][i].phase \in {"call", "more"} => stack[u][i].stage = k
  BY <1>4 DEF Open, ChainInv, FrameShape
<1>6. item.on # "nowhere" => item.stage = k BY <1>4 DEF Open, ChainInv, ItemShape
<1>7. launched = TRUE
  <2>1. launched \in BOOLEAN BY DEF ChainInv, ChainShape
  <2>2. ASSUME ~launched PROVE FALSE
    <3>1. item.on = "nowhere" /\ (\A u \in Threads : Depths(u) = {}) /\ \A m \in Stages : cont[m] = "none"
      BY <2>2 DEF ChainInv, NotBegun, Nowhere, Depths
    <3> QED BY <3>1 DEF Open
  <2> QED BY <2>1, <2>2
<1>8. k + 1 .. Length \subseteq held BY DEF ChainInv, Frontier
<1> QED BY <1>3, <1>4, <1>5, <1>6, <1>7, <1>8

\* What a function is handed over from: a plain one that has returned, or a
\* continuation that is called.
LEMMA HandOverKeepsChain ==
  ASSUME ChainInv, NEW t \in Threads, HandOver(t)
  PROVE  ChainInv'
<1> DEFINE n == Len(stack[t])
           m == Top(t).stage
           s == Phase(t, "leave")
<1>0. Length \in Nat \ {0} /\ Stages = 1 .. Length BY StagesAre DEF ChainInv
<1>1. /\ n \in Depths(t) /\ stack[t][n] = Top(t) /\ Running(t) /\ Top(t).phase = "more"
      /\ Len(stack[t]) \in Nat
  BY StackIs DEF HandOver, ChainInv, Top
<1>2. m \in 0 .. Length /\ m < Length /\ (m \in Stages => cont[m] = "none")
  BY <1>1 DEF ChainInv, FrameShape
<1>3. Open(m) /\ Touched(m) /\ HasFrame(m) BY <1>1 DEF Open, Touched, HasFrame
<1>4. /\ \A j \in 0 .. Length : Touched(j) => j <= m
      /\ m + 1 .. Length \subseteq held
      /\ \A u \in Threads : \A i \in Depths(u) :
           stack[u][i].phase \in {"call", "more"} => stack[u][i].stage = m
      /\ item.on # "nowhere" => item.stage = m
      /\ launched = TRUE
  BY <1>2, <1>3, OpenIsAlone
<1>5. item = Nowhere BY <1>3, <1>4 DEF ChainInv, ItemShape
<1>6. \A u \in Threads : \A i \in Depths(u) :
        stack[u][i].phase \in {"call", "more"} => u = t /\ i = n
  BY <1>1, <1>4 DEF ChainInv, OneFrame
<1>7. /\ s \in Seq(ChainFrames) /\ Len(s) = n
      /\ \A i \in Depths(t) : s[i] = IF i = n THEN [Top(t) EXCEPT !.phase = "leave"] ELSE stack[t][i]
  BY <1>1, PhaseIs DEF ChainInv
<1>8. Top(t) \in ChainFrames BY <1>1, StackIs DEF ChainInv
<1>9. \A i \in Depths(t) :
        /\ s[i].stage = stack[t][i].stage /\ s[i].catch = stack[t][i].catch
        /\ s[i].phase \notin {"call", "more"}
        /\ s[i].phase = stack[t][i].phase \/ (s[i].phase = "leave" /\ stack[t][i].phase = "more")
  <2> HIDE DEF s, n
  <2>1. [Top(t) EXCEPT !.phase = "leave"] = [stage |-> Top(t).stage, catch |-> Top(t).catch, phase |-> "leave"]
    BY <1>8 DEF ChainFrames
  <2> QED BY <1>1, <1>6, <1>7, <2>1
<1>10. \A h \in Stages : cont[h] # "none" => h < m + 1 /\ h \in passed
  <2>1. ASSUME NEW h \in Stages, cont[h] # "none" PROVE h < m + 1 /\ h \in passed
    <3>1. Touched(h) BY <2>1 DEF Touched
    <3>2. h <= m BY <1>0, <1>4, <3>1
    <3>3. h # m BY <1>2, <2>1
    <3>4. h \notin passed => m <= h BY <1>2, <1>3, <2>1 DEF ChainInv, Beyond
    <3> QED BY <1>0, <1>2, <3>2, <3>3, <3>4
  <2> QED BY <2>1
<1>11. \A j \in 0 .. Length : HasFrame(j) => j < m + 1
  BY <1>2, <1>4 DEF Touched
<1>12. passed = {} => future \in {"none", "pending"}
  BY <1>1 DEF ChainInv, LastSettles
<1>13. Ready(t, s, m + 1)
  <2>1. UNCHANGED <<own, kind, launched, cont, passed, held, up, future>> BY DEF HandOver
  <2>2. \A h \in passed : cont[h] # "none" BY DEF ChainInv, ContShape
  <2>3. passed \subseteq Stages /\ held \subseteq Stages BY DEF ChainInv, ChainShape
  <2>4. m + 1 + 1 .. Length \subseteq held BY <1>2, <1>4
  <2> HIDE DEF s, m
  <2> QED BY <1>1, <1>4, <1>6, <1>7, <1>9, <1>10, <1>11, <1>12, <2>1, <2>2, <2>3, <2>4 DEF Ready
<1>14. m + 1 \in Stages /\ m + 1 \in 0 .. Length BY <1>0, <1>2
<1>15. ExecutorOf(m + 1) \in Loops => ExecutorOf(m + 1) \in up
  BY <1>4, <1>14, <1>0 DEF ChainInv, NeverStranded
<1>16. Dispatch(t, s, m + 1, ExecutorOf(m + 1)) BY DEF HandOver
<1> HIDE DEF s, m
<1> QED BY <1>5, <1>13, <1>14, <1>15, <1>16, ExecutorIs, Dispatched

LEMMA CallContinuationKeeps ==
  ASSUME ChainInv, NEW t \in Threads, NEW k \in Stages, CallContinuation(t, k)
  PROVE  ChainInv'
<1>0. Length \in Nat \ {0} /\ Stages = 1 .. Length BY StagesAre DEF ChainInv
<1>1. cont[k] \in {"function", "client"} /\ k \notin passed /\ passed' = passed \cup {k}
  BY DEF CallContinuation
<1>2. Open(k) /\ Touched(k) /\ k \in 0 .. Length /\ k < Length
  BY <1>0, <1>1 DEF Open, Touched, ChainInv, ContShape
<1>3. /\ \A j \in 0 .. Length : Touched(j) => j <= k
      /\ k + 1 .. Length \subseteq held
      /\ \A u \in Threads : \A i \in Depths(u) :
           stack[u][i].phase \in {"call", "more"} => stack[u][i].stage = k
      /\ item.on # "nowhere" => item.stage = k
      /\ launched = TRUE
  BY <1>2, OpenIsAlone
<1>4. item = Nowhere BY <1>1, <1>3 DEF ChainInv, ItemShape
<1>5. \A u \in Threads : \A i \in Depths(u) : stack[u][i].phase \notin {"call", "more"}
  BY <1>1, <1>3 DEF ChainInv, FrameShape
<1>6. \A h \in Stages : cont[h] # "none" => h < k + 1 /\ h \in passed \cup {k}
  <2>1. ASSUME NEW h \in Stages, cont[h] # "none" PROVE h < k + 1 /\ h \in passed \cup {k}
    <3>1. Touched(h) BY <2>1 DEF Touched
    <3>2. h <= k BY <1>0, <1>3, <3>1
    <3>3. h \notin passed => k <= h BY <1>2, <2>1 DEF ChainInv, Beyond
    <3> QED BY <1>0, <3>2, <3>3
  <2> QED BY <2>1
<1>7. Ready(t, stack[t], k + 1)
  <2>1. UNCHANGED <<own, kind, launched, cont, held, up, future>> BY DEF CallContinuation
  <2>2. \A h \in passed' : cont[h] # "none" BY <1>1 DEF ChainInv, ContShape
  <2>3. passed' \subseteq Stages /\ held \subseteq Stages BY <1>1 DEF ChainInv, ChainShape
  <2>4. k + 1 + 1 .. Length \subseteq held BY <1>0, <1>3
  <2>5. stack[t] \in Seq(ChainFrames) BY StackIs DEF ChainInv
  <2>6. \A j \in 0 .. Length : HasFrame(j) => j < k + 1 BY <1>0, <1>3 DEF Touched
  <2> QED BY <1>1, <1>3, <1>5, <1>6, <2>1, <2>2, <2>3, <2>4, <2>5, <2>6 DEF Ready
<1>8. k + 1 \in Stages /\ k + 1 \in 0 .. Length BY <1>0, <1>2
<1>9. ExecutorOf(k + 1) \in Loops => ExecutorOf(k + 1) \in up
  BY <1>3, <1>8, <1>0 DEF ChainInv, NeverStranded
<1>10. Dispatch(t, stack[t], k + 1, ExecutorOf(k + 1)) BY DEF CallContinuation
<1> QED BY <1>4, <1>7, <1>8, <1>9, <1>10, ExecutorIs, Dispatched

LEMMA BeginKeeps ==
  ASSUME ChainInv, NEW t \in Threads, Begin(t)
  PROVE  ChainInv'
<1> DEFINE k == item.stage
           e == IF item.catch THEN "promise" ELSE t
           f == Frame(k, e)
<1>0. Length \in Nat \ {0} /\ Stages = 1 .. Length BY StagesAre DEF ChainInv
<1>1. item.on = t /\ t # "nowhere" /\ t # "promise" /\ item.catch \in BOOLEAN
  BY ChainAssumption DEF Begin, Threads, ChainInv, ItemShape
<1>2. /\ k \in 0 .. Length /\ ~HasFrame(k) /\ (k \in Stages => cont[k] = "none")
      /\ item.catch => future # "none"
  BY <1>1 DEF ChainInv, ItemShape
<1>3. Open(k) /\ Touched(k) BY <1>1 DEF Open, Touched
<1>4. /\ \A j \in 0 .. Length : Touched(j) => j <= k
      /\ k + 1 .. Length \subseteq held
      /\ \A u \in Threads : \A i \in Depths(u) :
           stack[u][i].phase \in {"call", "more"} => stack[u][i].stage = k
      /\ launched = TRUE
  BY <1>2, <1>3, OpenIsAlone
<1>5. \A u \in Threads : \A i \in Depths(u) : stack[u][i].phase \notin {"call", "more"}
  BY <1>2, <1>4 DEF HasFrame
<1>6. \A h \in Stages : cont[h] # "none" => h < k /\ h \in passed
  <2>1. ASSUME NEW h \in Stages, cont[h] # "none" PROVE h < k /\ h \in passed
    <3>1. Touched(h) BY <2>1 DEF Touched
    <3>2. h <= k BY <1>0, <1>4, <3>1
    <3>3. h # k BY <1>2, <2>1
    <3>4. h \notin passed => k <= h BY <1>2, <1>3, <2>1 DEF ChainInv, Beyond
    <3> QED BY <1>0, <1>2, <3>2, <3>3, <3>4
  <2> QED BY <2>1
<1>7. Ready(t, stack[t], k)
  <2>1. UNCHANGED <<own, kind, launched, cont, passed, held, up, future>> BY DEF Begin
  <2>2. \A h \in passed : cont[h] # "none" BY DEF ChainInv, ContShape
  <2>3. passed \subseteq Stages /\ held \subseteq Stages BY DEF ChainInv, ChainShape
  <2>5. stack[t] \in Seq(ChainFrames) BY StackIs DEF ChainInv
  <2>6. ASSUME NEW j \in 0 .. Length, HasFrame(j) PROVE j < k
    <3>1. j <= k BY <1>4, <2>6 DEF Touched
    <3>2. j # k BY <1>2, <2>6
    <3> QED BY <1>0, <1>2, <3>1, <3>2
  <2>7. passed = {} => future \in {"none", "pending"} BY <1>1 DEF ChainInv, LastSettles
  <2> HIDE DEF k
  <2> QED BY <1>4, <1>5, <1>6, <2>1, <2>2, <2>3, <2>5, <2>6, <2>7 DEF Ready
<1>8. f \in ChainFrames /\ f.stage = k /\ f.phase = (IF k = 0 THEN "more" ELSE "call")
      /\ (f.catch => future # "none")
  BY <1>0, <1>1, <1>2 DEF Frame, ChainFrames
<1>9. item' = Nowhere /\ stack' = [stack EXCEPT ![t] = Append(stack[t], f)]
  BY <1>1 DEF Begin, Push, ChainInv, FramesTyped
<1> HIDE DEF k, f
<1> QED BY <1>2, <1>7, <1>8, <1>9, FramePushed

LEMMA LaunchKeeps ==
  ASSUME ChainInv, NEW k \in {0, 1}, NEW e \in Loops \cup {"system", "promise"},
         e = "promise" => future # "none", NEW nested \in BOOLEAN, Launch(e, k, nested)
  PROVE  ChainInv'
<1> DEFINE t == "main"
<1>0. Length \in Nat \ {0} /\ Stages = 1 .. Length /\ k \in 0 .. Length BY StagesAre DEF ChainInv
<1>1. /\ ~launched /\ launched' = TRUE /\ held' = k + 1 .. Length
      /\ UNCHANGED <<own, kind, cont, passed, up, future>>
  BY DEF Launch
<1>2. /\ item = Nowhere /\ passed = {} /\ up = Loops /\ future \in {"none", "pending"}
      /\ \A u \in Threads : stack[u] = <<>>
      /\ \A m \in Stages : cont[m] = "none"
  BY <1>1 DEF ChainInv, NotBegun
<1>3. t \in Threads BY DEF Threads
<1>4. \A u \in Threads : Depths(u) = {} BY <1>2 DEF Depths
<1>5. Ready(t, stack[t], k)
  <2>1. held' \subseteq Stages BY <1>0, <1>1
  <2>2. stack[t] \in Seq(ChainFrames) BY <1>3, StackIs DEF ChainInv
  <2> QED BY <1>1, <1>2, <1>3, <1>4, <2>1, <2>2 DEF Ready, HasFrame
<1>6. e \in Loops => e \in up BY <1>2
<1>7. CASE nested
  <2>1. Dispatch(t, stack[t], k, e) BY <1>7 DEF Launch
  <2> QED BY <1>0, <1>2, <1>3, <1>5, <1>6, <2>1, Dispatched
<1>8. CASE ~nested
  <2> DEFINE x == ThreadOf(e)
             c == e = "promise"
  <2>1. x \in Threads /\ c \in BOOLEAN /\ (c => future # "none") /\ (x \in Loops => x \in up)
    BY <1>2 DEF ThreadOf, Threads
  <2>2. item' = [on |-> x, stage |-> k, catch |-> c] /\ stack' = [stack EXCEPT ![t] = stack[t]]
    <3>1. UNCHANGED stack /\ Enqueue(k, e) BY <1>8 DEF Launch
    <3> QED BY <1>3, <3>1 DEF Enqueue, ChainInv, FramesTyped
  <2> HIDE DEF x, c
  <2> QED BY <1>0, <1>3, <1>5, <2>1, <2>2, Queued
<1> QED BY <1>7, <1>8

LEMMA LaunchesKeep ==
  ASSUME ChainInv,
         \/ PostHead \/ DispatchHead \/ DeferHead
         \/ \E e \in Loops \cup {"system"} : Post(e) \/ DispatchTo(e) \/ Defer(e)
  PROVE  ChainInv'
<1>1. CASE PostHead \/ DispatchHead \/ DeferHead
  <2>1. Launch(ExecutorOf(1), 1, TRUE) \/ Launch(ExecutorOf(1), 1, FALSE)
    BY <1>1 DEF PostHead, DispatchHead, DeferHead
  <2>2. 1 \in Stages BY StagesAre DEF ChainInv
  <2> QED BY <2>1, <2>2, ExecutorIs, LaunchKeeps
<1>2. CASE \E e \in Loops \cup {"system"} : Post(e) \/ DispatchTo(e) \/ Defer(e)
  <2>1. PICK e \in Loops \cup {"system"} : Launch(e, 0, TRUE) \/ Launch(e, 0, FALSE)
    BY <1>2 DEF Post, DispatchTo, Defer
  <2>2. e # "promise" BY ChainAssumption
  <2> QED BY <2>1, <2>2, LaunchKeeps
<1> QED BY <1>1, <1>2

\* The phase of the innermost frame changes, and nothing else on the stacks.
LEMMA Rephased ==
  ASSUME ChainInv, NEW t \in Threads, Running(t), NEW p \in {"call", "more", "inside", "leave"},
         stack' = [stack EXCEPT ![t] = Phase(t, p)]
  PROVE  /\ FramesTyped'
         /\ \A u \in Threads : Depths(u)' = Depths(u)
         /\ \A u \in Threads : \A i \in Depths(u) :
              /\ stack'[u][i].stage = stack[u][i].stage /\ stack'[u][i].catch = stack[u][i].catch
              /\ u # t \/ i # Len(stack[t]) => stack'[u][i].phase = stack[u][i].phase
         /\ stack'[t][Len(stack[t])].phase = p
         /\ \A j : HasFrame(j)' <=> HasFrame(j)
         /\ OneFrame'
<1> DEFINE n == Len(stack[t])
<1>1. n \in Depths(t) /\ stack[t][n] = Top(t) /\ Top(t) \in ChainFrames
  BY StackIs DEF ChainInv, Top
<1>2. /\ Phase(t, p) \in Seq(ChainFrames) /\ Len(Phase(t, p)) = n
      /\ \A i \in Depths(t) :
           Phase(t, p)[i] = IF i = n THEN [Top(t) EXCEPT !.phase = p] ELSE stack[t][i]
  BY PhaseIs DEF ChainInv
<1>3. [Top(t) EXCEPT !.phase = p] = [stage |-> Top(t).stage, catch |-> Top(t).catch, phase |-> p]
  BY <1>1 DEF ChainFrames
<1>4. FramesTyped' BY <1>2 DEF FramesTyped, ChainInv
<1>5. /\ \A u \in Threads : Depths(u)' = Depths(u)
      /\ stack'[t] = Phase(t, p)
      /\ \A u \in Threads : u # t => stack'[u] = stack[u]
  BY <1>2 DEF Depths, ChainInv, FramesTyped
<1> HIDE DEF n
<1>6. \A u \in Threads : \A i \in Depths(u) :
        /\ stack'[u][i].stage = stack[u][i].stage /\ stack'[u][i].catch = stack[u][i].catch
        /\ u # t \/ i # n => stack'[u][i].phase = stack[u][i].phase
  <2>1. ASSUME NEW u \in Threads, NEW i \in Depths(u)
        PROVE  /\ stack'[u][i].stage = stack[u][i].stage /\ stack'[u][i].catch = stack[u][i].catch
               /\ u # t \/ i # n => stack'[u][i].phase = stack[u][i].phase
    <3>1. CASE u # t BY <1>5, <3>1
    <3>2. CASE u = t /\ i = n
      <4>1. stack'[u][i] = [stage |-> Top(t).stage, catch |-> Top(t).catch, phase |-> p]
        BY <1>2, <1>3, <1>5, <3>2
      <4> QED BY <1>1, <3>2, <4>1
    <3>3. CASE u = t /\ i # n BY <1>2, <1>5, <3>3
    <3> QED BY <3>1, <3>2, <3>3
  <2> QED BY <2>1
<1>7. stack'[t][n].phase = p BY <1>1, <1>2, <1>3, <1>5
<1>8. \A j : HasFrame(j)' <=> HasFrame(j) BY <1>5, <1>6 DEF HasFrame
<1>9. OneFrame' BY <1>5, <1>6 DEF OneFrame, ChainInv
<1> QED BY <1>4, <1>5, <1>6, <1>7, <1>8, <1>9 DEF n

LEMMA CallPlainKeeps ==
  ASSUME ChainInv, NEW t \in Threads, CallPlain(t)
  PROVE  ChainInv'
<1> DEFINE n == Len(stack[t])
           k == Top(t).stage
           p == IF k = Length THEN "leave" ELSE "more"
<1>0. Length \in Nat \ {0} /\ Stages = 1 .. Length /\ Stages' = Stages /\ Length' = Length
  BY StagesAre, StagesStay DEF ChainInv, CallPlain
<1>1. Running(t) /\ n \in Depths(t) /\ stack[t][n] = Top(t) /\ Top(t).phase = "call"
  BY StackIs DEF CallPlain, ChainInv, Top
<1>2. k \in Stages /\ cont[k] = "none" /\ k \in 0 .. Length BY <1>0, <1>1 DEF ChainInv, FrameShape
<1>3. Open(k) /\ Touched(k) /\ HasFrame(k) BY <1>1 DEF Open, Touched, HasFrame
<1>4. /\ \A j \in 0 .. Length : Touched(j) => j <= k
      /\ \A j \in 0 .. Length : Open(j) => j = k
      /\ \A u \in Threads : \A i \in Depths(u) :
           stack[u][i].phase \in {"call", "more"} => stack[u][i].stage = k
      /\ item.on # "nowhere" => item.stage = k
      /\ launched = TRUE
  BY <1>0, <1>2, <1>3, OpenIsAlone
<1>5. item.on = "nowhere" BY <1>3, <1>4 DEF ChainInv, ItemShape
<1>6. /\ UNCHANGED <<own, kind, launched, item, cont, passed, held, up>>
      /\ stack' = [stack EXCEPT ![t] = Phase(t, p)]
      /\ own[k] = "promise" => future = "pending"
      /\ IF own[k] = "promise" THEN Settle("value") ELSE UNCHANGED future
  BY DEF CallPlain
<1>7. /\ FramesTyped' /\ OneFrame'
      /\ \A u \in Threads : Depths(u)' = Depths(u)
      /\ \A u \in Threads : \A i \in Depths(u) :
           /\ stack'[u][i].stage = stack[u][i].stage /\ stack'[u][i].catch = stack[u][i].catch
           /\ u # t \/ i # n => stack'[u][i].phase = stack[u][i].phase
      /\ stack'[t][n].phase = p
      /\ \A j : HasFrame(j)' <=> HasFrame(j)
  BY <1>1, <1>6, Rephased
<1>8. \A j : ExecutorOf(j)' = ExecutorOf(j) BY <1>6, StagesStay
<1>9. future # "none" => future' # "none" BY <1>6 DEF Settle
<1>10. ChainShape' BY <1>0, <1>6, <1>9 DEF ChainInv, ChainShape
<1>11. FrameShape'
  <2>1. ASSUME NEW u \in Threads, NEW i \in Depths(u)
        PROVE  LET g == stack'[u][i]
               IN  /\ g.stage \in 0 .. Length
                   /\ g.phase = "call" => g.stage > 0
                   /\ g.phase = "more" => g.stage < Length
                   /\ g.phase = "inside" => g.stage \in Stages /\ cont[g.stage] # "none"
                   /\ g.phase # "inside" /\ g.stage \in Stages => cont[g.stage] = "none"
                   /\ g.catch => future' # "none"
    <3>0. stack[u][i].stage \in 0 .. Length /\ (stack[u][i].catch => future # "none")
      BY DEF ChainInv, FrameShape
    <3>1. CASE u # t \/ i # n
      <4>1. /\ stack[u][i].phase = "call" => stack[u][i].stage > 0
            /\ stack[u][i].phase = "more" => stack[u][i].stage < Length
            /\ stack[u][i].phase = "inside" =>
                 stack[u][i].stage \in Stages /\ cont[stack[u][i].stage] # "none"
            /\ stack[u][i].phase # "inside" /\ stack[u][i].stage \in Stages =>
                 cont[stack[u][i].stage] = "none"
        BY DEF ChainInv, FrameShape
      <4> QED BY <1>7, <1>9, <3>0, <3>1, <4>1
    <3>2. CASE u = t /\ i = n
      <4>1. stack'[u][i].stage = k /\ stack'[u][i].phase = p BY <1>1, <1>7, <3>2
      <4>2. p = "more" => k < Length BY <1>0, <1>2
      <4>3. p # "call" /\ p # "inside" OBVIOUS
      <4>4. stack'[u][i].catch => future' # "none" BY <1>7, <1>9, <3>0
      <4> HIDE DEF p, k
      <4> QED BY <1>0, <1>2, <4>1, <4>2, <4>3, <4>4
    <3> QED BY <3>1, <3>2
  <2> QED BY <1>0, <1>6, <1>7, <2>1 DEF FrameShape
<1>12. ItemShape' BY <1>0, <1>5, <1>6 DEF ChainInv, ItemShape
<1>13. ContShape' BY <1>0, <1>6, <1>7 DEF ChainInv, ContShape
<1>14. \A j \in 0 .. Length : Touched(j)' => Touched(j) BY <1>0, <1>6, <1>7 DEF Touched
<1>15. \A j \in 0 .. Length : Open(j)' => Open(j)
  <2>1. \A u \in Threads : \A i \in Depths(u) :
          stack'[u][i].phase \in {"call", "more"} => stack[u][i].phase \in {"call", "more"}
    BY <1>1, <1>7
  <2> QED BY <1>0, <1>6, <1>7, <2>1 DEF Open
<1>16. Frontier' BY <1>0, <1>6, <1>14, <1>15 DEF ChainInv, Frontier
<1>17. Beyond' BY <1>0, <1>6, <1>14 DEF ChainInv, Beyond
<1>18. NotBegun' BY <1>4, <1>6 DEF NotBegun
<1>19. LastSettles'
  <2>1. ASSUME passed = {}
        PROVE  /\ future' # "error"
               /\ future' \notin {"none", "pending"} =>
                    \A u \in Threads : \A i \in Depths(u) : stack'[u][i].phase = "leave"
    <3>1. future \in {"none", "pending"} BY <1>1, <2>1 DEF ChainInv, LastSettles
    <3>2. CASE own[k] = "promise"
      <4>1. k = Length BY <1>2, <3>2 DEF ChainInv, ChainShape
      <4>2. future' = "value" BY <1>6, <3>2 DEF Settle
      <4>3. ASSUME NEW u \in Threads, NEW i \in Depths(u) PROVE stack'[u][i].phase = "leave"
        <5>1. CASE u = t /\ i = n BY <1>7, <4>1, <5>1
        <5>2. CASE u # t \/ i # n
          <6>1. stack[u][i].stage # k BY <1>1, <5>2 DEF ChainInv, OneFrame
          <6>2. stack[u][i].phase \notin {"call", "more"} BY <1>4, <6>1
          <6>3. ASSUME stack[u][i].phase = "inside" PROVE FALSE
            <7>1. stack[u][i].stage \in Stages /\ cont[stack[u][i].stage] # "none"
              BY <6>3 DEF ChainInv, FrameShape
            <7>2. k <= stack[u][i].stage
              BY <1>0, <1>2, <1>3, <2>1, <7>1 DEF ChainInv, Beyond
            <7>3. Touched(stack[u][i].stage) BY DEF Touched, HasFrame
            <7>4. stack[u][i].stage <= k BY <1>0, <1>4, <7>1, <7>3
            <7> QED BY <1>0, <1>2, <6>1, <7>1, <7>2, <7>4
          <6>4. stack[u][i].phase = "leave" BY <6>2, <6>3, StackIs DEF ChainInv, ChainFrames
          <6> QED BY <1>7, <5>2, <6>4
        <5> QED BY <5>1, <5>2
      <4> QED BY <4>2, <4>3
    <3>3. CASE own[k] # "promise" BY <1>6, <3>1, <3>3
    <3> QED BY <3>2, <3>3
  <2> QED BY <1>5, <1>6, <1>7, <2>1 DEF LastSettles
<1>20. NeverStranded' BY <1>6, <1>8 DEF ChainInv, NeverStranded
<1> QED
  BY <1>7, <1>10, <1>11, <1>12, <1>13, <1>16, <1>17, <1>18, <1>19, <1>20 DEF ChainInv

LEMMA CallPassingKeeps ==
  ASSUME ChainInv, NEW t \in Threads, NEW keeper \in {"function", "client"}, CallPassing(t, keeper)
  PROVE  ChainInv'
<1> DEFINE n == Len(stack[t])
           k == Top(t).stage
<1>0. Length \in Nat \ {0} /\ Stages = 1 .. Length /\ Stages' = Stages /\ Length' = Length
  BY StagesAre, StagesStay DEF ChainInv, CallPassing
<1>1. Running(t) /\ n \in Depths(t) /\ stack[t][n] = Top(t) /\ Top(t).phase = "call"
  BY StackIs DEF CallPassing, ChainInv, Top
<1>2. k \in Stages /\ cont[k] = "none" /\ k \in 0 .. Length BY <1>0, <1>1 DEF ChainInv, FrameShape
<1>3. Open(k) /\ Touched(k) /\ HasFrame(k) BY <1>1 DEF Open, Touched, HasFrame
<1>4. /\ \A j \in 0 .. Length : Touched(j) => j <= k
      /\ \A j \in 0 .. Length : Open(j) => j = k
      /\ k + 1 .. Length \subseteq held
      /\ item.on # "nowhere" => item.stage = k
      /\ launched = TRUE
  BY <1>0, <1>2, <1>3, OpenIsAlone
<1>5. item.on = "nowhere" BY <1>3, <1>4 DEF ChainInv, ItemShape
<1>6. /\ UNCHANGED <<own, kind, launched, item, passed, held, up, future>>
      /\ stack' = [stack EXCEPT ![t] = Phase(t, "inside")]
      /\ cont' = [cont EXCEPT ![k] = keeper] /\ kind[k] = "passing"
  BY DEF CallPassing
<1>7. /\ FramesTyped' /\ OneFrame'
      /\ \A u \in Threads : Depths(u)' = Depths(u)
      /\ \A u \in Threads : \A i \in Depths(u) :
           /\ stack'[u][i].stage = stack[u][i].stage /\ stack'[u][i].catch = stack[u][i].catch
           /\ u # t \/ i # n => stack'[u][i].phase = stack[u][i].phase
      /\ stack'[t][n].phase = "inside"
      /\ \A j : HasFrame(j)' <=> HasFrame(j)
  BY <1>1, <1>6, Rephased
<1>8. \A j : ExecutorOf(j)' = ExecutorOf(j) BY <1>6, StagesStay
<1>9. /\ cont'[k] = keeper /\ \A m \in Stages : m # k => cont'[m] = cont[m]
      /\ cont' \in [Stages -> {"none", "function", "client", "gone"}]
  BY <1>2, <1>6 DEF ChainInv, ChainShape
<1>10. ChainShape' BY <1>0, <1>6, <1>9 DEF ChainInv, ChainShape
<1>11. FrameShape'
  <2>1. ASSUME NEW u \in Threads, NEW i \in Depths(u)
        PROVE  LET g == stack'[u][i]
               IN  /\ g.stage \in 0 .. Length
                   /\ g.phase = "call" => g.stage > 0
                   /\ g.phase = "more" => g.stage < Length
                   /\ g.phase = "inside" => g.stage \in Stages /\ cont'[g.stage] # "none"
                   /\ g.phase # "inside" /\ g.stage \in Stages => cont'[g.stage] = "none"
                   /\ g.catch => future # "none"
    <3>0. stack[u][i].stage \in 0 .. Length /\ (stack[u][i].catch => future # "none")
      BY DEF ChainInv, FrameShape
    <3>1. CASE u # t \/ i # n
      <4>1. /\ stack[u][i].phase = "call" => stack[u][i].stage > 0
            /\ stack[u][i].phase = "more" => stack[u][i].stage < Length
            /\ stack[u][i].phase = "inside" =>
                 stack[u][i].stage \in Stages /\ cont[stack[u][i].stage] # "none"
            /\ stack[u][i].phase # "inside" /\ stack[u][i].stage \in Stages =>
                 cont[stack[u][i].stage] = "none"
        BY DEF ChainInv, FrameShape
      <4>2. stack[u][i].stage # k BY <1>1, <3>1 DEF ChainInv, OneFrame
      <4> DEFINE m == stack[u][i].stage
      <4>3. m \in Stages => cont'[m] = cont[m] BY <1>9, <4>2
      <4>4. stack'[u][i].stage = m /\ stack'[u][i].phase = stack[u][i].phase
            /\ stack'[u][i].catch = stack[u][i].catch
        BY <1>7, <3>1
      <4> QED BY <3>0, <4>1, <4>3, <4>4
    <3>2. CASE u = t /\ i = n
      <4>1. stack'[u][i].stage = k /\ stack'[u][i].phase = "inside" BY <1>1, <1>7, <3>2
      <4>2. cont'[k] # "none" BY <1>9
      <4>3. stack'[u][i].catch => future # "none" BY <1>7, <3>0
      <4> HIDE DEF k
      <4> QED BY <1>0, <1>2, <4>1, <4>2, <4>3
    <3> QED BY <3>1, <3>2
  <2> QED BY <1>0, <1>6, <1>7, <2>1 DEF FrameShape
<1>12. ItemShape' BY <1>0, <1>5, <1>6 DEF ChainInv, ItemShape
<1>13. k < Length /\ k \notin passed
  <2>1. k # Length BY <1>6 DEF ChainInv, ChainShape
  <2> HIDE DEF k
  <2> QED BY <1>0, <1>2, <2>1 DEF ChainInv, ContShape
<1>14. ContShape' BY <1>0, <1>3, <1>6, <1>7, <1>9, <1>13 DEF ChainInv, ContShape
<1>15. \A j \in 0 .. Length : Touched(j)' => Touched(j)
  BY <1>0, <1>3, <1>6, <1>7, <1>9 DEF Touched
<1>16. \A j \in 0 .. Length : Open(j)' => Open(j)
  <2>1. \A u \in Threads : \A i \in Depths(u) :
          stack'[u][i].phase \in {"call", "more"} => stack[u][i].phase \in {"call", "more"}
    BY <1>1, <1>7
  <2> QED BY <1>0, <1>3, <1>6, <1>7, <1>9, <2>1 DEF Open
<1>17. Frontier' BY <1>0, <1>6, <1>15, <1>16 DEF ChainInv, Frontier
<1>18. Beyond'
  <2>1. ASSUME NEW m \in Stages, cont'[m] # "none", m \notin passed, NEW j \in 0 .. Length, Touched(j)'
        PROVE  j <= m
    <3>1. Touched(j) BY <1>15, <2>1
    <3>2. CASE m = k BY <1>4, <3>1, <3>2
    <3>3. CASE m # k BY <1>9, <2>1, <3>1, <3>3 DEF ChainInv, Beyond
    <3> QED BY <3>2, <3>3
  <2> QED BY <1>0, <1>6, <2>1 DEF Beyond
<1>19. NotBegun' BY <1>4, <1>6 DEF NotBegun
<1>20. LastSettles'
  <2>1. passed = {} => future \in {"none", "pending"} BY <1>1 DEF ChainInv, LastSettles
  <2> QED BY <1>6, <2>1 DEF LastSettles
<1>21. NeverStranded' BY <1>6, <1>8 DEF ChainInv, NeverStranded
<1> QED
  BY <1>7, <1>10, <1>11, <1>12, <1>14, <1>17, <1>18, <1>19, <1>20, <1>21 DEF ChainInv

----------------------------------------------------------------------------
(* Frames are left.                                                        *)

\* The work and the continuations that go with the frames above position n.
Lost(t, n) == {stack[t][i] : i \in n + 1 .. Len(stack[t])}

LEMMA Unwound ==
  ASSUME ChainInv, NEW t \in Threads, Running(t), NEW n \in 0 .. Len(stack[t]) - 1,
         stack' = [stack EXCEPT ![t] = SubSeq(stack[t], 1, n)],
         held' = held \ UNION {Takes(f) : f \in Lost(t, n)},
         cont' = Loses(Lost(t, n)),
         future # "none" => future' # "none",
         UNCHANGED <<own, kind, launched, item, passed, up>>,
         LastSettles'
  PROVE  ChainInv'
<1>0. Length \in Nat \ {0} /\ Stages = 1 .. Length /\ Stages' = Stages /\ Length' = Length
  BY StagesAre, StagesStay DEF ChainInv
<1>1. /\ FramesTyped'
      /\ Depths(t)' = 1 .. n /\ Depths(t) = 1 .. Len(stack[t]) /\ Len(stack[t]) \in Nat
      /\ \A i \in 1 .. n : i \in Depths(t) /\ stack'[t][i] = stack[t][i]
      /\ \A u \in Threads : u # t => stack'[u] = stack[u] /\ Depths(u)' = Depths(u)
  <2>1. Len(stack[t]) \in Nat BY StackIs DEF ChainInv
  <2>2. n \in 0 .. Len(stack[t]) BY <2>1
  <2>3. /\ SubSeq(stack[t], 1, n) \in Seq(ChainFrames) /\ Len(SubSeq(stack[t], 1, n)) = n
        /\ \A i \in 1 .. n : SubSeq(stack[t], 1, n)[i] = stack[t][i]
    BY <2>2, UnderIs DEF ChainInv
  <2> QED BY <2>1, <2>2, <2>3 DEF Depths, FramesTyped, ChainInv
<1>2. \A u \in Threads : \A i \in Depths(u)' :
        /\ i \in Depths(u) /\ stack'[u][i] = stack[u][i]
        /\ u = t => i <= n
  BY <1>1
\* What is lost.
<1>3. \A f \in Lost(t, n) : \E i \in Depths(t) : i > n /\ f = stack[t][i]
  BY <1>1 DEF Lost
<1>4. ASSUME NEW f \in Lost(t, n), NEW u \in Threads, NEW i \in Depths(u)'
      PROVE  stack[u][i].stage # f.stage
  <2>1. PICK j \in Depths(t) : j > n /\ f = stack[t][j] BY <1>3
  <2>2. u # t \/ i # j BY <1>1, <1>2, <2>1
  <2> QED BY <1>2, <2>1, <2>2 DEF ChainInv, OneFrame
<1>5. \A m \in Stages :
        /\ cont'[m] = cont[m] \/ (cont[m] = "function" /\ cont'[m] = "gone")
        /\ (\A f \in Lost(t, n) : f.stage # m) => cont'[m] = cont[m]
        /\ (\E f \in Lost(t, n) : f.stage = m) => cont'[m] # "function"
  BY DEF Loses
<1>6. cont' \in [Stages -> {"none", "function", "client", "gone"}]
  BY DEF Loses, ChainInv, ChainShape
<1>7. \A j : ExecutorOf(j)' = ExecutorOf(j) BY StagesStay
<1>8. ChainShape' BY <1>0, <1>6 DEF ChainInv, ChainShape
<1>9. OneFrame'
  <2>1. ASSUME NEW u \in Threads, NEW v \in Threads, NEW i \in Depths(u)', NEW j \in Depths(v)',
               stack'[u][i].stage = stack'[v][j].stage
        PROVE  u = v /\ i = j
    <3>1. i \in Depths(u) /\ j \in Depths(v) /\ stack[u][i].stage = stack[v][j].stage
      BY <1>2, <2>1
    <3> QED BY <3>1 DEF ChainInv, OneFrame
  <2> QED BY <2>1 DEF OneFrame
<1>10. ASSUME NEW j, HasFrame(j)' PROVE HasFrame(j)
  <2>0. PICK u \in Threads : \E i \in Depths(u)' : stack'[u][i].stage = j BY <1>10 DEF HasFrame
  <2>1. PICK i \in Depths(u)' : stack'[u][i].stage = j BY <2>0
  <2>2. i \in Depths(u) /\ stack[u][i].stage = j BY <1>2, <2>1
  <2> QED BY <2>2 DEF HasFrame
<1>11. FrameShape'
  <2>1. ASSUME NEW u \in Threads, NEW i \in Depths(u)'
        PROVE  LET g == stack[u][i]
               IN  /\ g.stage \in 0 .. Length
                   /\ g.phase = "call" => g.stage > 0
                   /\ g.phase = "more" => g.stage < Length
                   /\ g.phase = "inside" => g.stage \in Stages /\ cont'[g.stage] # "none"
                   /\ g.phase # "inside" /\ g.stage \in Stages => cont'[g.stage] = "none"
                   /\ g.catch => future' # "none"
    <3>1. \A f \in Lost(t, n) : f.stage # stack[u][i].stage BY <1>4
    <3>2. stack[u][i].stage \in Stages => cont'[stack[u][i].stage] = cont[stack[u][i].stage]
      BY <1>5, <3>1
    <3> QED BY <1>2, <3>2 DEF ChainInv, FrameShape
  <2>2. ASSUME NEW u \in Threads, NEW i \in Depths(u)'
        PROVE  LET g == stack'[u][i]
               IN  /\ g.stage \in 0 .. Length
                   /\ g.phase = "call" => g.stage > 0
                   /\ g.phase = "more" => g.stage < Length
                   /\ g.phase = "inside" => g.stage \in Stages /\ cont'[g.stage] # "none"
                   /\ g.phase # "inside" /\ g.stage \in Stages => cont'[g.stage] = "none"
                   /\ g.catch => future' # "none"
    <3>1. stack'[u][i] = stack[u][i] BY <1>2
    <3> QED BY <2>1, <3>1
  <2> QED BY <1>0, <2>2 DEF FrameShape
<1>12. ItemShape' BY <1>0, <1>5, <1>10 DEF ChainInv, ItemShape
<1>13. ContShape'
  <2>1. ASSUME NEW m \in Stages, cont'[m] = "function" PROVE HasFrame(m)'
    <3>1. cont[m] = "function" /\ \A f \in Lost(t, n) : f.stage # m BY <1>5, <2>1
    <3>2. PICK u \in Threads : \E i \in Depths(u) : stack[u][i].stage = m
      BY <3>1 DEF ChainInv, ContShape, HasFrame
    <3>3. PICK i \in Depths(u) : stack[u][i].stage = m BY <3>2
    <3>4. ~(u = t /\ i > n)
      <4>1. ASSUME u = t, i > n PROVE FALSE
        <5>1. i \in n + 1 .. Len(stack[t]) BY <1>1, <3>3, <4>1
        <5>2. stack[t][i] \in Lost(t, n) BY <5>1 DEF Lost
        <5> QED BY <3>1, <3>3, <4>1, <5>2
      <4> QED BY <4>1
    <3>5. i \in Depths(u)' BY <1>1, <3>3, <3>4
    <3> QED BY <1>2, <3>3, <3>5 DEF HasFrame
  <2>2. \A m \in passed : cont'[m] # "none" BY <1>5 DEF ChainInv, ContShape, ChainShape
  <2>3. \A m \in Stages : cont'[m] # "none" => m < Length BY <1>5 DEF ChainInv, ContShape
  <2> QED BY <1>0, <2>1, <2>2, <2>3 DEF ContShape
<1>14. \A j \in 0 .. Length : Touched(j)' => Touched(j) BY <1>0, <1>5, <1>10 DEF Touched
<1>15. \A j \in 0 .. Length : Open(j)' => Open(j)
  <2>1. \A m \in Stages : cont'[m] \in {"function", "client"} => cont'[m] = cont[m] BY <1>5
  <2> QED BY <1>0, <1>2, <2>1 DEF Open
\* What is lost holds nothing that is still to come.
<1>16. ASSUME NEW k \in 0 .. Length, Open(k)', NEW f \in Lost(t, n)
       PROVE  Takes(f) \cap k + 1 .. Length = {}
  <2> DEFINE j == f.stage
  <2>0. /\ \A h \in 0 .. Length : Touched(h) => h <= k
        /\ \A h \in 0 .. Length : Open(h) => h = k
        /\ item.on # "nowhere" => item.stage = k
    BY <1>15, <1>16, OpenIsAlone
  <2>1. PICK i \in Depths(t) : i > n /\ f = stack[t][i] BY <1>3
  <2>2. j \in 0 .. Length /\ HasFrame(j) BY <2>1 DEF HasFrame, ChainInv, FrameShape
  <2>3. j <= k BY <2>0, <2>2 DEF Touched
  <2>4. CASE j \in Stages /\ cont[j] \in {"client", "gone"} BY <2>4 DEF Takes
  <2>5. CASE ~(j \in Stages /\ cont[j] \in {"client", "gone"})
    <3>1. ASSUME j = k PROVE FALSE
      <4>1. ASSUME NEW u \in Threads, NEW h \in Depths(u)' PROVE stack'[u][h].stage # k
        <5>1. stack[u][h].stage # j BY <1>4
        <5> QED BY <1>2, <3>1, <5>1
      <4>2. item.on = "nowhere" \/ item.stage # k BY <2>2, <3>1 DEF ChainInv, ItemShape
      <4>3. k \in Stages => cont'[k] \notin {"function", "client"}
        BY <1>5, <2>5, <3>1
      <4> QED BY <1>0, <1>16, <4>1, <4>2, <4>3 DEF Open
    <3>2. ~Open(j) BY <2>0, <2>2, <3>1
    <3>3. f.phase = "leave" \/ j \in passed
      <4>1. f.phase \notin {"call", "more"} BY <2>1, <3>2 DEF Open
      <4>2. CASE f.phase = "inside"
        <5>1. j \in Stages /\ cont[j] # "none" BY <2>1, <4>2 DEF ChainInv, FrameShape
        <5>2. cont[j] = "function" BY <2>5, <5>1 DEF ChainInv, ChainShape
        <5> QED BY <3>2, <5>1, <5>2 DEF Open
      <4>3. f.phase \in {"call", "more", "inside", "leave"}
        BY <2>1, StackIs DEF ChainInv, ChainFrames
      <4> QED BY <4>1, <4>2, <4>3
    <3>4. Takes(f) = {j + 1} BY <2>5, <3>3 DEF Takes, Goes
    <3> HIDE DEF j
    <3> QED BY <1>0, <2>2, <2>3, <3>1, <3>4
  <2> QED BY <2>4, <2>5
<1>17. Frontier'
  <2>1. ASSUME NEW k \in 0 .. Length, Open(k)'
        PROVE  (\A j \in 0 .. Length : Touched(j)' => j <= k) /\ k + 1 .. Length \subseteq held'
    <3>1. Open(k) BY <1>15, <2>1
    <3>2. k + 1 .. Length \subseteq held BY <3>1 DEF ChainInv, Frontier
    <3>3. \A f \in Lost(t, n) : Takes(f) \cap k + 1 .. Length = {} BY <1>16, <2>1
    <3>4. k + 1 .. Length \subseteq held' BY <3>2, <3>3
    <3>5. \A j \in 0 .. Length : Touched(j)' => j <= k BY <1>14, <3>1 DEF ChainInv, Frontier
    <3> QED BY <3>4, <3>5
  <2> QED BY <1>0, <2>1 DEF Frontier
<1>18. Beyond' BY <1>0, <1>5, <1>14 DEF ChainInv, Beyond
<1>19. NotBegun'
  <2>1. launched BY DEF ChainInv, NotBegun, Running
  <2> QED BY <2>1 DEF NotBegun
<1>20. NeverStranded' BY <1>7 DEF ChainInv, NeverStranded
<1> QED
  BY <1>1, <1>8, <1>9, <1>11, <1>12, <1>13, <1>17, <1>18, <1>19, <1>20 DEF ChainInv

LEMMA ReturnKeeps ==
  ASSUME ChainInv, NEW t \in Threads, Return(t)
  PROVE  ChainInv'
<1> DEFINE n == Len(stack[t]) - 1
<1>1. Running(t) /\ Len(stack[t]) \in Depths(t) /\ Len(stack[t]) \in Nat /\ n \in 0 .. Len(stack[t]) - 1
  BY StackIs DEF Return, ChainInv
<1>2. Lost(t, n) = {Top(t)}
  <2>1. n + 1 .. Len(stack[t]) = {Len(stack[t])} BY <1>1
  <2> QED BY <2>1 DEF Lost, Top
<1>3. /\ stack' = [stack EXCEPT ![t] = SubSeq(stack[t], 1, n)]
      /\ held' = held \ UNION {Takes(f) : f \in Lost(t, n)}
      /\ cont' = Loses(Lost(t, n))
      /\ UNCHANGED <<own, kind, launched, item, passed, up, future>>
  BY <1>2 DEF Return, Under
<1>4. LastSettles'
  <2>1. /\ FramesTyped /\ Len(stack[t]) \in Nat /\ n \in 0 .. Len(stack[t]) BY <1>1 DEF ChainInv
  <2>2. /\ Len(SubSeq(stack[t], 1, n)) = n
        /\ \A i \in 1 .. n : SubSeq(stack[t], 1, n)[i] = stack[t][i]
    BY <2>1, UnderIs
  <2>3. \A u \in Threads : \A i \in Depths(u)' : i \in Depths(u) /\ stack'[u][i] = stack[u][i]
    BY <1>1, <1>3, <2>2 DEF Depths, ChainInv, FramesTyped
  <2>4. LastSettles BY DEF ChainInv
  <2>5. UNCHANGED <<passed, item, future>> BY <1>3
  <2> HIDE DEF n
  <2> QED BY <2>3, <2>4, <2>5 DEF LastSettles
<1> HIDE DEF n
<1> QED BY <1>1, <1>3, <1>4, Unwound DEF n

LEMMA ThrowKeeps ==
  ASSUME ChainInv, NEW t \in Threads, Throw(t)
  PROVE  ChainInv'
<1> DEFINE s       == stack[t]
           k       == Top(t).stage
           catches == {i \in 1 .. Len(s) : s[i].catch}
           n       == IF catches = {} \/ future \in {"value", "exception", "error"} THEN 0
                      ELSE (CHOOSE i \in catches : \A j \in catches : j <= i) - 1
<1>0. Length \in Nat \ {0} /\ Stages = 1 .. Length BY StagesAre DEF ChainInv
<1>1. /\ Running(t) /\ Len(s) \in Depths(t) /\ Len(s) \in Nat /\ Len(s) > 0
      /\ s[Len(s)] = Top(t) /\ Top(t).phase \in {"call", "inside"}
  BY StackIs DEF Throw, ChainInv, Top
<1>2. IsFiniteSet(catches) /\ catches \subseteq 1 .. Len(s)
  <2>1. IsFiniteSet(1 .. Len(s)) BY <1>1, FS_Interval
  <2> QED BY <2>1, FS_Subset
<1>3. catches # {} => \E i \in catches : \A j \in catches : j <= i
  BY <1>1, <1>2, GreatestIn
<1>4. n \in 0 .. Len(s) - 1
  <2>1. CASE catches = {} \/ future \in {"value", "exception", "error"} BY <1>1, <2>1
  <2>2. CASE ~(catches = {} \/ future \in {"value", "exception", "error"})
    <3> DEFINE i == CHOOSE i \in catches : \A j \in catches : j <= i
    <3>1. i \in catches BY <1>3, <2>2
    <3>2. n = i - 1 BY <2>2
    <3> HIDE DEF i, n, catches
    <3>3. i \in 1 .. Len(s) BY <1>2, <3>1
    <3> QED BY <1>1, <3>2, <3>3
  <2> QED BY <2>1, <2>2
<1>5. /\ stack' = [stack EXCEPT ![t] = SubSeq(s, 1, n)]
      /\ held' = held \ UNION {Takes(f) : f \in Lost(t, n)}
      /\ cont' = Loses(Lost(t, n))
      /\ Catch(Cardinality(catches))
      /\ UNCHANGED <<own, kind, launched, item, passed, up>>
  BY DEF Throw, Lost
<1>6. future # "none" => future' # "none" BY <1>5 DEF Catch, Settle
<1>7. LastSettles'
  <2>1. n \in 0 .. Len(stack[t]) /\ FramesTyped BY <1>1, <1>4 DEF ChainInv
  <2>2. /\ Len(SubSeq(stack[t], 1, n)) = n
        /\ \A i \in 1 .. n : SubSeq(stack[t], 1, n)[i] = stack[t][i]
    BY <2>1, UnderIs
  <2>3. \A u \in Threads : \A i \in Depths(u)' :
          i \in Depths(u) /\ stack'[u][i] = stack[u][i] /\ (u = t => i # Len(s))
    <3> HIDE DEF n
    <3> QED BY <1>1, <1>4, <1>5, <2>2 DEF Depths, ChainInv, FramesTyped
  <2>4. ASSUME passed = {}
        PROVE  /\ future' # "error"
               /\ future' \notin {"none", "pending"} =>
                    item.on = "nowhere"
                    /\ \A u \in Threads : \A i \in Depths(u)' : stack'[u][i].phase = "leave"
    <3>1. future \in {"none", "pending"} BY <1>1, <2>4 DEF ChainInv, LastSettles
    <3>2. CASE catches = {}
      <4>1. Cardinality(catches) = 0 BY <3>2, FS_EmptySet
      <4>2. future' = future BY <1>5, <4>1 DEF Catch
      <4> QED BY <3>1, <4>2
    <3>3. CASE catches # {}
      <4>1. future = "pending" BY <3>1, <3>3, <1>1 DEF Depths, ChainInv, FrameShape
      <4>2. Cardinality(catches) # 0 BY <1>2, <3>3, FS_EmptySet
      <4>3. future' = "exception" BY <1>5, <4>1, <4>2 DEF Catch, Settle
      <4>4. k \in Stages /\ Touched(k) /\ HasFrame(k)
            /\ (Top(t).phase = "inside" => cont[k] # "none")
        BY <1>0, <1>1 DEF ChainInv, FrameShape, Touched, HasFrame
      <4>5. \A j \in 0 .. Length : Touched(j) => j <= k
        <5>1. CASE Top(t).phase = "inside" BY <2>4, <4>4, <5>1 DEF ChainInv, Beyond
        <5>2. CASE Top(t).phase = "call"
          <6>1. Open(k) BY <1>1, <5>2 DEF Open
          <6> QED BY <1>0, <4>4, <6>1 DEF ChainInv, Frontier
        <5> QED BY <1>1, <5>1, <5>2
      <4>6. item.on = "nowhere"
        <5>1. ASSUME item.on # "nowhere" PROVE FALSE
          <6> DEFINE j == item.stage
          <6>1. j \in 0 .. Length /\ Open(j) /\ Touched(j) /\ ~HasFrame(j)
            BY <5>1 DEF ChainInv, ItemShape, Open, Touched
          <6>2. j <= k BY <4>5, <6>1
          <6>3. k <= j BY <1>0, <4>4, <6>1 DEF ChainInv, Frontier
          <6>4. j = k BY <1>0, <4>4, <6>1, <6>2, <6>3
          <6> QED BY <4>4, <6>1, <6>4
        <5> QED BY <5>1
      <4>7. ASSUME NEW u \in Threads, NEW i \in Depths(u), u # t \/ i # Len(s)
            PROVE  stack[u][i].phase = "leave"
        <5> DEFINE j == stack[u][i].stage
        <5>1. j # k BY <1>1, <4>7 DEF ChainInv, OneFrame
        <5>2. j \in 0 .. Length /\ Touched(j) BY DEF ChainInv, FrameShape, Touched, HasFrame
        <5>3. j <= k BY <4>5, <5>2
        <5>4. ~Open(j)
          <6>1. ASSUME Open(j) PROVE FALSE
            <7>1. k <= j BY <1>0, <4>4, <5>2, <6>1 DEF ChainInv, Frontier
            <7> HIDE DEF j, k
            <7> QED BY <1>0, <4>4, <5>1, <5>2, <5>3, <7>1
          <6> QED BY <6>1
        <5>5. stack[u][i].phase \notin {"call", "more"} BY <5>4 DEF Open
        <5>6. ASSUME stack[u][i].phase = "inside" PROVE FALSE
          <6>1. j \in Stages /\ cont[j] # "none" BY <5>6 DEF ChainInv, FrameShape
          <6>2. k <= j BY <1>0, <2>4, <4>4, <6>1 DEF ChainInv, Beyond
          <6> HIDE DEF j, k
          <6> QED BY <1>0, <4>4, <5>1, <5>2, <5>3, <6>2
        <5> QED BY <5>5, <5>6, StackIs DEF ChainInv, ChainFrames
      <4> QED BY <2>3, <4>3, <4>6, <4>7
    <3> QED BY <3>2, <3>3
  <2> QED BY <1>5, <2>4 DEF LastSettles
<1> HIDE DEF n
<1> QED BY <1>1, <1>4, <1>5, <1>6, <1>7, Unwound

LEMMA DropContinuationKeeps ==
  ASSUME ChainInv, NEW k \in Stages, DropContinuation(k)
  PROVE  ChainInv'
<1>0. Length \in Nat \ {0} /\ Stages = 1 .. Length /\ Stages' = Stages /\ Length' = Length
  BY StagesAre, StagesStay DEF ChainInv, DropContinuation
<1>1. /\ cont[k] = "client" /\ cont' = [cont EXCEPT ![k] = "gone"]
      /\ held' = held \ Goes(k, k \in passed)
      /\ UNCHANGED <<own, kind, launched, item, stack, passed, up, future>>
  BY DEF DropContinuation
<1>2. /\ cont'[k] = "gone" /\ \A m \in Stages : m # k => cont'[m] = cont[m]
      /\ cont' \in [Stages -> {"none", "function", "client", "gone"}]
  BY <1>1 DEF ChainInv, ChainShape
<1>3. \A j : ExecutorOf(j)' = ExecutorOf(j) BY <1>1, StagesStay
<1>4. \A m \in Stages : cont'[m] # "none" <=> cont[m] # "none" BY <1>1, <1>2
<1>5. ChainShape' BY <1>0, <1>1, <1>2 DEF ChainInv, ChainShape
<1>6. FramesTyped' /\ OneFrame' /\ LastSettles' BY <1>1 DEF ChainInv, FramesTyped, OneFrame, LastSettles, Depths
<1>7. \A u \in Threads : Depths(u)' = Depths(u) BY <1>1 DEF Depths
<1>8. \A j : HasFrame(j)' <=> HasFrame(j) BY <1>1, <1>7 DEF HasFrame
<1>9. FrameShape' BY <1>0, <1>1, <1>4, <1>7 DEF ChainInv, FrameShape
<1>10. ItemShape' BY <1>0, <1>1, <1>4, <1>8 DEF ChainInv, ItemShape
<1>11. ContShape' BY <1>0, <1>1, <1>2, <1>8 DEF ChainInv, ContShape, ChainShape
<1>12. \A j \in 0 .. Length : Touched(j)' => Touched(j) BY <1>0, <1>1, <1>4, <1>8 DEF Touched
<1>13. \A j \in 0 .. Length : Open(j)' => Open(j) /\ j # k
  <2>1. \A j \in 0 .. Length : Open(j)' => Open(j) BY <1>0, <1>1, <1>2, <1>7 DEF Open
  <2>2. ~Open(k)'
    <3>1. \A u \in Threads : \A i \in Depths(u) :
            stack[u][i].stage = k => stack[u][i].phase \notin {"call", "more"}
      BY <1>1 DEF ChainInv, FrameShape
    <3>2. item.on # "nowhere" => item.stage # k BY <1>1 DEF ChainInv, ItemShape
    <3> QED BY <1>1, <1>2, <1>7, <3>1, <3>2 DEF Open
  <2> QED BY <2>1, <2>2
<1>14. Frontier'
  <2>1. ASSUME NEW m \in 0 .. Length, Open(m)'
        PROVE  (\A j \in 0 .. Length : Touched(j)' => j <= m) /\ m + 1 .. Length \subseteq held'
    <3>1. Open(m) /\ m # k BY <1>13, <2>1
    <3>2. m + 1 .. Length \subseteq held /\ \A j \in 0 .. Length : Touched(j) => j <= m
      BY <3>1 DEF ChainInv, Frontier
    <3>3. k <= m /\ k < m BY <1>0, <1>1, <3>1, <3>2 DEF Touched
    <3>4. k \in passed
      <4>1. ASSUME k \notin passed PROVE FALSE
        <5>1. Open(k) BY <1>1, <4>1 DEF Open
        <5>2. k \in 0 .. Length BY <1>0
        <5> QED BY <3>1, <5>1, <5>2, OpenIsAlone
      <4> QED BY <4>1
    <3>5. held' = held \ {k + 1} BY <1>1, <3>4 DEF Goes
    <3>6. m + 1 .. Length \subseteq held' BY <1>0, <3>2, <3>3, <3>5
    <3> QED BY <1>12, <3>2, <3>6
  <2> QED BY <1>0, <2>1 DEF Frontier
<1>15. Beyond' BY <1>0, <1>1, <1>4, <1>12 DEF ChainInv, Beyond
<1>16. NotBegun'
  <2>1. launched BY <1>1 DEF ChainInv, NotBegun
  <2> QED BY <1>1, <2>1 DEF NotBegun
<1>17. NeverStranded' BY <1>1, <1>3 DEF ChainInv, NeverStranded
<1> QED BY <1>5, <1>6, <1>9, <1>10, <1>11, <1>14, <1>15, <1>16, <1>17 DEF ChainInv

LEMMA LoopReturnsKeeps ==
  ASSUME ChainInv, NEW l \in Loops, LoopReturns(l)
  PROVE  ChainInv'
<1>0. Stages' = Stages /\ Length' = Length /\ \A j : ExecutorOf(j)' = ExecutorOf(j)
  BY StagesStay DEF LoopReturns
<1>1. /\ launched /\ up' = up \ {l} /\ item.on # l /\ \A k \in held : ExecutorOf(k) # l
      /\ UNCHANGED <<own, kind, launched, item, stack, cont, passed, held, future>>
  BY DEF LoopReturns, Busy
<1>2. /\ \A u : Depths(u)' = Depths(u)
      /\ \A k : (HasFrame(k)' <=> HasFrame(k)) /\ (Touched(k)' <=> Touched(k)) /\ (Open(k)' <=> Open(k))
  BY <1>0, <1>1 DEF Depths, HasFrame, Touched, Open
<1>3. ChainShape' /\ FramesTyped' /\ FrameShape' /\ OneFrame'
  BY <1>0, <1>1, <1>2 DEF ChainInv, ChainShape, FramesTyped, FrameShape, OneFrame
<1>4. ItemShape' /\ ContShape' /\ Frontier' /\ Beyond'
  BY <1>0, <1>1, <1>2 DEF ChainInv, ItemShape, ContShape, Frontier, Beyond
<1>5. NotBegun' /\ LastSettles'
  BY <1>1, <1>2 DEF ChainInv, NotBegun, LastSettles
<1>6. NeverStranded' BY <1>0, <1>1 DEF ChainInv, NeverStranded
<1> QED BY <1>3, <1>4, <1>5, <1>6 DEF ChainInv

----------------------------------------------------------------------------
(* The theorem.                                                            *)

LEMMA ChainInit ==
  ASSUME ChainStart(Nat \ {0}) PROVE ChainInv
<1>1. PICK N \in Nat \ {0} :
        /\ own \in [1 .. N -> Loops \cup {"system", "promise", "inherit"}]
        /\ \A k \in 1 .. N - 1 : own[k] # "promise"
        /\ kind \in [1 .. N -> {"plain", "passing"}] /\ kind[N] = "plain"
  BY DEF ChainStart
<1>2. own \in Seq(Loops \cup {"system", "promise", "inherit"}) /\ Len(own) = N BY <1>1
<1>3. Length = N /\ Stages = 1 .. N BY <1>1, <1>2 DEF Length, Stages
<1>4. /\ launched = FALSE /\ item = Nowhere /\ stack = [t \in Threads |-> <<>>]
      /\ cont = [k \in Stages |-> "none"] /\ passed = {} /\ held = {} /\ up = Loops
      /\ future = (IF own[N] = "promise" THEN "pending" ELSE "none")
  BY <1>2 DEF ChainStart
<1>5. ChainShape
  <2>1. \A k \in Stages : own[k] = "promise" => k = Length /\ future # "none"
    BY <1>1, <1>3, <1>4
  <2>2. kind \in [Stages -> {"plain", "passing"}] /\ kind[Length] = "plain" /\ Length > 0
    BY <1>1, <1>3
  <2>3. cont \in [Stages -> {"none", "function", "client", "gone"}] BY <1>4
  <2>4. passed \subseteq Stages /\ held \subseteq Stages /\ up \subseteq Loops /\ launched \in BOOLEAN
    BY <1>4
  <2> QED BY <1>2, <2>1, <2>2, <2>3, <2>4 DEF ChainShape
<1>6. \A t \in Threads : stack[t] = <<>> /\ Depths(t) = {} BY <1>4 DEF Depths
<1>7. FramesTyped BY <1>4 DEF FramesTyped
<1>8. FrameShape /\ OneFrame BY <1>6 DEF FrameShape, OneFrame
<1>9. item.on = "nowhere" /\ item.catch = FALSE /\ item = Nowhere BY <1>4 DEF Nowhere
<1>10. ItemShape BY <1>9 DEF ItemShape
<1>11. \A k \in Stages : cont[k] = "none" BY <1>4
<1>12. ContShape BY <1>4, <1>11 DEF ContShape
<1>13. Frontier /\ Beyond BY <1>6, <1>9, <1>11 DEF Frontier, Beyond, Open
<1>14. NotBegun /\ LastSettles BY <1>4, <1>6, <1>11 DEF NotBegun, LastSettles
<1>15. NeverStranded BY <1>4 DEF NeverStranded
<1> QED BY <1>5, <1>7, <1>8, <1>10, <1>12, <1>13, <1>14, <1>15 DEF ChainInv

LEMMA ChainStepKeeps ==
  ASSUME ChainInv, [ChainNext]_chainVars PROVE ChainInv'
<1>1. ASSUME NEW t \in Threads,
             \/ Begin(t) \/ CallPlain(t) \/ HandOver(t) \/ Return(t) \/ Throw(t)
             \/ \E keeper \in {"function", "client"} : CallPassing(t, keeper)
      PROVE  ChainInv'
  BY <1>1, BeginKeeps, CallPlainKeeps, HandOverKeepsChain, ReturnKeeps, ThrowKeeps, CallPassingKeeps
<1>2. CASE \E l \in Loops : LoopReturns(l) BY <1>2, LoopReturnsKeeps
<1>3. CASE \/ PostHead \/ DispatchHead \/ DeferHead
           \/ \E e \in Loops \cup {"system"} : Post(e) \/ DispatchTo(e) \/ Defer(e)
  BY <1>3, LaunchesKeep
<1>4. CASE \E t \in Threads, k \in Stages : CallContinuation(t, k)
  BY <1>4, CallContinuationKeeps
<1>5. CASE \E k \in Stages : DropContinuation(k) BY <1>5, DropContinuationKeeps
<1>6. CASE UNCHANGED chainVars
  <2>1. UNCHANGED <<own, kind, launched, item, stack, cont, passed, held, up, future>>
    BY <1>6 DEF chainVars
  <2>2. Stages' = Stages /\ Length' = Length /\ \A j : ExecutorOf(j)' = ExecutorOf(j)
    BY <2>1, StagesStay
  <2>3. /\ \A u : Depths(u)' = Depths(u)
        /\ \A k : (HasFrame(k)' <=> HasFrame(k)) /\ (Touched(k)' <=> Touched(k)) /\ (Open(k)' <=> Open(k))
    BY <2>1, <2>2 DEF Depths, HasFrame, Touched, Open
  <2>4. ChainShape' /\ FramesTyped' /\ FrameShape' /\ OneFrame'
    BY <2>1, <2>2, <2>3 DEF ChainInv, ChainShape, FramesTyped, FrameShape, OneFrame
  <2>5. ItemShape' /\ ContShape' /\ Frontier' /\ Beyond'
    BY <2>1, <2>2, <2>3 DEF ChainInv, ItemShape, ContShape, Frontier, Beyond
  <2>6. NotBegun' /\ LastSettles' /\ NeverStranded'
    BY <2>1, <2>2, <2>3 DEF ChainInv, NotBegun, LastSettles, NeverStranded
  <2> QED BY <2>4, <2>5, <2>6 DEF ChainInv
<1> QED BY <1>1, <1>2, <1>3, <1>4, <1>5, <1>6 DEF ChainNext, ChainGoes

\* The function object in a queue, and the promise.
ItemTyped ==
  /\ item \in [on : Threads \cup {"nowhere"}, stage : 0 .. Length, catch : BOOLEAN]
  /\ future \in {"none", "pending", "value", "exception", "error"}

LEMMA ItemStart == ASSUME ChainInv, ChainStart(Nat \ {0}) PROVE ItemTyped
<1>1. item = [on |-> "nowhere", stage |-> 0, catch |-> FALSE] /\ future \in {"pending", "none"}
  BY DEF ChainStart, Nowhere
<1>2. Length \in Nat BY StagesAre DEF ChainInv
<1> QED BY <1>1, <1>2 DEF ItemTyped

\* What is handed over is a function of the chain, or the head's invoker.
ItemGoes ==
  \/ item' = item \/ item' = Nowhere
  \/ \E k \in 0 .. Length, e \in Loops \cup {"system", "promise"} : Enqueue(k, e)

LEMMA HandedOver ==
  ASSUME ChainInv, NEW t \in Threads, NEW s, NEW k \in Stages, Dispatch(t, s, k, ExecutorOf(k))
  PROVE  ItemGoes
<1>1. k \in 0 .. Length BY StagesAre DEF ChainInv
<1>2. ExecutorOf(k) \in Loops \cup {"system", "promise"} BY ExecutorIs
<1>3. UNCHANGED item \/ Enqueue(k, ExecutorOf(k)) BY DEF Dispatch
<1> QED BY <1>1, <1>2, <1>3 DEF ItemGoes

LEMMA LaunchHandsOver ==
  ASSUME ChainInv, NEW k \in {0, 1}, NEW e \in Loops \cup {"system", "promise"}, NEW nested \in BOOLEAN,
         Launch(e, k, nested)
  PROVE  ItemGoes
<1>1. k \in 0 .. Length BY StagesAre DEF ChainInv
<1>2. UNCHANGED item \/ Enqueue(k, e) BY DEF Launch, Dispatch
<1> QED BY <1>1, <1>2 DEF ItemGoes

LEMMA ItemMoves ==
  ASSUME ChainInv, ItemTyped, [ChainNext]_chainVars
  PROVE  ItemGoes /\ UNCHANGED own /\ future' \in {"none", "pending", "value", "exception", "error"}
<1> USE DEF ItemTyped
<1>0. Length \in Nat \ {0} /\ Stages = 1 .. Length BY StagesAre DEF ChainInv
<1>1. ASSUME NEW t \in Threads, Begin(t) \/ CallPlain(t) \/ Return(t) \/ Throw(t)
             \/ \E keeper \in {"function", "client"} : CallPassing(t, keeper)
      PROVE  (item' = item \/ item' = Nowhere) /\ UNCHANGED own
  BY <1>1 DEF Begin, CallPlain, Return, Throw, CallPassing
<1>2. ASSUME NEW t \in Threads, Begin(t) \/ CallPlain(t) \/ Return(t) \/ Throw(t)
             \/ \E keeper \in {"function", "client"} : CallPassing(t, keeper)
      PROVE  future' \in {"none", "pending", "value", "exception", "error"}
  <2>1. CASE UNCHANGED future BY <2>1
  <2>2. CASE CallPlain(t) BY <2>2 DEF CallPlain, Settle
  <2>3. CASE Throw(t)
    <3>1. PICK n : Catch(n) BY <2>3 DEF Throw
    <3> QED BY <3>1 DEF Catch, Settle
  <2> QED BY <1>2, <2>1, <2>2, <2>3 DEF Begin, Return, CallPassing
<1>3. ASSUME NEW t \in Threads, HandOver(t) PROVE ItemGoes /\ UNCHANGED <<own, future>>
  <2> DEFINE k == Top(t).stage + 1
  <2>1. Running(t) /\ Top(t).phase = "more" BY <1>3 DEF HandOver
  <2>2. Len(stack[t]) \in Depths(t) BY <2>1, StackIs DEF ChainInv
  <2>3. Top(t).stage \in 0 .. Length /\ Top(t).stage < Length BY <2>1, <2>2 DEF ChainInv, FrameShape, Top
  <2>4. k \in Stages BY <1>0, <2>3
  <2>5. PICK s : Dispatch(t, s, k, ExecutorOf(k)) BY <1>3 DEF HandOver
  <2> HIDE DEF k
  <2> QED BY <1>3, <2>4, <2>5, HandedOver DEF HandOver
<1>4. ASSUME NEW t \in Threads, NEW k \in Stages, CallContinuation(t, k)
      PROVE  ItemGoes /\ UNCHANGED <<own, future>>
  <2>1. cont[k] # "none" BY <1>4 DEF CallContinuation
  <2>2. k < Length BY <2>1 DEF ChainInv, ContShape
  <2>3. k + 1 \in Stages BY <1>0, <2>2
  <2>4. Dispatch(t, stack[t], k + 1, ExecutorOf(k + 1)) BY <1>4 DEF CallContinuation
  <2> QED BY <1>4, <2>3, <2>4, HandedOver DEF CallContinuation
<1>5. ASSUME \/ PostHead \/ DispatchHead \/ DeferHead
             \/ \E e \in Loops \cup {"system"} : Post(e) \/ DispatchTo(e) \/ Defer(e)
      PROVE  ItemGoes /\ UNCHANGED <<own, future>>
  <2>1. ExecutorOf(1) \in Loops \cup {"system", "promise"} BY <1>0, ExecutorIs
  <2>2. PICK k \in {0, 1}, e \in Loops \cup {"system", "promise"}, nested \in BOOLEAN : Launch(e, k, nested)
    BY <1>5, <2>1 DEF PostHead, DispatchHead, DeferHead, Post, DispatchTo, Defer
  <2> QED BY <2>2, LaunchHandsOver DEF Launch
<1>6. ASSUME \/ \E l \in Loops : LoopReturns(l)
             \/ \E k \in Stages : DropContinuation(k)
             \/ UNCHANGED chainVars
      PROVE  UNCHANGED <<item, own, future>>
  BY <1>6 DEF LoopReturns, DropContinuation, chainVars
<1> QED BY <1>1, <1>2, <1>3, <1>4, <1>5, <1>6 DEF ChainNext, ChainGoes, ItemGoes

LEMMA ItemKeeps ==
  ASSUME ChainInv, ItemTyped, [ChainNext]_chainVars PROVE ItemTyped'
<1>1. ItemGoes /\ UNCHANGED own /\ future' \in {"none", "pending", "value", "exception", "error"}
  BY ItemMoves
<1>2. Length' = Length /\ Length \in Nat BY <1>1, StagesAre DEF Length, ChainInv
<1> DEFINE Items == [on : Threads \cup {"nowhere"}, stage : 0 .. Length, catch : BOOLEAN]
<1>3. item' \in Items
  <2>1. CASE item' = item BY <2>1 DEF ItemTyped
  <2>2. CASE item' = Nowhere BY <1>2, <2>2 DEF Nowhere
  <2>3. CASE \E k \in 0 .. Length, e \in Loops \cup {"system", "promise"} : Enqueue(k, e)
    <3>1. PICK k \in 0 .. Length, e \in Loops \cup {"system", "promise"} : Enqueue(k, e) BY <2>3
    <3>2. ThreadOf(e) \in Threads BY <3>1 DEF ThreadOf, Threads
    <3>3. (e = "promise") \in BOOLEAN OBVIOUS
    <3> QED BY <3>1, <3>2, <3>3 DEF Enqueue
  <2> QED BY <1>1, <2>1, <2>2, <2>3 DEF ItemGoes
<1> QED BY <1>1, <1>2, <1>3 DEF ItemTyped

\* The frames on a stack are of functions of the chain.
LEMMA ChainIsTyped ==
  ASSUME ChainInv, ItemTyped PROVE ChainTypeOK
<1> DEFINE Frames == [stage : 0 .. Length, catch : BOOLEAN, phase : {"call", "more", "inside", "leave"}]
<1>1. ASSUME NEW t \in Threads PROVE stack[t] \in Seq(Frames)
  <2>1. stack[t] \in Seq(ChainFrames) /\ \A i \in Depths(t) : stack[t][i] \in ChainFrames
    BY StackIs DEF ChainInv
  <2>2. \A i \in Depths(t) : stack[t][i] \in Frames BY <2>1 DEF ChainInv, FrameShape, ChainFrames
  <2> HIDE DEF Frames
  <2> QED BY <2>1, <2>2 DEF Depths
<1>2. stack \in [Threads -> Seq(Frames)] BY <1>1 DEF ChainInv, FramesTyped
<1> QED BY <1>2 DEF ChainInv, ChainShape, ItemTyped, ChainTypeOK

\* The types of a chain's state.
LEMMA ChainTypes == ChainSpec => []ChainTypeOK
<1>1. ChainStart(Nat \ {0}) => ChainInv /\ ItemTyped BY ChainInit, ItemStart
<1>2. ChainInv /\ ItemTyped /\ [ChainNext]_chainVars => (ChainInv /\ ItemTyped)'
  BY ChainStepKeeps, ItemKeeps
<1>3. ChainInv /\ ItemTyped => ChainTypeOK BY ChainIsTyped
<1> QED BY <1>1, <1>2, <1>3, PTL DEF ChainSpec

\* Of a chain of any length, over any loops: no function is handed to a loop
\* that has returned, and its promise is settled once (invoker.h:35-50, 218-221;
\* continuation.h:225-235; promise_handler.h:36-51).
THEOREM ChainsAreSound == ChainSpec => []ChainSound
<1>1. ChainStart(Nat \ {0}) => ChainInv BY ChainInit
<1>2. ChainInv /\ [ChainNext]_chainVars => ChainInv' BY ChainStepKeeps
<1>3. ChainInv => ChainSound BY InvImpliesSound
<1> QED BY <1>1, <1>2, <1>3, PTL DEF ChainSpec

----------------------------------------------------------------------------
(* The heads and the tail of a coinvoker.                                  *)

USE CoinvokerAssumption DEF CoinvokerAssumption

Left == {h \in Heads : PointsToTail(h)}

HeadsTyped == \E n \in 0 .. MaxHeads : head \in [1 .. n -> HeadStates]

CountTyped == pending \in 0 .. Wrap - 1

\* The tail is the launcher's until it is primed, then the heads' while there is
\* one left; from then on it is gone, and called or dropped.
Owner ==
  /\ tail \in {"launcher", "heads", "freed"}
  /\ tail = "launcher" <=> launch = "primed"
  /\ tail = "freed" <=> join # "waiting"
  /\ join \in {"waiting", "called", "dropped"}

Primed ==
  launch = "primed" => value = {} /\ \A h \in Heads : head[h] = "built"

\* The launcher hands over in order.
HandsInOrder ==
  /\ launch \in {"primed", "handing", "unwinding", "returned", "thrown"}
  /\ handed \in 0 .. MaxHeads /\ inline \in 0 .. MaxHeads
  /\ launch = "primed" => handed = 0
  /\ launch \in {"primed", "handing"} => \A h \in Heads : head[h] = "built" <=> h > handed

Values == value = {h \in Heads : head[h] \in {"set", "value"}}

Counted ==
  /\ tail = "heads" => pending = Cardinality(Left) /\ pending > 0
  /\ tail = "freed" => Left = {}

Flags == call \in Calls /\ incomplete \in BOOLEAN

CoinvokerInv == HeadsTyped /\ CountTyped /\ Owner /\ Primed /\ HandsInOrder /\ Values /\ Counted /\ Flags

----------------------------------------------------------------------------
(* Heads and their counter.                                                *)

LEMMA HeadsFinite ==
  ASSUME HeadsTyped
  PROVE  /\ Heads \subseteq Nat \ {0} /\ IsFiniteSet(Heads) /\ Cardinality(Heads) \in 0 .. MaxHeads
         /\ Heads = 1 .. Cardinality(Heads)
         /\ head \in [Heads -> HeadStates]
         /\ IsFiniteSet(Left) /\ Cardinality(Left) \in 0 .. MaxHeads
<1>1. PICK n \in 0 .. MaxHeads : head \in [1 .. n -> HeadStates] BY DEF HeadsTyped
<1>2. Heads = 1 .. n BY <1>1 DEF Heads
<1>3. IsFiniteSet(Heads) /\ Cardinality(Heads) = n BY <1>2, FS_Interval
<1>4. IsFiniteSet(Left) /\ Cardinality(Left) <= n /\ Cardinality(Left) \in Nat
  <2>1. Left \in SUBSET Heads BY DEF Left
  <2> QED BY <1>3, <2>1, FS_Subset, FS_CardinalityType
<1> QED BY <1>1, <1>2, <1>3, <1>4

LEMMA CountsDown ==
  ASSUME CountTyped
  PROVE  /\ \A k \in Nat : CountDown(k) \in 0 .. Wrap - 1
         /\ pending > 0 => CountDown(1) = pending - 1
<1>1. pending \in 0 .. Wrap - 1 /\ Wrap \in Nat /\ Wrap > 0 BY DEF CountTyped
<1>2. \A a \in Int : a % Wrap \in 0 .. Wrap - 1 BY <1>1
<1>3. \A a \in 0 .. Wrap - 1 : a % Wrap = a BY <1>1
<1> QED BY <1>1, <1>2, <1>3 DEF CountDown

\* One head fewer points to the tail.
LEMMA HeadLeaves ==
  ASSUME CoinvokerInv, NEW h \in Heads, PointsToTail(h), launch # "primed",
         NEW how \in {"value", "dropped"}, head' = [head EXCEPT ![h] = how], pending' = CountDown(1)
  PROVE  /\ HeadsTyped' /\ CountTyped' /\ Heads' = Heads
         /\ \A g \in Heads : head'[g] = IF g = h THEN how ELSE head[g]
         /\ tail = "heads" /\ join = "waiting"
         /\ Left' = Left \ {h} /\ pending' = Cardinality(Left') /\ pending > 0
         /\ (pending = 1 <=> Left' = {})
<1>1. PICK n \in 0 .. MaxHeads : head \in [1 .. n -> HeadStates] BY DEF CoinvokerInv, HeadsTyped
<1>2. Heads = 1 .. n BY <1>1 DEF Heads
<1>3. head' \in [1 .. n -> HeadStates] /\ \A g \in Heads : head'[g] = IF g = h THEN how ELSE head[g]
  BY <1>1, <1>2 DEF HeadStates
<1>4. Heads' = Heads BY <1>2, <1>3 DEF Heads
<1>5. h \in Left BY DEF Left
<1>6. tail = "heads" /\ join = "waiting" BY <1>5 DEF CoinvokerInv, Owner, Counted
<1>7. pending = Cardinality(Left) /\ pending > 0 BY <1>6 DEF CoinvokerInv, Counted
<1>8. Left' = Left \ {h}
  <2>1. \A g \in Heads : PointsToTail(g)' <=> PointsToTail(g) /\ g # h BY <1>3 DEF PointsToTail
  <2> QED BY <1>4, <2>1 DEF Left
<1>9. IsFiniteSet(Left) /\ IsFiniteSet(Left \ {h}) /\ Cardinality(Left \ {h}) = Cardinality(Left) - 1
  BY <1>5, HeadsFinite, FS_RemoveElement DEF CoinvokerInv
<1>10. pending' = pending - 1 /\ pending' \in 0 .. Wrap - 1 BY <1>7, CountsDown DEF CoinvokerInv
<1>11. pending \in Nat BY DEF CoinvokerInv, CountTyped
<1>12. pending = 1 <=> Left' = {}
  <2>1. Cardinality(Left \ {h}) = 0 <=> Left \ {h} = {} BY <1>9, FS_EmptySet
  <2> QED BY <1>7, <1>8, <1>9, <1>11, <2>1
<1>13. pending' = Cardinality(Left') BY <1>7, <1>8, <1>9, <1>10
<1> QED BY <1>1, <1>3, <1>4, <1>6, <1>7, <1>8, <1>10, <1>12, <1>13 DEF HeadsTyped, CountTyped

----------------------------------------------------------------------------
(* The invariant, action by action.                                        *)

\* A head that points to the tail ends; what else the step does keeps the
\* launcher's part.
LEMMA HeadEnds ==
  ASSUME CoinvokerInv, NEW h \in Heads, PointsToTail(h), launch # "primed",
         NEW how \in {"value", "dropped"}, head' = [head EXCEPT ![h] = how], pending' = CountDown(1),
         how = "value" <=> head[h] = "set",
         launch' = "handing" => launch = "handing" /\ head[h] # "built",
         launch' \in {"handing", "unwinding", "returned", "thrown"},
         inline' \in 0 .. MaxHeads, UNCHANGED <<call, value, handed>>, incomplete' \in BOOLEAN,
         IF pending = 1 THEN tail' = "freed" /\ join' \in {"called", "dropped"} ELSE UNCHANGED <<tail, join>>
  PROVE  CoinvokerInv'
<1>1. /\ HeadsTyped' /\ CountTyped' /\ Heads' = Heads
      /\ \A g \in Heads : head'[g] = IF g = h THEN how ELSE head[g]
      /\ tail = "heads" /\ join = "waiting"
      /\ Left' = Left \ {h} /\ pending' = Cardinality(Left') /\ pending > 0
      /\ (pending = 1 <=> Left' = {})
  BY HeadLeaves
<1>2. Owner'
  <2>1. launch' # "primed" OBVIOUS
  <2> QED BY <1>1, <2>1 DEF CoinvokerInv, Owner
<1>3. Primed' BY DEF Primed
<1>4. HandsInOrder'
  <2>1. launch' = "handing" => \A g \in Heads : head'[g] = "built" <=> g > handed
    BY <1>1 DEF CoinvokerInv, HandsInOrder
  <2> QED BY <1>1, <2>1 DEF CoinvokerInv, HandsInOrder
<1>5. Values'
  <2>1. \A g \in Heads : head'[g] \in {"set", "value"} <=> head[g] \in {"set", "value"}
    BY <1>1 DEF PointsToTail
  <2> QED BY <1>1, <2>1 DEF CoinvokerInv, Values
<1>6. Counted'
  <2>1. IsFiniteSet(Left') /\ Cardinality(Left') \in Nat
    <3>1. IsFiniteSet(Left) BY HeadsFinite DEF CoinvokerInv
    <3>2. IsFiniteSet(Left \ {h}) BY <3>1, FS_RemoveElement
    <3> QED BY <1>1, <3>2, FS_CardinalityType
  <2>2. CASE pending = 1 BY <1>1, <2>2 DEF Counted
  <2>3. CASE pending # 1
    <3>1. tail' = "heads" /\ Left' # {} BY <1>1, <2>3
    <3>2. Cardinality(Left') # 0 BY <2>1, <3>1, FS_EmptySet
    <3> QED BY <1>1, <2>1, <3>1, <3>2 DEF Counted
  <2> QED BY <2>2, <2>3
<1>7. Flags' BY DEF CoinvokerInv, Flags
<1> QED BY <1>1, <1>2, <1>3, <1>4, <1>5, <1>6, <1>7 DEF CoinvokerInv

\* A head goes on and still points to the tail.
LEMMA HeadGoesOn ==
  ASSUME CoinvokerInv, NEW h \in Heads, PointsToTail(h), launch # "primed",
         NEW on \in {"queued", "running", "set"}, head' = [head EXCEPT ![h] = on],
         head[h] # "set", value' = IF on = "set" THEN value \cup {h} ELSE value,
         handed' \in 0 .. MaxHeads, inline' \in 0 .. MaxHeads,
         UNCHANGED <<call, launch, pending, tail, join, incomplete>>,
         IF head[h] = "built" THEN (launch = "handing" => h = handed + 1 /\ handed' = h) ELSE UNCHANGED handed
  PROVE  CoinvokerInv'
<1>1. PICK n \in 0 .. MaxHeads : head \in [1 .. n -> HeadStates] BY DEF CoinvokerInv, HeadsTyped
<1>2. Heads = 1 .. n BY <1>1 DEF Heads
<1>3. head' \in [1 .. n -> HeadStates] /\ \A g \in Heads : head'[g] = IF g = h THEN on ELSE head[g]
  BY <1>1, <1>2 DEF HeadStates
<1>4. Heads' = Heads BY <1>2, <1>3 DEF Heads
<1>5. Left' = Left
  <2>1. \A g \in Heads : PointsToTail(g)' <=> PointsToTail(g) BY <1>3 DEF PointsToTail
  <2> QED BY <1>4, <2>1 DEF Left
<1>6. HeadsTyped' BY <1>3 DEF HeadsTyped
<1>7. CountTyped' /\ Owner' /\ Primed' /\ Counted' /\ Flags'
  <2>1. CountTyped' BY DEF CoinvokerInv, CountTyped
  <2>2. Owner' BY DEF CoinvokerInv, Owner
  <2>3. Counted' BY <1>5 DEF CoinvokerInv, Counted
  <2>4. Flags' BY DEF CoinvokerInv, Flags
  <2>5. Primed' BY DEF Primed
  <2> QED BY <2>1, <2>2, <2>3, <2>4, <2>5
<1>8. HandsInOrder'
  <2>1. ASSUME launch = "handing" PROVE \A g \in Heads : head'[g] = "built" <=> g > handed'
    <3>1. \A g \in Heads : head[g] = "built" <=> g > handed BY <2>1 DEF CoinvokerInv, HandsInOrder
    <3>2. handed \in Nat /\ \A g \in Heads : g \in Nat BY <1>2 DEF CoinvokerInv, HandsInOrder
    <3>3. CASE head[h] = "built"
      <4>1. h = handed + 1 /\ handed' = h BY <2>1, <3>3
      <4>2. \A g \in Heads : g > handed' <=> g > handed /\ g # h BY <3>2, <4>1
      <4> QED BY <1>3, <3>1, <4>2
    <3>4. CASE head[h] # "built" BY <1>3, <3>1, <3>4
    <3> QED BY <3>3, <3>4
  <2> QED BY <1>4, <2>1 DEF CoinvokerInv, HandsInOrder
<1>9. Values'
  <2>1. \A g \in Heads : head'[g] \in {"set", "value"} <=>
          (IF on = "set" THEN head[g] \in {"set", "value"} \/ g = h ELSE head[g] \in {"set", "value"})
    BY <1>3 DEF PointsToTail
  <2> QED BY <1>4, <2>1 DEF CoinvokerInv, Values
<1> QED BY <1>6, <1>7, <1>8, <1>9 DEF CoinvokerInv

\* The launcher's own steps, which leave the heads alone.
LEMMA LauncherKeeps ==
  ASSUME CoinvokerInv,
         (\E h \in Heads : HandOverFails(h)) \/ CoLaunchEnds
  PROVE  CoinvokerInv'
<1>1. /\ launch \in {"handing", "unwinding"} /\ launch' \in {"unwinding", "returned", "thrown"}
      /\ UNCHANGED <<call, head, value, handed, inline, pending, tail, join, incomplete>>
  BY DEF HandOverFails, HandsOver, CoLaunchEnds
<1>2. Left' = Left /\ Heads' = Heads BY <1>1 DEF Left, Heads, PointsToTail
<1>3. HeadsTyped' /\ Counted' /\ Values'
  BY <1>1, <1>2 DEF CoinvokerInv, HeadsTyped, Counted, Values
<1>4. CountTyped' /\ Flags' BY <1>1 DEF CoinvokerInv, CountTyped, Flags
<1>5. Owner'
  <2>1. launch # "primed" /\ launch' # "primed" BY <1>1
  <2> QED BY <1>1, <2>1 DEF CoinvokerInv, Owner
<1>6. Primed' /\ HandsInOrder' BY <1>1 DEF CoinvokerInv, HandsInOrder, Primed
<1> QED BY <1>3, <1>4, <1>5, <1>6 DEF CoinvokerInv

LEMMA LaunchFailsKeeps ==
  ASSUME CoinvokerInv, CoLaunchFails
  PROVE  CoinvokerInv'
<1>1. PICK n \in 0 .. MaxHeads : head \in [1 .. n -> HeadStates] BY DEF CoinvokerInv, HeadsTyped
<1>2. Heads = 1 .. n BY <1>1 DEF Heads
<1>3. head' \in [1 .. n -> HeadStates] /\ (\A g \in Heads : head'[g] = "dropped") /\ Heads' = Heads
  BY <1>1, <1>2 DEF HeadStates, CoLaunchFails, Heads
<1>4. Left' = {} BY <1>3 DEF Left, PointsToTail
<1>5. tail' = "freed" /\ join' = "dropped" /\ launch' = "thrown" /\ launch = "primed" BY DEF CoLaunchFails
<1>6. pending' \in 0 .. Wrap - 1
  <2>1. PICK k \in 0 .. Cardinality(Heads) : pending' = CountDown(k) BY DEF CoLaunchFails
  <2>2. k \in Nat BY HeadsFinite DEF CoinvokerInv
  <2> QED BY <2>1, <2>2, CountsDown DEF CoinvokerInv
<1>7. value' = {} /\ UNCHANGED <<call, handed, inline, incomplete>> BY <1>5 DEF CoLaunchFails, CoinvokerInv, Primed
<1>8. HeadsTyped' /\ CountTyped' BY <1>3, <1>6 DEF HeadsTyped, CountTyped
<1>9. Owner' BY <1>5 DEF Owner
<1>10. Values' BY <1>3, <1>7 DEF Values
<1>11. Counted' BY <1>4, <1>5 DEF Counted
<1>12. HandsInOrder' /\ Primed' BY <1>5, <1>7 DEF CoinvokerInv, HandsInOrder, Primed
<1>13. Flags' BY <1>7 DEF CoinvokerInv, Flags
<1> QED BY <1>8, <1>9, <1>10, <1>11, <1>12, <1>13 DEF CoinvokerInv

LEMMA PrimeKeeps ==
  ASSUME CoinvokerInv, Prime
  PROVE  CoinvokerInv'
<1>1. launch = "primed" /\ launch' = "handing" /\ UNCHANGED <<call, head, value, handed, inline>> BY DEF Prime
<1>2. value = {} /\ handed = 0 /\ (\A h \in Heads : head[h] = "built") BY <1>1 DEF CoinvokerInv, Primed, HandsInOrder
<1>3. Left' = Left /\ Heads' = Heads /\ Left = Heads
  <2>1. \A h \in Heads : PointsToTail(h) BY <1>2 DEF PointsToTail
  <2> QED BY <1>1, <2>1 DEF Left, Heads, PointsToTail
<1>4. HeadsTyped' /\ Values' BY <1>1, <1>3 DEF CoinvokerInv, HeadsTyped, Values
<1>5. HandsInOrder' BY <1>1 DEF CoinvokerInv, HandsInOrder, Heads
<1>6. Primed' BY <1>1 DEF Primed
<1>7. IsFiniteSet(Heads) /\ Cardinality(Heads) \in 0 .. MaxHeads BY HeadsFinite DEF CoinvokerInv
<1>8. join = "waiting" BY <1>1 DEF CoinvokerInv, Owner
<1>9. CASE Heads # {} /\ pending' = Cardinality(Heads) /\ tail' = "heads" /\ UNCHANGED <<join, incomplete>>
  <2>1. CountTyped' BY <1>7, <1>9 DEF CountTyped
  <2>2. Owner' BY <1>1, <1>8, <1>9 DEF Owner
  <2>3. Counted'
    <3>1. Cardinality(Heads) # 0 BY <1>7, <1>9, FS_EmptySet
    <3> QED BY <1>3, <1>7, <1>9, <3>1 DEF Counted
  <2>4. Flags' BY <1>1, <1>9 DEF CoinvokerInv, Flags
  <2> QED BY <1>4, <1>5, <1>6, <2>1, <2>2, <2>3, <2>4 DEF CoinvokerInv
<1>10. CASE Heads = {} /\ DispatchTail({}) /\ UNCHANGED pending
  <2>1. join' = "called" /\ tail' = "freed" /\ incomplete' = FALSE BY <1>10 DEF DispatchTail
  <2>2. CountTyped' BY <1>10 DEF CoinvokerInv, CountTyped
  <2>3. Owner' BY <1>1, <2>1 DEF Owner
  <2>4. Counted' BY <1>3, <1>10, <2>1 DEF Counted
  <2>5. Flags' BY <1>1, <2>1 DEF CoinvokerInv, Flags
  <2> QED BY <1>4, <1>5, <1>6, <2>2, <2>3, <2>4, <2>5 DEF CoinvokerInv
<1> QED BY <1>9, <1>10 DEF Prime

\* Only before the launch are all heads built and nothing counted.
LEMMA NotPrimed ==
  ASSUME CoinvokerInv, NEW h \in Heads, head[h] # "built"
  PROVE  launch # "primed"
BY DEF CoinvokerInv, Primed

LEMMA HandOverKeeps ==
  ASSUME CoinvokerInv, NEW h \in Heads, CoPost(h) \/ CoDefer(h) \/ CoDispatch(h)
  PROVE  CoinvokerInv'
<1>1. HandsOver(h) BY DEF CoPost, CoDefer, CoDispatch
<1>2. launch = "handing" /\ h = handed + 1 /\ handed \in 0 .. MaxHeads BY <1>1 DEF HandsOver, CoinvokerInv, HandsInOrder
<1>3. h \in Nat /\ h \in 0 .. MaxHeads BY HeadsFinite DEF CoinvokerInv
<1>4. head[h] = "built" BY <1>2, <1>3 DEF CoinvokerInv, HandsInOrder
<1>5. PointsToTail(h) BY <1>4 DEF PointsToTail
<1>6. PICK on \in {"queued", "running"} :
        /\ head' = [head EXCEPT ![h] = on] /\ handed' = h /\ inline' \in {inline, h}
        /\ UNCHANGED <<call, value, launch, pending, tail, join, incomplete>>
  BY DEF CoPost, CoDefer, CoDispatch, QueueHead
<1>7. inline' \in 0 .. MaxHeads BY <1>3, <1>6 DEF CoinvokerInv, HandsInOrder
<1> QED BY <1>2, <1>3, <1>4, <1>5, <1>6, <1>7, HeadGoesOn

LEMMA RunningKeeps ==
  ASSUME CoinvokerInv, NEW h \in Heads, BeginHead(h) \/ SetResult(h)
  PROVE  CoinvokerInv'
<1>1. PICK on \in {"running", "set"} :
        /\ head' = [head EXCEPT ![h] = on] /\ value' = IF on = "set" THEN value \cup {h} ELSE value
        /\ head[h] \in {"queued", "running"}
        /\ UNCHANGED <<call, launch, handed, inline, pending, tail, join, incomplete>>
  BY DEF BeginHead, SetResult
<1>2. PointsToTail(h) /\ launch # "primed" BY <1>1, NotPrimed DEF PointsToTail
<1>3. handed' \in 0 .. MaxHeads /\ inline' \in 0 .. MaxHeads BY <1>1 DEF CoinvokerInv, HandsInOrder
<1> QED BY <1>1, <1>2, <1>3, HeadGoesOn

LEMMA DropKeeps ==
  ASSUME CoinvokerInv, NEW h \in Heads, UnwindHead(h) \/ DiscardHead(h) \/ ThrowHead(h)
  PROVE  CoinvokerInv'
<1>1. /\ head' = [head EXCEPT ![h] = "dropped"] /\ ReleaseHead(h) /\ UNCHANGED <<call, value, handed, incomplete>>
      /\ head[h] \in {"queued", "running"} \/ (head[h] = "built" /\ launch = "unwinding" /\ launch' = launch)
      /\ launch' \in {launch, "unwinding"} /\ inline' \in {inline, 0}
  BY DEF UnwindHead, DiscardHead, ThrowHead
<1>2. PointsToTail(h) /\ launch # "primed" BY <1>1, NotPrimed DEF PointsToTail
<1>3. launch' \in {"handing", "unwinding", "returned", "thrown"} /\ inline' \in 0 .. MaxHeads
      /\ (launch' = "handing" => launch = "handing" /\ head[h] # "built")
  BY <1>1, <1>2 DEF CoinvokerInv, HandsInOrder
<1>4. incomplete' \in BOOLEAN BY <1>1 DEF CoinvokerInv, Flags
<1>5. pending' = CountDown(1)
      /\ IF pending = 1 THEN tail' = "freed" /\ join' \in {"called", "dropped"} ELSE UNCHANGED <<tail, join>>
  BY <1>1 DEF ReleaseHead
<1>6. head[h] # "set" BY <1>1
<1> QED BY <1>1, <1>2, <1>3, <1>4, <1>5, <1>6, HeadEnds

LEMMA ValueKeeps ==
  ASSUME CoinvokerInv, NEW h \in Heads, EndWithValue(h)
  PROVE  CoinvokerInv'
<1>1. /\ head[h] = "set" /\ head' = [head EXCEPT ![h] = "value"] /\ Complete(h) /\ inline' \in {inline, 0}
      /\ UNCHANGED <<call, value, launch, handed>>
  BY DEF EndWithValue
<1>2. PointsToTail(h) /\ launch # "primed" BY <1>1, NotPrimed DEF PointsToTail
<1>3. launch' \in {"handing", "unwinding", "returned", "thrown"} /\ inline' \in 0 .. MaxHeads
  BY <1>1, <1>2 DEF CoinvokerInv, HandsInOrder
<1>4. pending' = CountDown(1)
      /\ IF pending = 1 THEN tail' = "freed" /\ join' \in {"called", "dropped"} ELSE UNCHANGED <<tail, join>>
  BY <1>1 DEF Complete, IsLast, DispatchTail
<1>5. incomplete' \in BOOLEAN
  <2>1. incomplete \in BOOLEAN BY DEF CoinvokerInv, Flags
  <2> QED BY <1>1, <2>1 DEF Complete, DispatchTail
<1>6. launch' = "handing" => launch = "handing" /\ head[h] # "built" BY <1>1
<1> QED BY <1>1, <1>2, <1>3, <1>4, <1>5, <1>6, HeadEnds

LEMMA CoinvokerInitInv == CoinvokerInit => CoinvokerInv
<1> SUFFICES ASSUME CoinvokerInit PROVE CoinvokerInv OBVIOUS
<1>1. PICK n \in 0 .. MaxHeads : head = [h \in 1 .. n |-> "built"] BY DEF CoinvokerInit, CoStart
<1>2. Heads = 1 .. n /\ \A h \in Heads : head[h] = "built" BY <1>1 DEF Heads
<1>3. /\ call \in Calls /\ value = {} /\ launch = "primed" /\ handed = 0 /\ inline = 0
      /\ pending = 0 /\ tail = "launcher" /\ join = "waiting" /\ incomplete = FALSE
  BY DEF CoinvokerInit, CoStart
<1>4. HeadsTyped BY <1>1 DEF HeadsTyped, HeadStates
<1>5. HandsInOrder BY <1>2, <1>3 DEF HandsInOrder
<1>6. Values BY <1>2, <1>3 DEF Values
<1>7. CountTyped
  <2>1. Wrap \in Nat /\ Wrap > 0 OBVIOUS
  <2> QED BY <1>3, <2>1 DEF CountTyped
<1>8. Owner BY <1>3 DEF Owner
<1>9. Primed BY <1>2, <1>3 DEF Primed
<1>10. Counted BY <1>3 DEF Counted
<1>11. Flags BY <1>3 DEF Flags
<1> QED BY <1>4, <1>5, <1>6, <1>7, <1>8, <1>9, <1>10, <1>11 DEF CoinvokerInv

LEMMA CoinvokerStepInv == CoinvokerInv /\ [CoinvokerNext]_coinvokerVars => CoinvokerInv'
<1> SUFFICES ASSUME CoinvokerInv, [CoinvokerNext]_coinvokerVars PROVE CoinvokerInv' OBVIOUS
<1>1. CASE CoLaunchFails BY <1>1, LaunchFailsKeeps
<1>2. CASE Prime BY <1>2, PrimeKeeps
<1>3. CASE CoLaunchEnds BY <1>3, LauncherKeeps
<1>4. ASSUME NEW h \in Heads,
             \/ CoPost(h) \/ CoDispatch(h) \/ CoDefer(h) \/ HandOverFails(h) \/ UnwindHead(h)
             \/ BeginHead(h) \/ DiscardHead(h) \/ ThrowHead(h) \/ SetResult(h) \/ EndWithValue(h)
      PROVE  CoinvokerInv'
  BY <1>4, HandOverKeeps, LauncherKeeps, DropKeeps, RunningKeeps, ValueKeeps
<1>5. CASE UNCHANGED coinvokerVars
  <2>1. Left' = Left /\ Heads' = Heads BY <1>5 DEF Left, Heads, PointsToTail, coinvokerVars
  <2>2. HeadsTyped' /\ Counted' /\ Values' /\ Primed' /\ HandsInOrder'
    BY <1>5, <2>1 DEF CoinvokerInv, HeadsTyped, Counted, Values, Primed, HandsInOrder, coinvokerVars
  <2>3. CountTyped' /\ Owner' BY <1>5 DEF CoinvokerInv, CountTyped, Owner, coinvokerVars
  <2>4. Flags' BY <1>5 DEF CoinvokerInv, Flags, coinvokerVars
  <2> QED BY <2>2, <2>3, <2>4 DEF CoinvokerInv
<1> QED BY <1>1, <1>2, <1>3, <1>4, <1>5 DEF CoinvokerNext

\* The tail is deleted by the last head that points to it, whatever threads end
\* the heads and wherever the launch stops (coinvoker.h:83-114).
THEOREM TailFreedByLast == CoinvokerSpec => []PendingCountsHeads
<1>1. CoinvokerInv => PendingCountsHeads
  <2> SUFFICES ASSUME CoinvokerInv PROVE PendingCountsHeads OBVIOUS
  <2>1. Counted BY DEF CoinvokerInv
  <2>2. tail = "heads" => pending = Cardinality({h \in Heads : PointsToTail(h)}) /\ pending > 0
    BY <2>1 DEF Counted, Left
  <2>3. tail = "freed" => \A h \in Heads : ~PointsToTail(h) BY <2>1 DEF Counted, Left
  <2> QED BY <2>2, <2>3 DEF PendingCountsHeads
<1> QED BY <1>1, CoinvokerInitInv, CoinvokerStepInv, PTL DEF CoinvokerSpec

----------------------------------------------------------------------------
(* The calls are a fork and a join.                                        *)

Ended == [h \in Heads |-> IF head[h] \in {"value", "dropped"} THEN head[h] ELSE "no"]

\* A head that still points to the tail has not ended, and the others have.
LEMMA EndedIsReleased ==
  ASSUME HeadsTyped
  PROVE  /\ DOMAIN Ended = Heads
         /\ \A h \in Heads : Ended[h] = IF head[h] \in {"value", "dropped"} THEN head[h] ELSE "no"
         /\ \A h \in Heads : Ended[h] = "no" <=> PointsToTail(h)
<1>1. head \in [Heads -> HeadStates] BY HeadsFinite
<1>2. DOMAIN Ended = Heads BY DEF Ended
<1>3. \A h \in Heads : Ended[h] = IF head[h] \in {"value", "dropped"} THEN head[h] ELSE "no" BY DEF Ended
<1>4. ASSUME NEW h \in Heads PROVE Ended[h] = "no" <=> PointsToTail(h)
  <2>1. head[h] \in HeadStates BY <1>1
  <2> QED BY <1>3, <2>1 DEF HeadStates, PointsToTail
<1> QED BY <1>2, <1>3, <1>4

\* The end of a head is the step End, unless it brings the tail to be called
\* without a value.
LEMMA EndIsPromised ==
  ASSUME CoinvokerInv, NEW h \in Heads, PointsToTail(h), launch # "primed",
         NEW how \in {"value", "dropped"}, head' = [head EXCEPT ![h] = how], pending' = CountDown(1),
         how = "value" <=> head[h] = "set",
         join' = IF pending # 1 THEN join ELSE IF how = "value" THEN "called" ELSE "dropped",
         pending = 1 /\ how = "value" => value = Heads
  PROVE  Promised!Next
<1>1. /\ HeadsTyped' /\ Heads' = Heads
      /\ \A g \in Heads : head'[g] = IF g = h THEN how ELSE head[g]
      /\ join = "waiting" /\ Left' = Left \ {h} /\ (pending = 1 <=> Left' = {})
  BY HeadLeaves
<1>2. /\ DOMAIN Ended = Heads /\ Ended[h] = "no"
      /\ \A g \in Heads : Ended[g] = IF head[g] \in {"value", "dropped"} THEN head[g] ELSE "no"
  BY EndedIsReleased DEF CoinvokerInv
<1>3. Ended' = [Ended EXCEPT ![h] = how]
  <2>1. \A g \in Heads : Ended'[g] = IF g = h THEN how ELSE Ended[g] BY <1>1, <1>2 DEF Ended
  <2>2. DOMAIN Ended' = Heads /\ Ended' = [g \in Heads |-> Ended'[g]] BY <1>1 DEF Ended
  <2>3. Ended = [g \in Heads |-> Ended[g]] BY DEF Ended
  <2> QED BY <1>2, <2>1, <2>2, <2>3
<1>4. \A g \in Heads : Ended'[g] = IF g = h THEN how ELSE Ended[g] BY <1>1, <1>2 DEF Ended
<1>5. (\A g \in Heads : Ended'[g] # "no") <=> pending = 1
  <2>1. \A g \in Heads : Ended'[g] = "no" <=> g \in Left \ {h}
    BY <1>2, <1>4, EndedIsReleased DEF CoinvokerInv, Left
  <2> QED BY <1>1, <2>1 DEF Left
<1>6. pending = 1 => ((\A g \in Heads : Ended'[g] = "value") <=> how = "value")
  <2>1. CASE how = "dropped" BY <1>4, <2>1
  <2>2. ASSUME pending = 1, how = "value", NEW g \in Heads PROVE Ended'[g] = "value"
    <3>1. head[g] \in {"set", "value"} BY <2>2 DEF CoinvokerInv, Values
    <3>2. g # h => ~PointsToTail(g) BY <1>1, <2>2 DEF Left
    <3> QED BY <1>2, <1>4, <2>2, <3>1, <3>2 DEF PointsToTail
  <2> QED BY <2>1, <2>2
<1>7. Promised!End(h)
  <2>1. \E way \in {"value", "dropped"} : Ended' = [Ended EXCEPT ![h] = way] BY <1>3
  <2>2. join' = IF ~(\A g \in Heads : Ended'[g] # "no") THEN "waiting"
                ELSE IF \A g \in Heads : Ended'[g] = "value" THEN "called" ELSE "dropped"
    BY <1>1, <1>5, <1>6
  <2> QED BY <1>1, <1>2, <2>1, <2>2 DEF Promised!End, Ended
<1> QED BY <1>2, <1>7 DEF Promised!Next, Ended

LEMMA DropIsPromised ==
  ASSUME CoinvokerInv, NEW h \in Heads, UnwindHead(h) \/ DiscardHead(h) \/ ThrowHead(h)
  PROVE  Promised!Next
<1>1. /\ head' = [head EXCEPT ![h] = "dropped"] /\ ReleaseHead(h)
      /\ head[h] \in {"queued", "running"} \/ (head[h] = "built" /\ launch = "unwinding")
  BY DEF UnwindHead, DiscardHead, ThrowHead
<1>2. PointsToTail(h) /\ launch # "primed" /\ head[h] # "set" BY <1>1, NotPrimed DEF PointsToTail
<1>3. pending' = CountDown(1) /\ join' = IF pending # 1 THEN join ELSE "dropped"
  BY <1>1 DEF ReleaseHead
<1> QED BY <1>1, <1>2, <1>3, EndIsPromised

LEMMA ValueIsPromised ==
  ASSUME CoinvokerInv, NEW h \in Heads, EndWithValue(h)
  PROVE  Promised!Next \/ incomplete'
<1>1. head[h] = "set" /\ head' = [head EXCEPT ![h] = "value"] /\ Complete(h) BY DEF EndWithValue
<1>2. PointsToTail(h) /\ launch # "primed" BY <1>1, NotPrimed DEF PointsToTail
<1>3. pending' = CountDown(1) /\ join' = IF pending # 1 THEN join ELSE "called"
  BY <1>1 DEF Complete, IsLast, DispatchTail
<1>4. CASE pending = 1 /\ value # Heads BY <1>1, <1>4 DEF Complete, IsLast, DispatchTail
<1>5. CASE pending = 1 => value = Heads BY <1>1, <1>2, <1>3, <1>5, EndIsPromised
<1> QED BY <1>4, <1>5

\* With no heads, or a launch that fails at once.
LEMMA LaunchIsPromised ==
  ASSUME CoinvokerInv, launch = "primed", CoLaunchFails \/ (Prime /\ Heads = {})
  PROVE  Promised!Next
<1>1. join = "waiting" BY DEF CoinvokerInv, Owner
<1>2. \A h \in Heads : head[h] = "built" BY DEF CoinvokerInv, Primed
<1>3. DOMAIN Ended = Heads /\ \A h \in Heads : Ended[h] = "no" BY <1>2 DEF Ended
<1>4. Ended' = [h \in Heads |-> "dropped"] /\ (join' = "dropped" \/ (Heads = {} /\ join' = "called"))
  <2>1. CASE CoLaunchFails
    <3>1. head' = [h \in Heads |-> "dropped"] /\ join' = "dropped" BY <2>1 DEF CoLaunchFails
    <3>2. Heads' = Heads /\ \A h \in Heads : head'[h] = "dropped" BY <3>1 DEF Heads
    <3> QED BY <3>1, <3>2 DEF Ended
  <2>2. CASE Prime /\ Heads = {}
    <3>1. head' = head /\ join' = "called" BY <2>2 DEF Prime, DispatchTail
    <3>2. Heads' = {} BY <2>2, <3>1 DEF Heads
    <3> QED BY <2>2, <3>1, <3>2 DEF Ended
  <2> QED BY <2>1, <2>2
<1>5. Promised!EndAtOnce BY <1>1, <1>3, <1>4 DEF Promised!EndAtOnce, Ended
<1> QED BY <1>5 DEF Promised!Next

\* The other steps are none of the fork and join's.
LEMMA OthersStutter ==
  ASSUME CoinvokerInv,
         \/ Prime /\ Heads # {}
         \/ CoLaunchEnds
         \/ UNCHANGED coinvokerVars
         \/ \E h \in Heads : \/ CoPost(h) \/ CoDispatch(h) \/ CoDefer(h) \/ HandOverFails(h)
                             \/ BeginHead(h) \/ SetResult(h)
  PROVE  UNCHANGED Promised!vars
<1>1. CASE (Prime /\ Heads # {}) \/ CoLaunchEnds \/ UNCHANGED coinvokerVars \/ \E h \in Heads : HandOverFails(h)
  <2>1. head' = head /\ join' = join BY <1>1 DEF Prime, CoLaunchEnds, coinvokerVars, HandOverFails
  <2> QED BY <2>1 DEF Promised!vars, Heads
<1>2. ASSUME NEW h \in Heads, CoPost(h) \/ CoDispatch(h) \/ CoDefer(h) \/ BeginHead(h) \/ SetResult(h)
      PROVE  UNCHANGED Promised!vars
  <2>1. head[h] \in {"built", "queued", "running"}
    <3>1. CASE HandsOver(h)
      <4>1. launch = "handing" /\ h = handed + 1 /\ handed \in Nat BY <3>1 DEF HandsOver, CoinvokerInv, HandsInOrder
      <4> QED BY <4>1 DEF CoinvokerInv, HandsInOrder
    <3>2. CASE ~HandsOver(h) BY <1>2, <3>2 DEF CoPost, CoDispatch, CoDefer, BeginHead, SetResult
    <3> QED BY <3>1, <3>2
  <2>2. PICK on \in {"queued", "running", "set"} : head' = [head EXCEPT ![h] = on] /\ join' = join
    BY <1>2 DEF CoPost, CoDispatch, CoDefer, QueueHead, BeginHead, SetResult
  <2>3. Heads' = Heads /\ \A g \in Heads : head'[g] = IF g = h THEN on ELSE head[g]
    BY <2>2, HeadsFinite DEF Heads, CoinvokerInv
  <2>4. Ended' = Ended BY <2>1, <2>3 DEF Ended
  <2> QED BY <2>2, <2>4 DEF Promised!vars, Ended
<1> QED BY <1>1, <1>2

\* Any call of several functions is a fork and a join, but for the step that
\* fails the assertion of _Get_value (coinvoker.h:58, 101-132).
THEOREM CoinvokerIsForkJoin == CoinvokerSpec => ImplementsForkJoin
<1>1. CoinvokerInit => Promised!Init
  <2> SUFFICES ASSUME CoinvokerInit PROVE Promised!Init OBVIOUS
  <2>1. PICK n \in 0 .. MaxHeads : head = [h \in 1 .. n |-> "built"] BY DEF CoinvokerInit, CoStart
  <2>2. Heads = 1 .. n /\ \A h \in Heads : head[h] = "built" BY <2>1 DEF Heads
  <2>3. Ended = [h \in 1 .. n |-> "no"] BY <2>2 DEF Ended
  <2>4. join = "waiting" BY DEF CoinvokerInit, CoStart
  <2> QED BY <2>3, <2>4 DEF Promised!Init, Ended
<1>2. CoinvokerInv /\ [CoinvokerNext]_coinvokerVars => [Promised!Next \/ incomplete']_(Promised!vars)
  <2> SUFFICES ASSUME CoinvokerInv, [CoinvokerNext]_coinvokerVars
               PROVE  Promised!Next \/ incomplete' \/ UNCHANGED Promised!vars
    OBVIOUS
  <2>1. CASE CoLaunchFails
    <3>1. launch = "primed" BY <2>1 DEF CoLaunchFails
    <3> QED BY <2>1, <3>1, LaunchIsPromised
  <2>2. CASE Prime
    <3>1. launch = "primed" BY <2>2 DEF Prime
    <3>2. CASE Heads = {} BY <2>2, <3>1, <3>2, LaunchIsPromised
    <3>3. CASE Heads # {} BY <2>2, <3>3, OthersStutter
    <3> QED BY <3>2, <3>3
  <2>3. CASE CoLaunchEnds \/ UNCHANGED coinvokerVars BY <2>3, OthersStutter
  <2>4. ASSUME NEW h \in Heads, UnwindHead(h) \/ DiscardHead(h) \/ ThrowHead(h)
        PROVE  Promised!Next
    BY <2>4, DropIsPromised
  <2>5. ASSUME NEW h \in Heads, EndWithValue(h) PROVE Promised!Next \/ incomplete'
    BY <2>5, ValueIsPromised
  <2>6. ASSUME NEW h \in Heads,
               CoPost(h) \/ CoDispatch(h) \/ CoDefer(h) \/ HandOverFails(h) \/ BeginHead(h) \/ SetResult(h)
        PROVE  UNCHANGED Promised!vars
    BY <2>6, OthersStutter
  <2> QED BY <2>1, <2>2, <2>3, <2>4, <2>5, <2>6 DEF CoinvokerNext
<1> QED BY <1>1, <1>2, CoinvokerInitInv, CoinvokerStepInv, PTL DEF CoinvokerSpec, ImplementsForkJoin

\* The types of a coinvoker's state, for any number of heads.
LEMMA CoinvokerTypes == CoinvokerSpec => []CoinvokerTypeOK
<1>1. ASSUME CoinvokerInv PROVE CoinvokerTypeOK
  <2>1. PICK n \in 0 .. MaxHeads : head \in [1 .. n -> HeadStates] BY <1>1 DEF CoinvokerInv, HeadsTyped
  <2>2. head \in UNION {[1 .. m -> HeadStates] : m \in 0 .. MaxHeads} BY <2>1
  <2>3. value \subseteq Heads BY <1>1 DEF CoinvokerInv, Values
  <2> QED
    BY <1>1, <2>2, <2>3 DEF CoinvokerInv, CoinvokerTypeOK, HandsInOrder, CountTyped, Owner, Flags
<1> QED BY <1>1, CoinvokerInitInv, CoinvokerStepInv, PTL DEF CoinvokerSpec

----------------------------------------------------------------------------
(* Coroutines with a stack of their own: yield_context.                    *)

\* A handler that has been made belongs to the operation the coroutine is in,
\* and waits for the lock only when the coroutine came first.
HandlerShape ==
  /\ yieldHandler \in [at : {"none", "pending", "stored", "locking"}, on : YieldThreads \cup {"nobody"}]
  /\ yieldHandler.at \in {"stored", "locking"} => yieldHandler.on \in YieldThreads
  /\ yieldHandler.at \in {"none", "pending"} => yieldHandler.on = "nobody"
  /\ yieldHandler.at # "none" => /\ yieldState \in {"running", "suspended"}
                                 /\ yieldAt \in {"called", "suspending"}

\* ready says who came first.
ReadyShape ==
  /\ yieldHandler.at # "none" /\ ready => yieldAt = "suspending"
  /\ yieldHandler.at = "locking" => ready
  /\ yieldAt = "suspending" => ready

\* The lock is held while a thread is inside.
InsideShape ==
  /\ inside \in YieldThreads \cup {"nobody"}
  /\ lock = (inside # "nobody")
  /\ yieldState = "running" => inside # "nobody"
  /\ yieldState = "unborn" => inside = "nobody" /\ yieldAt = "work"
  /\ yieldState = "suspended" => yieldAt = "suspending"

\* The result of an operation is there when its handler has been called, and
\* is not taken without it.
ResultShape ==
  /\ result \in {"none", "value", "error"}
  /\ yieldHandler.at = "pending" => result = "none"
  /\ yieldHandler.at \in {"stored", "locking"} => result # "none"
  /\ yieldAt = "take" => result # "none"
  /\ yieldAt = "called" /\ ready => result # "none"

YieldShape ==
  /\ yieldState \in {"unborn", "running", "suspended", "ended", "destroyed"}
  /\ yieldAt \in {"work", "called", "suspending", "take"}
  /\ ready \in BOOLEAN /\ lock \in BOOLEAN

YieldInv == YieldShape /\ HandlerShape /\ ReadyShape /\ InsideShape /\ ResultShape

----------------------------------------------------------------------------
(* The steps of the coroutine and of its handler.                          *)

LEMMA CoroutineSteps ==
  ASSUME YieldInv,
         \/ YieldCall \/ YieldGet \/ YieldSuspend \/ YieldTake \/ YieldEnd
         \/ \E t \in YieldThreads : YieldLaunch(t)
  PROVE  YieldInv'
<1> USE YieldAssumption
    DEF YieldInv, YieldShape, HandlerShape, ReadyShape, InsideShape, ResultShape, Body, InPlace, NoHandler
<1>1. CASE YieldCall BY <1>1 DEF YieldCall
<1>2. CASE YieldGet BY <1>2 DEF YieldGet
<1>3. CASE YieldSuspend BY <1>3 DEF YieldSuspend
<1>4. CASE YieldTake BY <1>4 DEF YieldTake
<1>5. CASE YieldEnd BY <1>5 DEF YieldEnd
<1>6. ASSUME NEW t \in YieldThreads, YieldLaunch(t) PROVE YieldInv' BY <1>6 DEF YieldLaunch
<1> QED BY <1>1, <1>2, <1>3, <1>4, <1>5, <1>6

LEMMA HandlerSteps ==
  ASSUME YieldInv, NEW t \in YieldThreads,
         YieldValue(t) \/ YieldCode(t) \/ YieldException(t) \/ YieldDrop(t)
  PROVE  YieldInv'
<1> USE YieldAssumption
    DEF YieldInv, YieldShape, HandlerShape, ReadyShape, InsideShape, ResultShape, NoHandler
<1>1. ASSUME NEW r \in {"value", "error"}, YieldStore(t, r) PROVE YieldInv'
  BY <1>1 DEF YieldStore, MayCall
<1>2. CASE YieldDrop(t) BY <1>2 DEF YieldDrop, MayCall, Own
<1> QED BY <1>1, <1>2 DEF YieldValue, YieldCode, YieldException

LEMMA ResumingSteps ==
  ASSUME YieldInv, YieldTest \/ YieldResume
  PROVE  YieldInv'
<1> USE YieldAssumption
    DEF YieldInv, YieldShape, HandlerShape, ReadyShape, InsideShape, ResultShape, NoHandler
<1>1. CASE YieldTest
  <2>1. CASE ready
    <3>1. yieldHandler' = [at |-> "locking", on |-> yieldHandler.on] /\ ready' = ready
      BY <1>1, <2>1 DEF YieldTest
    <3> QED BY <1>1, <2>1, <3>1 DEF YieldTest
  <2>2. CASE ~ready BY <1>1, <2>2 DEF YieldTest
  <2> QED BY <2>1, <2>2
<1>2. CASE YieldResume BY <1>2 DEF YieldResume, Unlocked
<1> QED BY <1>1, <1>2

LEMMA LeavingSteps ==
  ASSUME YieldInv, YieldLeave \/ \E t \in YieldThreads : YieldRelease(t)
  PROVE  YieldInv'
<1> USE YieldAssumption
    DEF YieldInv, YieldShape, HandlerShape, ReadyShape, InsideShape, ResultShape, NoHandler
<1>1. CASE YieldLeave BY <1>1 DEF YieldLeave
<1>2. ASSUME NEW t \in YieldThreads, YieldRelease(t) PROVE YieldInv' BY <1>2 DEF YieldRelease, Own
<1> QED BY <1>1, <1>2

LEMMA YieldInvariant == YieldSpec => []YieldInv
<1>1. ASSUME YieldStart({"unborn"}) PROVE YieldInv
  <2>1. ~ready /\ ready \in BOOLEAN /\ ~lock /\ lock \in BOOLEAN BY <1>1 DEF YieldStart
  <2>2. /\ yieldState = "unborn" /\ yieldAt = "work" /\ result = "none" /\ inside = "nobody"
        /\ yieldHandler = [at |-> "none", on |-> "nobody"]
    BY <1>1 DEF YieldStart, NoHandler
  <2> QED BY <2>1, <2>2 DEF YieldInv, YieldShape, HandlerShape, ReadyShape, InsideShape, ResultShape
<1>2. ASSUME YieldInv, [YieldNext]_yieldVars PROVE YieldInv'
  <2>1. CASE YieldNext
    <3>1. CASE YieldGoes
      <4>1. CASE YieldGet \/ YieldSuspend \/ YieldTake BY <1>2, <4>1, CoroutineSteps
      <4>2. CASE YieldTest \/ YieldResume BY <1>2, <4>2, ResumingSteps
      <4>3. CASE YieldLeave \/ \E t \in YieldThreads : YieldRelease(t) BY <1>2, <4>3, LeavingSteps
      <4> QED BY <3>1, <4>1, <4>2, <4>3 DEF YieldGoes
    <3>2. CASE YieldCall \/ YieldEnd \/ \E t \in YieldThreads : YieldLaunch(t)
      BY <1>2, <3>2, CoroutineSteps
    <3>3. ASSUME NEW t \in YieldThreads, YieldValue(t) \/ YieldCode(t) \/ YieldException(t) \/ YieldDrop(t)
          PROVE  YieldInv'
      BY <1>2, <3>3, HandlerSteps
    <3> QED BY <2>1, <3>1, <3>2, <3>3 DEF YieldNext
  <2>2. CASE UNCHANGED yieldVars
    BY <1>2, <2>2
    DEF yieldVars, YieldInv, YieldShape, HandlerShape, ReadyShape, InsideShape, ResultShape
  <2> QED BY <1>2, <2>1, <2>2
<1> QED BY <1>1, <1>2, PTL DEF YieldSpec

----------------------------------------------------------------------------
\* However handlers and threads come and go, a thread enters the coroutine only
\* when no other is on its stack, and a result is stored only in a frame that is
\* there (yield_context.h:132-140, 237-242).
THEOREM EnteredBySuspension == YieldSpec => ResumedOnlySuspended
<1> DEFINE Safe == /\ inside' \notin {inside, "nobody"} => inside = "nobody" /\ yieldState \in {"unborn", "suspended"}
                   /\ yieldHandler'.at = "stored" => /\ yieldState \in {"running", "suspended"}
                                                     /\ yieldAt \in {"called", "suspending"}
<1>1. ASSUME YieldInv, [YieldNext]_yieldVars
      PROVE  inside' \notin {inside, "nobody"} => inside = "nobody" /\ yieldState \in {"unborn", "suspended"}
  <2> SUFFICES ASSUME inside' \notin {inside, "nobody"}
               PROVE  inside = "nobody" /\ yieldState \in {"unborn", "suspended"}
    OBVIOUS
  <2>1. YieldResume \/ \E t \in YieldThreads : YieldLaunch(t)
    BY <1>1 DEF yieldVars, YieldNext, YieldGoes, YieldCall, YieldGet, YieldSuspend, YieldTake, YieldEnd,
       YieldLeave, YieldRelease, YieldValue, YieldCode, YieldException, YieldStore, YieldTest, YieldDrop
  <2>2. CASE YieldResume
    BY <1>1, <2>2 DEF YieldInv, HandlerShape, InsideShape, YieldResume, Unlocked
  <2>3. ASSUME NEW t \in YieldThreads, YieldLaunch(t)
        PROVE  inside = "nobody" /\ yieldState \in {"unborn", "suspended"}
    BY <1>1, <2>3 DEF YieldInv, InsideShape, YieldLaunch
  <2> QED BY <2>1, <2>2, <2>3
<1>2. ASSUME YieldInv, [YieldNext]_yieldVars, yieldHandler'.at = "stored"
      PROVE  yieldState \in {"running", "suspended"} /\ yieldAt \in {"called", "suspending"}
  <2>1. \/ yieldHandler' = yieldHandler
        \/ \E t \in YieldThreads : MayCall(t)
        \/ yieldHandler'.at # "stored"
    BY <1>2 DEF yieldVars, YieldNext, YieldGoes, YieldCall, YieldGet, YieldSuspend, YieldTake, YieldEnd,
       YieldLeave, YieldRelease, YieldValue, YieldCode, YieldException, YieldStore, YieldTest, YieldDrop,
       YieldResume, YieldLaunch, NoHandler, YieldInv, HandlerShape
  <2> QED BY <1>2, <2>1 DEF MayCall, YieldInv, HandlerShape
<1>3. YieldInv /\ [YieldNext]_yieldVars => [Safe]_yieldVars
  BY <1>1, <1>2
<1> QED BY <1>3, YieldInvariant, PTL DEF YieldSpec, ResumedOnlySuspended

----------------------------------------------------------------------------
(* The coroutine implements its promise: what the steps are of it.         *)

LEMMA PromisedSteps ==
  ASSUME YieldInv, YieldNext
  PROVE  [YieldPromise!Next]_(YieldPromise!vars)
<1> USE YieldAssumption
    DEF YieldInv, YieldShape, HandlerShape, ReadyShape, InsideShape, ResultShape, NoHandler, Body, InPlace,
        YieldPromise!vars
<1>1. CASE YieldCall
  <2>1. YieldPromise!Begin BY <1>1 DEF YieldCall, YieldPromise!Begin
  <2> QED BY <2>1 DEF YieldPromise!Next
<1>2. CASE YieldTake
  <2>1. YieldPromise!Continue BY <1>2 DEF YieldTake, YieldPromise!Continue
  <2> QED BY <2>1 DEF YieldPromise!Next
<1>3. CASE YieldEnd
  <2>1. YieldPromise!End BY <1>3 DEF YieldEnd, YieldPromise!End
  <2> QED BY <2>1 DEF YieldPromise!Next
<1>4. ASSUME NEW t \in YieldThreads, NEW r \in {"value", "error"}, YieldStore(t, r)
      PROVE  YieldPromise!Next
  <2>1. YieldPromise!Answer BY <1>4 DEF YieldStore, MayCall, YieldPromise!Answer
  <2> QED BY <2>1 DEF YieldPromise!Next
<1>5. ASSUME NEW t \in YieldThreads, YieldDrop(t) PROVE YieldPromise!Next
  <2>1. YieldPromise!Drop BY <1>5 DEF YieldDrop, MayCall, Own, YieldPromise!Drop
  <2> QED BY <2>1 DEF YieldPromise!Next
<1>6. ASSUME NEW t \in YieldThreads, YieldRelease(t) PROVE [YieldPromise!Next]_(YieldPromise!vars)
  <2>1. CASE yieldState' = yieldState BY <1>6, <2>1 DEF YieldRelease
  <2>2. CASE yieldState' # yieldState
    <3>1. YieldPromise!End BY <1>6, <2>2 DEF YieldRelease, Own, YieldPromise!End
    <3> QED BY <3>1 DEF YieldPromise!Next
  <2> QED BY <2>1, <2>2
<1>7. CASE YieldGet \/ YieldSuspend \/ YieldLeave \/ YieldTest \/ YieldResume \/ \E t \in YieldThreads : YieldLaunch(t)
  <2>1. UNCHANGED YieldPromise!vars
    BY <1>7 DEF YieldGet, YieldSuspend, YieldLeave, YieldTest, YieldResume, YieldLaunch
  <2> QED BY <2>1
<1> QED
  BY <1>1, <1>2, <1>3, <1>4, <1>5, <1>6, <1>7
  DEF YieldNext, YieldGoes, YieldValue, YieldCode, YieldException

\* Whoever comes first, handler or coroutine, the coroutine goes on once for every
\* answer and not without one, on any number of threads
\* (yield_context.h:135, 239).
THEOREM YieldKeepsPromise == YieldSpec => YieldImplementsCoroutine
<1>1. YieldStart({"unborn"}) => YieldPromise!Init
  BY DEF YieldStart, YieldPromise!Init
<1>2. YieldInv /\ [YieldNext]_yieldVars => [YieldPromise!Next]_(YieldPromise!vars)
  <2>1. ASSUME UNCHANGED yieldVars PROVE UNCHANGED YieldPromise!vars
    BY <2>1 DEF yieldVars, YieldPromise!vars
  <2> QED BY <2>1, PromisedSteps
<1> QED BY <1>1, <1>2, YieldInvariant, PTL DEF YieldSpec, YieldImplementsCoroutine

\* The operations called so far, and who still owns a share.
YieldCounts == yields \in 0 .. MaxYields /\ leaving \subseteq YieldThreads

\* The types of a coroutine with a stack of its own.
LEMMA YieldTypes == YieldSpec => []YieldTypeOK
<1>1. YieldStart({"unborn"}) => YieldCounts BY YieldAssumption DEF YieldStart, YieldCounts
<1>2. ASSUME YieldInv, YieldCounts, [YieldNext]_yieldVars PROVE YieldCounts'
  <2> USE YieldAssumption DEF YieldCounts
  <2>1. CASE YieldCall BY <1>2, <2>1 DEF YieldCall
  <2>2. CASE YieldLeave BY <1>2, <2>2 DEF YieldLeave, YieldInv, InsideShape
  <2>3. ASSUME NEW t \in YieldThreads, YieldRelease(t) PROVE YieldCounts'
    BY <1>2, <2>3 DEF YieldRelease
  <2>4. ASSUME NEW t \in YieldThreads,
               YieldLaunch(t) \/ YieldDrop(t) \/ YieldValue(t) \/ YieldCode(t) \/ YieldException(t)
        PROVE  YieldCounts'
    BY <1>2, <2>4 DEF YieldLaunch, YieldDrop, YieldValue, YieldCode, YieldException, YieldStore
  <2>5. CASE YieldGet \/ YieldSuspend \/ YieldTake \/ YieldEnd \/ YieldTest \/ YieldResume
             \/ UNCHANGED yieldVars
    BY <1>2, <2>5 DEF YieldGet, YieldSuspend, YieldTake, YieldEnd, YieldTest, YieldResume, yieldVars
  <2> QED BY <1>2, <2>1, <2>2, <2>3, <2>4, <2>5 DEF YieldNext, YieldGoes
<1>3. YieldInv /\ YieldCounts => YieldTypeOK
  BY DEF YieldInv, YieldCounts, YieldTypeOK, YieldShape, HandlerShape, InsideShape, ResultShape
<1> QED BY <1>1, <1>2, <1>3, YieldInvariant, PTL DEF YieldSpec

----------------------------------------------------------------------------
(* Coroutines without: await_context.                                      *)

Inside  == {"enter", "throwing", "work", "await", "left"}
Outside == {"unborn", "out", "over"}

\* One thread is in the function while it is being executed; the count is of
\* that thread and of the handler that found it there.
CountShape ==
  /\ awaitAt \in Inside \cup Outside /\ invocations \in Nat
  /\ awaitAt \in Inside => /\ \E t \in AwaitThreads : inBody = {t}
                           /\ invocations \in {1, 2}
  /\ awaitAt \in Outside => inBody = {}
  /\ awaitAt \in {"unborn", "out"} => invocations = 0
  /\ invocations = 2 => awaitAt \in {"await", "left"} /\ awaitHandler.at = "none" /\ "start" \notin todo

\* A handler belongs to the operation that the function has been left at, or is
\* being left at.
WaitShape ==
  /\ awaitHandler \in [at : {"none", "pending", "stored"}, on : AwaitThreads \cup {"nobody"}]
  /\ awaitHandler.at # "none" => awaitAt \in {"await", "left", "out"} /\ "start" \notin todo
  /\ todo \subseteq {"start", "destination"}
  /\ awaitAt \in {"await", "over"} \/ todo = {}
  /\ point \in Int /\ awaits \in Nat
  /\ awaitAt = "unborn" => point = 0
  /\ awaitAt = "await" => point # 0
  /\ awaitAt \in {"left", "out"} => point # 0
  /\ awaitAt = "throwing" => point # 0

\* What is still to be said of where the value goes is all that is missing.
ValueShape ==
  /\ form = "value" /\ "destination" \notin todo => destination = awaits
  /\ form = "value" => landed # "stray"

AwaitInv == CountShape /\ WaitShape /\ ValueShape

----------------------------------------------------------------------------
(* The steps.                                                              *)

\* What an invocation does to the count and to the threads.
LEMMA InvokeStep ==
  ASSUME AwaitInv, NEW t \in AwaitThreads, Invoke(t), awaitAt \notin {"over"},
         awaitHandler'.at = "none", awaitHandler' \in [at : {"none"}, on : AwaitThreads \cup {"nobody"}],
         \/ awaitAt = "unborn"
         \/ awaitHandler.at = "stored",
         UNCHANGED <<point, awaits, form, todo, destination, landed>>
  PROVE  AwaitInv'
<1> USE DEF AwaitInv, CountShape, WaitShape, ValueShape, Inside, Outside, Invoke
<1>1. CASE invocations = 0 BY <1>1
<1>2. CASE invocations # 0
  <2>1. invocations = 1 /\ invocations' = 2 BY <1>2
  <2>2. awaitAt \in {"await", "left"} /\ awaitAt' = awaitAt /\ inBody' = inBody BY <1>2
  <2> QED BY <2>1, <2>2
<1> QED BY <1>1, <1>2

LEMMA FunctionSteps ==
  ASSUME AwaitInv, NEW t \in AwaitThreads,
         \/ Reenter(t) \/ StartOperation(t) \/ Assign(t) \/ Leave(t) \/ GoesRound(t) \/ Finish(t)
  PROVE  AwaitInv'
<1> USE AwaitAssumption
    DEF AwaitInv, CountShape, WaitShape, ValueShape, Inside, Outside, At
<1>1. CASE Reenter(t) BY <1>1 DEF Reenter
<1>2. CASE StartOperation(t) BY <1>2 DEF StartOperation
<1>3. CASE Assign(t) BY <1>3 DEF Assign, SetDestination
<1>4. CASE Leave(t) BY <1>4 DEF Leave
<1>5. CASE GoesRound(t)
  <2>1. awaitAt = "left" /\ inBody = {t} /\ invocations \in {1, 2} BY <1>5 DEF GoesRound
  <2>2. CASE invocations = 1 BY <1>5, <2>1, <2>2 DEF GoesRound
  <2>3. CASE invocations = 2 BY <1>5, <2>1, <2>3 DEF GoesRound
  <2> QED BY <2>1, <2>2, <2>3
<1>6. CASE Finish(t)
  <2>1. awaitAt \in {"work", "throwing", "await"} /\ inBody = {t} /\ awaitHandler.at = "none" /\ invocations = 1
    BY <1>6 DEF Finish
  <2>2. inBody' = {} /\ point' \in Int BY <1>6, <2>1 DEF Finish
  <2> QED BY <1>6, <2>1, <2>2 DEF Finish
<1> QED BY <1>1, <1>2, <1>3, <1>4, <1>5, <1>6

LEMMA AwaitCallKeeps ==
  ASSUME AwaitInv, NEW t \in AwaitThreads, NEW what \in {"void", "value", "ignored"}, Await(t, what)
  PROVE  AwaitInv'
<1>1. awaitAt = "work" /\ invocations = 1 /\ awaitHandler.at = "none"
  BY DEF AwaitInv, CountShape, WaitShape, Await, At
<1> QED
  BY <1>1 DEF AwaitInv, CountShape, WaitShape, ValueShape, Inside, Outside, At, Await

LEMMA AnswerStep ==
  ASSUME AwaitInv, NEW t \in AwaitThreads,
         \/ \E error \in BOOLEAN : StoreValue(t, error)
         \/ \E threw \in BOOLEAN : DropOperation(t, threw)
  PROVE  AwaitInv'
<1>1. ASSUME NEW error \in BOOLEAN, StoreValue(t, error) PROVE AwaitInv'
  <2>1. landed' = "stray" => form # "value"
    BY <1>1 DEF AwaitInv, ValueShape, StoreValue
  <2>2. /\ awaitHandler' = [at |-> "stored", on |-> t] /\ awaitHandler.at = "pending"
        /\ UNCHANGED <<awaitAt, point, invocations, inBody, awaits, form, todo, destination>>
    BY <1>1 DEF StoreValue, MayHandle
  <2> QED BY <2>1, <2>2 DEF AwaitInv, CountShape, WaitShape, ValueShape
<1>2. ASSUME NEW threw \in BOOLEAN, DropOperation(t, threw) PROVE AwaitInv'
  <2>1. /\ awaitHandler' = [at |-> "none", on |-> "nobody"] /\ awaitHandler.at = "pending"
        /\ UNCHANGED <<awaitAt, point, invocations, inBody, awaits, form, todo, destination, landed>>
    BY <1>2 DEF DropOperation, MayHandle, Unhandled
  <2> QED BY <2>1 DEF AwaitInv, CountShape, WaitShape, ValueShape
<1> QED BY <1>1, <1>2

LEMMA InvokingSteps ==
  ASSUME AwaitInv, NEW t \in AwaitThreads, AwaitLaunch(t) \/ ResumeByHandler(t)
  PROVE  AwaitInv'
<1>1. CASE AwaitLaunch(t)
  <2>1. awaitHandler.at = "none" BY <1>1 DEF AwaitLaunch, AwaitInv, WaitShape
  <2>2. awaitHandler' = awaitHandler BY <1>1 DEF AwaitLaunch
  <2>3. awaitHandler' \in [at : {"none"}, on : AwaitThreads \cup {"nobody"}]
    BY <2>1, <2>2 DEF AwaitInv, WaitShape
  <2> QED BY <1>1, <2>1, <2>2, <2>3, InvokeStep DEF AwaitLaunch
<1>2. CASE ResumeByHandler(t)
  <2>1. awaitHandler.at = "stored" BY <1>2 DEF ResumeByHandler
  <2>2. awaitAt # "over" BY <2>1 DEF AwaitInv, WaitShape
  <2>3. awaitHandler' = [at |-> "none", on |-> "nobody"] BY <1>2 DEF ResumeByHandler, Unhandled
  <2> QED BY <1>2, <2>1, <2>2, <2>3, InvokeStep DEF ResumeByHandler
<1> QED BY <1>1, <1>2

LEMMA AwaitInvariant == AwaitSpec => []AwaitInv
<1>1. ASSUME AwaitStart({"unborn"}) PROVE AwaitInv
  BY <1>1 DEF AwaitStart, AwaitInv, CountShape, WaitShape, ValueShape, Inside, Outside, Unhandled
<1>2. ASSUME AwaitInv, [AwaitNext]_awaitVars PROVE AwaitInv'
  <2>1. ASSUME NEW t \in AwaitThreads,
               \/ Reenter(t) \/ StartOperation(t) \/ Assign(t) \/ Leave(t) \/ GoesRound(t) \/ Finish(t)
        PROVE  AwaitInv'
    BY <1>2, <2>1, FunctionSteps
  <2>2. ASSUME NEW t \in AwaitThreads, AwaitLaunch(t) \/ ResumeByHandler(t) PROVE AwaitInv'
    BY <1>2, <2>2, InvokingSteps
  <2>3. ASSUME NEW t \in AwaitThreads, NEW what \in {"void", "value", "ignored"}, Await(t, what)
        PROVE  AwaitInv'
    BY <1>2, <2>3, AwaitCallKeeps
  <2>4. ASSUME NEW t \in AwaitThreads,
               \/ HandleValue(t) \/ HandleCode(t) \/ HandleException(t)
               \/ \E threw \in BOOLEAN : DropOperation(t, threw)
        PROVE  AwaitInv'
    BY <1>2, <2>4, AnswerStep DEF HandleValue, HandleCode, HandleException
  <2>5. CASE UNCHANGED awaitVars
    BY <1>2, <2>5 DEF awaitVars, AwaitInv, CountShape, WaitShape, ValueShape
  <2> QED BY <1>2, <2>1, <2>2, <2>3, <2>4, <2>5 DEF AwaitNext, AwaitGoes
<1> QED BY <1>1, <1>2, PTL DEF AwaitSpec

----------------------------------------------------------------------------
\* The function is never in two threads at once, whoever resumes it and when,
\* and goes on with its value, unless that came before its place was known
\* (await_context.h:95-99, 150, 200-223).
THEOREM AwaitIsSound == AwaitSpec => []AwaitSound
<1>1. AwaitInv => AwaitSound
  BY DEF AwaitInv, CountShape, ValueShape, AwaitSound, OneInBody, ValueLands, Inside, Outside
<1> QED BY <1>1, AwaitInvariant, PTL
----------------------------------------------------------------------------
(* The coroutine implements its promise: what the steps are of it.         *)

LEMMA PromisedFunctionSteps ==
  ASSUME AwaitInv, NEW t \in AwaitThreads,
         \/ Reenter(t) \/ StartOperation(t) \/ Assign(t) \/ Leave(t) \/ GoesRound(t) \/ Finish(t)
  PROVE  [AwaitPromise!Next]_(AwaitPromise!vars)
<1> USE AwaitAssumption
    DEF AwaitInv, CountShape, WaitShape, Inside, Outside, At, AwaitPromise!vars
<1>1. CASE Reenter(t)
  <2>1. CASE awaitAt' = "work" /\ point # 0
    <3>1. AwaitPromise!Continue BY <1>1, <2>1 DEF Reenter, AwaitPromise!Continue
    <3> QED BY <3>1 DEF AwaitPromise!Next
  <2>2. CASE ~(awaitAt' = "work" /\ point # 0) BY <1>1, <2>2 DEF Reenter
  <2> QED BY <2>1, <2>2
<1>2. CASE StartOperation(t) BY <1>2 DEF StartOperation
<1>3. CASE Assign(t) BY <1>3 DEF Assign, SetDestination
<1>4. CASE Leave(t) BY <1>4 DEF Leave
<1>5. CASE GoesRound(t)
  <2>1. awaitAt = "left" /\ inBody = {t} /\ invocations \in {1, 2} BY <1>5 DEF GoesRound
  <2>2. CASE invocations = 1 BY <1>5, <2>1, <2>2 DEF GoesRound
  <2>3. CASE invocations = 2 BY <1>5, <2>1, <2>3 DEF GoesRound
  <2> QED BY <2>1, <2>2, <2>3
<1>6. CASE Finish(t)
  <2>1. awaitAt' = "over" BY <1>6 DEF Finish
  <2>2. CASE awaitAt \in {"work", "throwing"}
    <3>1. AwaitPromise!End BY <1>6, <2>1, <2>2 DEF Finish, AwaitPromise!End
    <3> QED BY <3>1 DEF AwaitPromise!Next
  <2>3. CASE awaitAt = "await" /\ "start" \in todo
    <3>1. AwaitPromise!Drop BY <2>1, <2>3 DEF AwaitPromise!Drop
    <3> QED BY <3>1 DEF AwaitPromise!Next
  <2> QED BY <1>6, <2>2, <2>3 DEF Finish
<1> QED BY <1>1, <1>2, <1>3, <1>4, <1>5, <1>6

LEMMA PromisedAnswers ==
  ASSUME AwaitInv, NEW t \in AwaitThreads,
         \/ \E error \in BOOLEAN : StoreValue(t, error)
         \/ \E threw \in BOOLEAN : DropOperation(t, threw)
  PROVE  AwaitPromise!Next
<1> USE DEF AwaitInv, CountShape, WaitShape, Inside, Outside, MayHandle
<1>1. ASSUME NEW error \in BOOLEAN, StoreValue(t, error) PROVE AwaitPromise!Next
  <2>1. AwaitPromise!Answer BY <1>1 DEF StoreValue, AwaitPromise!Answer
  <2> QED BY <2>1 DEF AwaitPromise!Next
<1>2. ASSUME NEW threw \in BOOLEAN, DropOperation(t, threw) PROVE AwaitPromise!Next
  <2>1. AwaitPromise!Drop BY <1>2 DEF DropOperation, Unhandled, AwaitPromise!Drop
  <2> QED BY <2>1 DEF AwaitPromise!Next
<1> QED BY <1>1, <1>2

LEMMA PromisedInvocations ==
  ASSUME AwaitInv, NEW t \in AwaitThreads,
         \/ AwaitLaunch(t) \/ ResumeByHandler(t)
         \/ \E what \in {"void", "value", "ignored"} : Await(t, what)
  PROVE  [AwaitPromise!Next]_(AwaitPromise!vars)
<1> USE AwaitAssumption
    DEF AwaitInv, CountShape, WaitShape, Inside, Outside, At, AwaitPromise!vars
<1>1. CASE AwaitLaunch(t) BY <1>1 DEF AwaitLaunch, Invoke
<1>2. CASE ResumeByHandler(t)
  <2>1. CASE invocations = 0 BY <1>2, <2>1 DEF ResumeByHandler, Invoke, Unhandled
  <2>2. CASE invocations = 1 BY <1>2, <2>2 DEF ResumeByHandler, Invoke, Unhandled
  <2> QED BY <1>2, <2>1, <2>2 DEF ResumeByHandler
<1>3. ASSUME NEW what \in {"void", "value", "ignored"}, Await(t, what)
      PROVE  AwaitPromise!Next
  <2>1. AwaitPromise!Begin BY <1>3 DEF Await, AwaitPromise!Begin
  <2> QED BY <2>1 DEF AwaitPromise!Next
<1> QED BY <1>1, <1>2, <1>3

\* Resumed within the await expression, after it, or never, the function goes on
\* once for every answer and not without one (await_context.h:198-228).
THEOREM AwaitKeepsPromise == AwaitSpec => AwaitImplementsCoroutine
<1>1. AwaitStart({"unborn"}) => AwaitPromise!Init
  BY DEF AwaitStart, AwaitPromise!Init
<1>2. AwaitInv /\ [AwaitNext]_awaitVars => [AwaitPromise!Next]_(AwaitPromise!vars)
  <2>1. ASSUME UNCHANGED awaitVars PROVE UNCHANGED AwaitPromise!vars
    BY <2>1 DEF awaitVars, AwaitPromise!vars
  <2>2. ASSUME AwaitInv, AwaitNext PROVE [AwaitPromise!Next]_(AwaitPromise!vars)
    BY <2>2, PromisedFunctionSteps, PromisedAnswers, PromisedInvocations
    DEF AwaitNext, AwaitGoes, HandleValue, HandleCode, HandleException
  <2> QED BY <2>1, <2>2
<1> QED BY <1>1, <1>2, AwaitInvariant, PTL DEF AwaitSpec, AwaitImplementsCoroutine

----------------------------------------------------------------------------
(* The types of a coroutine without a stack.                               *)

\* The point to resume at is one of the awaits there have been, until the
\* function is complete; that takes the count of the thread that was in it.
AwaitCounts ==
  /\ awaits \in 0 .. MaxAwaits /\ destination \in 0 .. MaxAwaits
  /\ IF awaitAt = "over" THEN point \in -1 .. awaits /\ invocations = 1 ELSE point \in 0 .. awaits
  /\ modified \in BOOLEAN /\ exception \in BOOLEAN
  /\ form \in {"void", "value", "ignored"} /\ landed \in {"none", "right", "early", "stray"}

LEMMA CountsOfFunction ==
  ASSUME AwaitInv, AwaitCounts, NEW t \in AwaitThreads,
         \/ Reenter(t) \/ StartOperation(t) \/ Assign(t) \/ Leave(t) \/ GoesRound(t) \/ Finish(t)
         \/ \E what \in {"void", "value", "ignored"} : Await(t, what)
  PROVE  AwaitCounts'
<1> USE AwaitAssumption DEF AwaitCounts, At
<1>1. CASE Reenter(t) BY <1>1 DEF Reenter
<1>2. CASE StartOperation(t) BY <1>2 DEF StartOperation
<1>3. CASE Assign(t) BY <1>3 DEF Assign, SetDestination
<1>4. CASE Leave(t) BY <1>4 DEF Leave
<1>5. CASE GoesRound(t) BY <1>5 DEF GoesRound
<1>6. CASE Finish(t)
  <2>1. awaitAt \in {"work", "throwing", "await"} /\ invocations = 1
    BY <1>6 DEF Finish, AwaitInv, CountShape, WaitShape, Inside
  <2> QED BY <1>6, <2>1 DEF Finish
<1>7. ASSUME NEW what \in {"void", "value", "ignored"}, Await(t, what) PROVE AwaitCounts'
  BY <1>7 DEF Await
<1> QED BY <1>1, <1>2, <1>3, <1>4, <1>5, <1>6, <1>7

LEMMA CountsOfHandler ==
  ASSUME AwaitInv, AwaitCounts, NEW t \in AwaitThreads,
         \/ AwaitLaunch(t) \/ ResumeByHandler(t)
         \/ HandleValue(t) \/ HandleCode(t) \/ HandleException(t)
         \/ \E threw \in BOOLEAN : DropOperation(t, threw)
  PROVE  AwaitCounts'
<1> USE AwaitAssumption DEF AwaitCounts
<1>1. CASE AwaitLaunch(t) BY <1>1 DEF AwaitLaunch, Invoke
<1>2. CASE ResumeByHandler(t)
  <2>1. awaitAt # "over" BY <1>2 DEF ResumeByHandler, AwaitInv, WaitShape
  <2> QED BY <1>2, <2>1 DEF ResumeByHandler, Invoke
<1>3. ASSUME NEW error \in BOOLEAN, StoreValue(t, error) PROVE AwaitCounts' BY <1>3 DEF StoreValue
<1>4. ASSUME NEW threw \in BOOLEAN, DropOperation(t, threw) PROVE AwaitCounts' BY <1>4 DEF DropOperation
<1> QED BY <1>1, <1>2, <1>3, <1>4 DEF HandleValue, HandleCode, HandleException

LEMMA AwaitTypes == AwaitSpec => []AwaitTypeOK
<1>1. ASSUME AwaitStart({"unborn"}) PROVE AwaitCounts
  <2>1. modified \in BOOLEAN /\ exception \in BOOLEAN BY <1>1 DEF AwaitStart
  <2>2. awaits = 0 /\ destination = 0 /\ point = 0 /\ awaitAt = "unborn" /\ form = "void" /\ landed = "none"
    BY <1>1 DEF AwaitStart
  <2> QED BY <2>1, <2>2, AwaitAssumption DEF AwaitCounts
<1>2. ASSUME AwaitInv, AwaitCounts, [AwaitNext]_awaitVars PROVE AwaitCounts'
  <2>1. CASE UNCHANGED awaitVars BY <1>2, <2>1 DEF awaitVars, AwaitCounts
  <2> QED BY <1>2, <2>1, CountsOfFunction, CountsOfHandler DEF AwaitNext, AwaitGoes
<1>3. ASSUME AwaitInv, AwaitCounts PROVE AwaitTypeOK
  <2>1. invocations \in 0 .. MaxAwaits + 1
    <3>1. CASE invocations = 2
      <4>1. awaitAt \in {"await", "left"} /\ point # 0 BY <1>3, <3>1 DEF AwaitInv, CountShape, WaitShape
      <4>2. awaits > 0 BY <1>3, <4>1 DEF AwaitCounts
      <4> QED BY <1>3, <3>1, <4>2, AwaitAssumption DEF AwaitCounts
    <3>2. CASE invocations # 2
      BY <1>3, <3>2, AwaitAssumption DEF AwaitInv, AwaitCounts, CountShape, Inside, Outside
    <3> QED BY <3>1, <3>2
  <2>2. inBody \subseteq AwaitThreads BY <1>3 DEF AwaitInv, CountShape
  <2>3. point \in -1 .. MaxAwaits BY <1>3, AwaitAssumption DEF AwaitCounts
  <2>4. awaitAt \in {"unborn", "enter", "throwing", "work", "await", "left", "out", "over"}
    BY <1>3 DEF AwaitInv, CountShape, Inside, Outside
  <2> QED BY <1>3, <2>1, <2>2, <2>3, <2>4 DEF AwaitInv, AwaitCounts, AwaitTypeOK, WaitShape
<1> QED BY <1>1, <1>2, <1>3, AwaitInvariant, PTL DEF AwaitSpec
=============================================================================
