---------------------------- MODULE ExampleProofs ----------------------------
(***************************************************************************)
(* The example programs.  A join of fork_join's pool waits for everything  *)
(* that was forked, for any number of threads and functions, however these *)
(* fork; and the lines of a pipeline stay in the order they were read in,  *)
(* however many functions and lines there are.  And no token gets lost in  *)
(* the ring of actors, whatever its size.                                  *)
(***************************************************************************)
EXTENDS ForkJoinPool, Pipeline, Actors, FiniteSetTheorems, SequenceTheorems, TLAPS

----------------------------------------------------------------------------
(* fork_join: what is true of its pool.                                    *)

Started == {"queued", "running", "joined"}
Active  == Started \cup {"timed"}

ForkShape ==
  /\ useCount \in Int /\ groupWork \in [Jobs -> Int] /\ jobs \in Seq(Jobs)
  /\ nest \in [ForkThreads -> Seq(Jobs)] /\ guarded \subseteq Jobs
  /\ job \in [Jobs -> {"new", "timed", "queued", "running", "joined", "done"}]

\* What is queued is queued once, and what is executed is on one stack once;
\* the root is at the bottom of main's.
QueuedOnce ==
  /\ \A i \in 1 .. Len(jobs) : jobs[i] # Root /\ job[jobs[i]] = "queued"
  /\ \A i, j \in 1 .. Len(jobs) : jobs[i] = jobs[j] => i = j

NestedOnce ==
  /\ \A t \in ForkThreads : \A i \in 1 .. Len(nest[t]) :
       IF nest[t][i] = Root THEN job[Root] \in {"new", "running", "joined"}
       ELSE job[nest[t][i]] \in {"running", "joined"}
  /\ \A t, u \in ForkThreads : \A i \in 1 .. Len(nest[t]), j \in 1 .. Len(nest[u]) :
       nest[t][i] = nest[u][j] => t = u /\ i = j

RootStays ==
  /\ job[Root] \in {"new", "running", "joined", "done"}
  /\ job[Root] = "done" => \A t \in ForkThreads : \A i \in 1 .. Len(nest[t]) : nest[t][i] # Root

\* A group counts its functions that have been started and have not ended, and
\* the work that is held for those that wait for their time.
StartedIn(p) == {c \in Forks[p] : job[c] \in Started}
GroupsCount ==
  /\ \A p \in Jobs : groupWork[p] = Cardinality(StartedIn(p)) + Cardinality(Forks[p] \cap guarded)
  /\ \A c \in Jobs : job[c] = "timed" => c \in guarded
  /\ \A c \in guarded : job[c] # "new" /\ c # Root

\* Only a function that has not joined has active functions in its group, and
\* all of them have been dispatched before it does.
ForkersRun ==
  /\ \A p \in Jobs : \A c \in Forks[p] : job[c] \in Active => job[p] = "running"
  /\ \A c \in Jobs : job[c] # "new" /\ c # Root => \E p \in Jobs : c \in Forks[p]
  /\ \A p \in Jobs : job[p] \in {"joined", "done"} /\ p # Root => \A c \in Forks[p] : job[c] = "done"

ForkInv == ForkShape /\ QueuedOnce /\ NestedOnce /\ RootStays /\ GroupsCount /\ ForkersRun

LEMMA InvImpliesJoins == ForkInv => JoinsAll
<1> SUFFICES ASSUME ForkInv PROVE JoinsAll OBVIOUS
<1>1. \A p \in Jobs : job[p] \in {"joined", "done"} /\ p # Root => \A c \in Forks[p] : job[c] = "done"
  BY DEF ForkInv, ForkersRun
<1>2. ASSUME job[Root] = "done", NEW q \in Jobs, job[q] \notin {"new", "done"} PROVE FALSE
  <2> DEFINE S == {c \in Jobs \ {Root} : job[c] \in Active}
  <2>1. \A c \in Jobs : job[c] \in {"new", "done"} \/ job[c] \in Active
    BY DEF ForkInv, ForkShape, Active, Started
  <2>2. S \in SUBSET (Jobs \ {Root}) /\ q \in S BY <1>2, <2>1
  <2>3. PICK c \in S : \A p \in S : c \notin Forks[p] BY <2>2, ForkAssumption
  <2>4. c # Root /\ job[c] \in Active /\ job[c] # "new" BY <2>3 DEF Active, Started
  <2>5. PICK p \in Jobs : c \in Forks[p] BY <2>3, <2>4 DEF ForkInv, ForkersRun
  <2>6. job[p] = "running" BY <2>4, <2>5 DEF ForkInv, ForkersRun
  <2>7. p # Root BY <1>2, <2>6
  <2>8. p \in S BY <2>5, <2>6, <2>7 DEF Active, Started
  <2> QED BY <2>3, <2>5, <2>8
<1> QED BY <1>1, <1>2 DEF JoinsAll

LEMMA ForkerIs ==
  ASSUME NEW p \in Jobs, NEW c \in Forks[p]
  PROVE  Forker(c) = p /\ c \in Jobs /\ c # Root /\ \A q \in Jobs : c \in Forks[q] => q = p
<1>1. \A q \in Jobs : c \in Forks[q] => q = p BY ForkAssumption
<1>2. Forker(c) = p BY <1>1 DEF Forker
<1> QED BY <1>1, <1>2, ForkAssumption

\* Nothing forks itself.
LEMMA ForksLeadOn ==
  ASSUME NEW p \in Jobs PROVE p \notin Forks[p]
<1>1. CASE p = Root BY <1>1, ForkAssumption
<1>2. CASE p # Root
  <2>1. {p} \in SUBSET (Jobs \ {Root}) /\ {p} # {} BY <1>2
  <2>2. \E c \in {p} : \A q \in {p} : c \notin Forks[q] BY <2>1, ForkAssumption
  <2> QED BY <2>2
<1> QED BY <1>1, <1>2

LEMMA SetsAreFinite ==
  ASSUME NEW p \in Jobs
  PROVE  /\ IsFiniteSet(StartedIn(p)) /\ Cardinality(StartedIn(p)) \in Nat
         /\ IsFiniteSet(Forks[p] \cap guarded) /\ Cardinality(Forks[p] \cap guarded) \in Nat
<1>1. Forks[p] \subseteq Jobs BY ForkAssumption
<1>2. IsFiniteSet(StartedIn(p)) /\ IsFiniteSet(Forks[p] \cap guarded)
  BY <1>1, ForkAssumption, FS_Subset DEF StartedIn
<1> QED BY <1>2, FS_CardinalityType

LEMMA ForkStarts == ForkStart => ForkInv
<1> SUFFICES ASSUME ForkStart PROVE ForkInv OBVIOUS
<1>1. /\ useCount = 1 /\ groupWork = [p \in Jobs |-> 0] /\ jobs = <<>>
      /\ nest = [t \in ForkThreads |-> IF t = "main" THEN <<Root>> ELSE <<>>]
      /\ job = [p \in Jobs |-> "new"] /\ guarded = {}
  BY DEF ForkStart
<1>2. \A t \in ForkThreads : \A i \in 1 .. Len(nest[t]) : t = "main" /\ i = 1 /\ nest[t][i] = Root
  BY <1>1
<1>3. ForkShape
  <2>1. \A t \in ForkThreads : nest[t] \in Seq(Jobs) BY <1>1, ForkAssumption
  <2> QED BY <1>1, <2>1 DEF ForkShape
<1>4. QueuedOnce BY <1>1 DEF QueuedOnce
<1>5. NestedOnce /\ RootStays BY <1>1, <1>2, ForkAssumption DEF NestedOnce, RootStays
<1>6. GroupsCount
  <2>1. \A p \in Jobs : StartedIn(p) = {} /\ Forks[p] \cap guarded = {}
    BY <1>1, ForkAssumption DEF StartedIn, Started
  <2>2. Cardinality({}) = 0 BY FS_EmptySet
  <2>3. \A p \in Jobs : groupWork[p] = Cardinality(StartedIn(p)) + Cardinality(Forks[p] \cap guarded)
    <3> SUFFICES ASSUME NEW p \in Jobs
                 PROVE  groupWork[p] = Cardinality(StartedIn(p)) + Cardinality(Forks[p] \cap guarded)
      OBVIOUS
    <3>1. Cardinality(StartedIn(p)) = 0 /\ Cardinality(Forks[p] \cap guarded) = 0 BY <2>1, <2>2
    <3> QED BY <1>1, <3>1
  <2>4. \A c \in Jobs : job[c] = "new" BY <1>1
  <2>5. \A c \in Jobs : job[c] # "timed" BY <2>4
  <2>6. guarded = {} BY <1>1
  <2> QED BY <2>3, <2>5, <2>6 DEF GroupsCount
<1>7. ForkersRun BY <1>1, ForkAssumption DEF ForkersRun, Active, Started
<1> QED BY <1>3, <1>4, <1>5, <1>6, <1>7 DEF ForkInv

----------------------------------------------------------------------------
(* The groups.                                                             *)

\* One function of group p comes to be counted, or ceases to be.
LEMMA StartedMore ==
  ASSUME ForkInv, NEW p \in Jobs, NEW c \in Forks[p], NEW v \in Started, job[c] \notin Started,
         job' = [job EXCEPT ![c] = v]
  PROVE  /\ \A q \in Jobs : IsFiniteSet(StartedIn(q)')
         /\ \A q \in Jobs : Cardinality(StartedIn(q)') =
              IF q = p THEN Cardinality(StartedIn(q)) + 1 ELSE Cardinality(StartedIn(q))
<1>1. c \in Jobs /\ (\A q \in Jobs : c \in Forks[q] => q = p) BY ForkerIs
<1>2. job \in [Jobs -> {"new", "timed", "queued", "running", "joined", "done"}]
  BY DEF ForkInv, ForkShape
<1>3. StartedIn(p)' = StartedIn(p) \cup {c} /\ c \notin StartedIn(p)
  BY <1>1, <1>2, ForkAssumption DEF StartedIn
<1>4. \A q \in Jobs : q # p => StartedIn(q)' = StartedIn(q)
  BY <1>1, <1>2, ForkAssumption DEF StartedIn
<1>5. /\ IsFiniteSet(StartedIn(p)')
      /\ Cardinality(StartedIn(p)') = Cardinality(StartedIn(p)) + 1
  <2>1. IsFiniteSet(StartedIn(p)) BY SetsAreFinite
  <2>2. /\ IsFiniteSet(StartedIn(p) \cup {c})
        /\ Cardinality(StartedIn(p) \cup {c}) = Cardinality(StartedIn(p)) + 1
    BY <1>3, <2>1, FS_AddElement
  <2> QED BY <1>3, <2>2
<1> QED BY <1>4, <1>5, SetsAreFinite

LEMMA StartedSame ==
  ASSUME ForkInv, NEW c \in Jobs, NEW v, job[c] \in Started <=> v \in Started,
         job' = [job EXCEPT ![c] = v]
  PROVE  \A q \in Jobs : StartedIn(q)' = StartedIn(q)
<1>1. job \in [Jobs -> {"new", "timed", "queued", "running", "joined", "done"}]
  BY DEF ForkInv, ForkShape
<1> QED BY <1>1, ForkAssumption DEF StartedIn

LEMMA StartedLess ==
  ASSUME ForkInv, NEW p \in Jobs, NEW c \in Forks[p], job[c] \in Started,
         job' = [job EXCEPT ![c] = "done"]
  PROVE  \A q \in Jobs : Cardinality(StartedIn(q)') =
           IF q = p THEN Cardinality(StartedIn(q)) - 1 ELSE Cardinality(StartedIn(q))
<1>1. c \in Jobs /\ (\A q \in Jobs : c \in Forks[q] => q = p) BY ForkerIs
<1>2. job \in [Jobs -> {"new", "timed", "queued", "running", "joined", "done"}]
  BY DEF ForkInv, ForkShape
<1>3. StartedIn(p)' = StartedIn(p) \ {c} /\ c \in StartedIn(p)
  BY <1>1, <1>2, ForkAssumption DEF StartedIn, Started
<1>4. \A q \in Jobs : q # p => StartedIn(q)' = StartedIn(q)
  BY <1>1, <1>2, ForkAssumption DEF StartedIn, Started
<1>5. Cardinality(StartedIn(p)') = Cardinality(StartedIn(p)) - 1
  BY <1>3, SetsAreFinite, FS_RemoveElement
<1> QED BY <1>4, <1>5

----------------------------------------------------------------------------
(* What becomes of a function.                                             *)

LEMMA NestIs ==
  ASSUME ForkInv, NEW t \in ForkThreads
  PROVE  /\ nest[t] \in Seq(Jobs) /\ Len(nest[t]) \in Nat
         /\ nest[t] # <<>> =>
              /\ Len(nest[t]) \in 1 .. Len(nest[t]) /\ Innermost(t) = nest[t][Len(nest[t])]
              /\ Innermost(t) \in Jobs
<1>1. nest[t] \in Seq(Jobs) /\ Len(nest[t]) \in Nat BY DEF ForkInv, ForkShape
<1>2. ASSUME nest[t] # <<>>
      PROVE  /\ Len(nest[t]) \in 1 .. Len(nest[t]) /\ Innermost(t) = nest[t][Len(nest[t])]
             /\ Innermost(t) \in Jobs
  <2>1. Len(nest[t]) # 0 BY <1>1, <1>2
  <2> QED BY <1>1, <2>1 DEF Innermost, Stacks!Last
<1> QED BY <1>1, <1>2

\* A function that is dispatched, at its time or at once, is of the group of one
\* that runs, and its group counts it from then on.
LEMMA Posted ==
  ASSUME ForkInv, NEW p \in Jobs, NEW c \in Forks[p], job[p] = "running", job[c] \in {"new", "timed"},
         job' = [job EXCEPT ![c] = "queued"], jobs' = Append(jobs, c), DoWorkStarted(p),
         UNCHANGED <<nest, guarded>>
  PROVE  ForkInv'
<1>1. Forker(c) = p /\ c \in Jobs /\ c # Root /\ c # p /\ \A q \in Jobs : c \in Forks[q] => q = p
  BY ForkerIs
<1>2. /\ useCount \in Int /\ groupWork \in [Jobs -> Int] /\ jobs \in Seq(Jobs) /\ Len(jobs) \in Nat
      /\ job \in [Jobs -> {"new", "timed", "queued", "running", "joined", "done"}]
  BY DEF ForkInv, ForkShape
<1>3. /\ groupWork' = [groupWork EXCEPT ![p] = groupWork[p] + 1] /\ useCount' \in Int
  BY <1>2 DEF DoWorkStarted
<1>4. /\ jobs' \in Seq(Jobs) /\ Len(jobs') = Len(jobs) + 1 /\ jobs'[Len(jobs) + 1] = c
      /\ \A i \in 1 .. Len(jobs) : jobs'[i] = jobs[i]
  BY <1>1, <1>2, AppendProperties
<1>5. job'[c] = "queued" /\ \A q \in Jobs : q # c => job'[q] = job[q] BY <1>1, <1>2
<1>6. ForkShape' BY <1>1, <1>2, <1>3, <1>4 DEF ForkInv, ForkShape
<1>7. QueuedOnce'
  <2>1. \A i \in 1 .. Len(jobs) : jobs[i] \in Jobs /\ jobs[i] # c /\ jobs[i] # Root /\ job[jobs[i]] = "queued"
    BY <1>2 DEF ForkInv, QueuedOnce
  <2>2. \A i \in 1 .. Len(jobs') : i \in 1 .. Len(jobs) \/ i = Len(jobs) + 1 BY <1>2, <1>4
  <2>3. \A i \in 1 .. Len(jobs') : jobs'[i] # Root /\ job'[jobs'[i]] = "queued"
    BY <1>1, <1>4, <1>5, <2>1, <2>2
  <2>4. \A i, j \in 1 .. Len(jobs') : jobs'[i] = jobs'[j] => i = j
    BY <1>4, <2>1, <2>2 DEF ForkInv, QueuedOnce
  <2> QED BY <2>3, <2>4 DEF QueuedOnce
<1>8. NestedOnce' /\ RootStays'
  <2>1. \A t \in ForkThreads : \A i \in 1 .. Len(nest[t]) : nest[t][i] \in Jobs /\ nest[t][i] # c
    BY <1>1, NestIs DEF ForkInv, NestedOnce
  <2>2. job'[Root] = job[Root] BY <1>1, <1>5, ForkAssumption
  <2> QED BY <1>5, <2>1, <2>2 DEF ForkInv, NestedOnce, RootStays
<1>9. GroupsCount'
  <2>1. \A q \in Jobs : Cardinality(StartedIn(q)') =
          IF q = p THEN Cardinality(StartedIn(q)) + 1 ELSE Cardinality(StartedIn(q))
    BY StartedMore DEF Started
  <2>2. \A q \in Jobs : groupWork[q] = Cardinality(StartedIn(q)) + Cardinality(Forks[q] \cap guarded)
    BY DEF ForkInv, GroupsCount
  <2>3. \A q \in Jobs : groupWork'[q] = Cardinality(StartedIn(q)') + Cardinality(Forks[q] \cap guarded)
    <3> SUFFICES ASSUME NEW q \in Jobs
                 PROVE  groupWork'[q] = Cardinality(StartedIn(q)') + Cardinality(Forks[q] \cap guarded)
      OBVIOUS
    <3>1. Cardinality(StartedIn(q)) \in Nat /\ Cardinality(Forks[q] \cap guarded) \in Nat
      BY SetsAreFinite
    <3>2. groupWork'[q] = IF q = p THEN groupWork[q] + 1 ELSE groupWork[q] BY <1>2, <1>3
    <3> QED BY <2>1, <2>2, <3>1, <3>2
  <2>4. \A d \in Jobs : job'[d] = "timed" => d \in guarded BY <1>5 DEF ForkInv, GroupsCount
  <2>5. \A d \in guarded : job'[d] # "new" /\ d # Root BY <1>5 DEF ForkInv, GroupsCount, ForkShape
  <2> QED BY <2>3, <2>4, <2>5 DEF GroupsCount
<1>10. ForkersRun'
  <2>1. ASSUME NEW q \in Jobs, NEW d \in Forks[q], job'[d] \in Active PROVE job'[q] = "running"
    <3>1. d \in Jobs BY ForkAssumption
    <3>2. CASE d = c BY <1>1, <1>5, <3>2
    <3>3. CASE d # c
      <4>1. job[q] = "running" BY <1>5, <2>1, <3>1, <3>3 DEF ForkInv, ForkersRun
      <4> QED BY <1>5, <4>1
    <3> QED BY <3>2, <3>3
  <2>2. \A d \in Jobs : job'[d] # "new" /\ d # Root => \E q \in Jobs : d \in Forks[q]
    BY <1>5 DEF ForkInv, ForkersRun
  <2>3. ASSUME NEW q \in Jobs, job'[q] \in {"joined", "done"}, q # Root, NEW d \in Forks[q]
        PROVE  job'[d] = "done"
    <3>1. q # c /\ q # p BY <1>1, <1>5, <2>3
    <3>2. d \in Jobs /\ d # c BY <1>1, <3>1, ForkAssumption
    <3> QED BY <1>5, <2>3, <3>1, <3>2 DEF ForkInv, ForkersRun
  <2> QED BY <2>1, <2>2, <2>3 DEF ForkersRun
<1> QED BY <1>6, <1>7, <1>8, <1>9, <1>10 DEF ForkInv

\* A function is executed on the stack of t: from the queue, or at once.
LEMMA Executed ==
  ASSUME ForkInv, NEW t \in ForkThreads, NEW p \in Jobs, NEW c \in Forks[p], job[p] = "running",
         job[c] \in {"new", "queued"}, Executes(t, c), UNCHANGED guarded,
         \/ job[c] = "queued" /\ jobs # <<>> /\ c = Head(jobs) /\ jobs' = Tail(jobs)
            /\ UNCHANGED <<groupWork, useCount>>
         \/ job[c] = "new" /\ UNCHANGED jobs /\ DoWorkStarted(p)
  PROVE  ForkInv'
<1>1. Forker(c) = p /\ c \in Jobs /\ c # Root /\ c # p /\ \A q \in Jobs : c \in Forks[q] => q = p
  BY ForkerIs
<1>2. /\ useCount \in Int /\ groupWork \in [Jobs -> Int] /\ jobs \in Seq(Jobs) /\ Len(jobs) \in Nat
      /\ job \in [Jobs -> {"new", "timed", "queued", "running", "joined", "done"}]
      /\ nest \in [ForkThreads -> Seq(Jobs)]
  BY DEF ForkInv, ForkShape
<1>3. job' = [job EXCEPT ![c] = "running"] /\ nest' = [nest EXCEPT ![t] = Append(nest[t], c)]
  BY DEF Executes
<1>4. job'[c] = "running" /\ \A q \in Jobs : q # c => job'[q] = job[q] BY <1>1, <1>2, <1>3
<1>5. /\ jobs' \in Seq(Jobs) /\ Len(jobs') \in 0 .. Len(jobs)
      /\ \A i \in 1 .. Len(jobs') : jobs'[i] # c
      /\ \E k \in {0, 1} : \A i \in 1 .. Len(jobs') : i + k \in 1 .. Len(jobs) /\ jobs'[i] = jobs[i + k]
  <2>1. CASE job[c] = "queued" /\ jobs # <<>> /\ c = Head(jobs) /\ jobs' = Tail(jobs)
    <3>1. /\ jobs' \in Seq(Jobs) /\ Len(jobs') = Len(jobs) - 1 /\ Len(jobs) > 0 /\ c = jobs[1]
          /\ \A i \in 1 .. Len(jobs') : jobs'[i] = jobs[i + 1]
      BY <1>2, <2>1, HeadTailProperties
    <3>2. \A i \in 1 .. Len(jobs') : i + 1 \in 1 .. Len(jobs) /\ jobs[i + 1] # jobs[1]
      <4>1. \A i \in 1 .. Len(jobs') : i + 1 \in 1 .. Len(jobs) /\ 1 \in 1 .. Len(jobs) /\ i + 1 # 1 BY <3>1
      <4>2. \A i, j \in 1 .. Len(jobs) : jobs[i] = jobs[j] => i = j BY DEF ForkInv, QueuedOnce
      <4> QED BY <4>1, <4>2
    <3>3. \A i \in 1 .. Len(jobs') : i + 1 \in 1 .. Len(jobs) /\ jobs'[i] = jobs[i + 1] /\ jobs'[i] # c
      BY <3>1, <3>2
    <3>4. Len(jobs') \in 0 .. Len(jobs) BY <1>2, <3>1
    <3> QED BY <3>1, <3>3, <3>4
  <2>2. CASE job[c] = "new" /\ UNCHANGED jobs
    <3>1. \A i \in 1 .. Len(jobs) : jobs[i] # c BY <2>2 DEF ForkInv, QueuedOnce
    <3>2. \A i \in 1 .. Len(jobs') : i + 0 \in 1 .. Len(jobs) /\ jobs'[i] = jobs[i + 0] BY <1>2, <2>2
    <3> QED BY <1>2, <2>2, <3>1, <3>2
  <2> QED BY <2>1, <2>2
<1>6. groupWork' \in [Jobs -> Int] /\ useCount' \in Int BY <1>2 DEF DoWorkStarted
<1>7. /\ nest' \in [ForkThreads -> Seq(Jobs)] /\ Len(nest[t]) \in Nat
      /\ Len(nest'[t]) = Len(nest[t]) + 1 /\ nest'[t][Len(nest[t]) + 1] = c
      /\ \A i \in 1 .. Len(nest[t]) : nest'[t][i] = nest[t][i]
      /\ \A u \in ForkThreads : u # t => nest'[u] = nest[u]
  <2>1. /\ Append(nest[t], c) \in Seq(Jobs) /\ Len(nest[t]) \in Nat
        /\ Len(Append(nest[t], c)) = Len(nest[t]) + 1 /\ Append(nest[t], c)[Len(nest[t]) + 1] = c
        /\ \A i \in 1 .. Len(nest[t]) : Append(nest[t], c)[i] = nest[t][i]
    BY <1>1, NestIs, AppendProperties
  <2> QED BY <1>2, <1>3, <2>1
<1>8. ForkShape' BY <1>1, <1>2, <1>3, <1>5, <1>6, <1>7 DEF ForkInv, ForkShape
<1>9. QueuedOnce'
  <2>1. PICK k \in {0, 1} : \A i \in 1 .. Len(jobs') : i + k \in 1 .. Len(jobs) /\ jobs'[i] = jobs[i + k]
    BY <1>5
  <2>2. \A i \in 1 .. Len(jobs) : jobs[i] \in Jobs /\ jobs[i] # Root /\ job[jobs[i]] = "queued"
    BY <1>2 DEF ForkInv, QueuedOnce
  <2>3. \A i \in 1 .. Len(jobs') : jobs'[i] # Root /\ job'[jobs'[i]] = "queued"
    BY <1>4, <1>5, <2>1, <2>2
  <2>4. ASSUME NEW i \in 1 .. Len(jobs'), NEW j \in 1 .. Len(jobs'), jobs'[i] = jobs'[j] PROVE i = j
    <3>1. i + k = j + k BY <2>1, <2>4 DEF ForkInv, QueuedOnce
    <3> QED BY <3>1
  <2> QED BY <2>3, <2>4 DEF QueuedOnce
<1>10. \A u \in ForkThreads : \A i \in 1 .. Len(nest'[u]) :
         \/ u = t /\ i = Len(nest[t]) + 1 /\ nest'[u][i] = c
         \/ i \in 1 .. Len(nest[u]) /\ nest'[u][i] = nest[u][i] /\ nest[u][i] # c /\ nest[u][i] \in Jobs
  <2>1. \A u \in ForkThreads : \A i \in 1 .. Len(nest[u]) : nest[u][i] \in Jobs /\ nest[u][i] # c
    <3> SUFFICES ASSUME NEW u \in ForkThreads, NEW i \in 1 .. Len(nest[u])
                 PROVE  nest[u][i] \in Jobs /\ nest[u][i] # c
      OBVIOUS
    <3>1. nest[u] \in Seq(Jobs) BY <1>2
    <3>2. IF nest[u][i] = Root THEN TRUE ELSE job[nest[u][i]] \in {"running", "joined"}
      BY DEF ForkInv, NestedOnce
    <3>3. job[c] \notin {"running", "joined"} OBVIOUS
    <3> QED BY <1>1, <3>1, <3>2, <3>3
  <2> SUFFICES ASSUME NEW u \in ForkThreads, NEW i \in 1 .. Len(nest'[u])
               PROVE  \/ u = t /\ i = Len(nest[t]) + 1 /\ nest'[u][i] = c
                      \/ i \in 1 .. Len(nest[u]) /\ nest'[u][i] = nest[u][i] /\ nest[u][i] # c /\ nest[u][i] \in Jobs
    OBVIOUS
  <2>2. CASE u # t
    <3>1. nest'[u] = nest[u] BY <1>7, <2>2
    <3> QED BY <2>1, <3>1
  <2>3. CASE u = t /\ i = Len(nest[t]) + 1 BY <1>7, <2>3
  <2>4. CASE u = t /\ i # Len(nest[t]) + 1
    <3>1. i \in 1 .. Len(nest[t]) BY <1>7, <2>4
    <3>2. nest'[t][i] = nest[t][i] BY <1>7, <3>1
    <3> QED BY <2>1, <2>4, <3>1, <3>2
  <2> QED BY <2>2, <2>3, <2>4
<1>11. NestedOnce'
  <2>1. ASSUME NEW u \in ForkThreads, NEW i \in 1 .. Len(nest'[u])
        PROVE  IF nest'[u][i] = Root THEN job'[Root] \in {"new", "running", "joined"}
               ELSE job'[nest'[u][i]] \in {"running", "joined"}
    <3>1. CASE nest'[u][i] = c BY <1>1, <1>4, <3>1
    <3>2. CASE i \in 1 .. Len(nest[u]) /\ nest'[u][i] = nest[u][i] /\ nest[u][i] # c /\ nest[u][i] \in Jobs
      BY <1>4, <3>2 DEF ForkInv, NestedOnce
    <3> QED BY <1>10, <3>1, <3>2
  <2>2. ASSUME NEW u \in ForkThreads, NEW v \in ForkThreads, NEW i \in 1 .. Len(nest'[u]),
               NEW j \in 1 .. Len(nest'[v]), nest'[u][i] = nest'[v][j]
        PROVE  u = v /\ i = j
    <3>1. CASE nest'[u][i] = c
      <4>1. u = t /\ i = Len(nest[t]) + 1 BY <1>10, <3>1
      <4>2. v = t /\ j = Len(nest[t]) + 1 BY <1>10, <2>2, <3>1
      <4> QED BY <4>1, <4>2
    <3>2. CASE nest'[u][i] # c
      <4>1. i \in 1 .. Len(nest[u]) /\ nest'[u][i] = nest[u][i] BY <1>10, <3>2
      <4>2. j \in 1 .. Len(nest[v]) /\ nest'[v][j] = nest[v][j] BY <1>10, <2>2, <3>2
      <4>3. nest[u][i] = nest[v][j] BY <2>2, <4>1, <4>2
      <4>4. \A x, y \in ForkThreads : \A k \in 1 .. Len(nest[x]), l \in 1 .. Len(nest[y]) :
              nest[x][k] = nest[y][l] => x = y /\ k = l
        BY DEF ForkInv, NestedOnce
      <4> QED BY <4>1, <4>2, <4>3, <4>4
    <3> QED BY <3>1, <3>2
  <2> QED BY <2>1, <2>2 DEF NestedOnce
<1>12. RootStays'
  <2>1. job'[Root] = job[Root] BY <1>1, <1>4, ForkAssumption
  <2> QED BY <1>1, <1>10, <2>1 DEF ForkInv, RootStays
<1>13. GroupsCount'
  <2>1. \A q \in Jobs : groupWork[q] = Cardinality(StartedIn(q)) + Cardinality(Forks[q] \cap guarded)
    BY DEF ForkInv, GroupsCount
  <2>2. \A q \in Jobs : groupWork'[q] = Cardinality(StartedIn(q)') + Cardinality(Forks[q] \cap guarded)
    <3>1. CASE job[c] = "queued" /\ UNCHANGED groupWork
      <4>1. \A q \in Jobs : StartedIn(q)' = StartedIn(q) BY <1>1, <1>3, <3>1, StartedSame DEF Started
      <4> QED BY <2>1, <3>1, <4>1
    <3>2. CASE job[c] = "new" /\ DoWorkStarted(p)
      <4>1. \A q \in Jobs : Cardinality(StartedIn(q)') =
              IF q = p THEN Cardinality(StartedIn(q)) + 1 ELSE Cardinality(StartedIn(q))
        BY <1>3, <3>2, StartedMore DEF Started
      <4>2. groupWork' = [groupWork EXCEPT ![p] = groupWork[p] + 1] BY <3>2 DEF DoWorkStarted
      <4> SUFFICES ASSUME NEW q \in Jobs
                   PROVE  groupWork'[q] = Cardinality(StartedIn(q)') + Cardinality(Forks[q] \cap guarded)
        OBVIOUS
      <4>3. Cardinality(StartedIn(q)) \in Nat /\ Cardinality(Forks[q] \cap guarded) \in Nat
        BY SetsAreFinite
      <4>4. groupWork'[q] = IF q = p THEN groupWork[q] + 1 ELSE groupWork[q] BY <1>2, <4>2
      <4> QED BY <2>1, <4>1, <4>3, <4>4
    <3> QED BY <3>1, <3>2
  <2>3. \A d \in Jobs : job'[d] = "timed" => d \in guarded BY <1>4 DEF ForkInv, GroupsCount
  <2>4. \A d \in guarded : job'[d] # "new" /\ d # Root BY <1>4 DEF ForkInv, GroupsCount, ForkShape
  <2> QED BY <2>2, <2>3, <2>4 DEF GroupsCount
<1>14. ForkersRun'
  <2>1. ASSUME NEW q \in Jobs, NEW d \in Forks[q], job'[d] \in Active PROVE job'[q] = "running"
    <3>1. d \in Jobs BY ForkAssumption
    <3>2. CASE d = c BY <1>1, <1>4, <3>2
    <3>3. CASE d # c
      <4>1. job[q] = "running" BY <1>4, <2>1, <3>1, <3>3 DEF ForkInv, ForkersRun
      <4> QED BY <1>4, <4>1
    <3> QED BY <3>2, <3>3
  <2>2. \A d \in Jobs : job'[d] # "new" /\ d # Root => \E q \in Jobs : d \in Forks[q]
    BY <1>4 DEF ForkInv, ForkersRun
  <2>3. ASSUME NEW q \in Jobs, job'[q] \in {"joined", "done"}, q # Root, NEW d \in Forks[q]
        PROVE  job'[d] = "done"
    <3>1. q # c /\ q # p BY <1>1, <1>4, <2>3
    <3>2. d \in Jobs /\ d # c BY <1>1, <3>1, ForkAssumption
    <3> QED BY <1>4, <2>3, <3>1, <3>2 DEF ForkInv, ForkersRun
  <2> QED BY <2>1, <2>2, <2>3 DEF ForkersRun
<1> QED BY <1>8, <1>9, <1>11, <1>12, <1>13, <1>14 DEF ForkInv

\* What only the threads know of changes nothing.
LEMMA QuietFork ==
  ForkInv /\ UNCHANGED <<useCount, groupWork, jobs, nest, guarded, job>> => ForkInv'
<1> SUFFICES ASSUME ForkInv, UNCHANGED <<useCount, groupWork, jobs, nest, guarded, job>> PROVE ForkInv'
  OBVIOUS
<1>1. ForkShape' /\ QueuedOnce' /\ RootStays' BY DEF ForkInv, ForkShape, QueuedOnce, RootStays
<1>2. NestedOnce' BY DEF ForkInv, NestedOnce
<1>3. GroupsCount' BY DEF ForkInv, GroupsCount, StartedIn
<1>4. ForkersRun' BY DEF ForkInv, ForkersRun
<1> QED BY <1>1, <1>2, <1>3, <1>4 DEF ForkInv

\* What is at the front of the queue belongs to a function that runs.
LEMMA ExecuteNextKeeps ==
  ASSUME ForkInv, NEW t \in ForkThreads, ExecuteNext(t), UNCHANGED guarded
  PROVE  ForkInv'
<1>1. jobs \in Seq(Jobs) /\ jobs # <<>> /\ jobs' = Tail(jobs) /\ UNCHANGED <<groupWork, useCount>>
  BY DEF ExecuteNext, ForkInv, ForkShape
<1>2. PICK c \in Jobs : c = Head(jobs) /\ c = jobs[1] /\ 1 \in 1 .. Len(jobs)
  BY <1>1, HeadTailProperties
<1>3. job[c] = "queued" /\ c # Root BY <1>2 DEF ForkInv, QueuedOnce
<1>4. PICK p \in Jobs : c \in Forks[p] BY <1>3 DEF ForkInv, ForkersRun
<1>5. job[p] = "running" BY <1>3, <1>4 DEF ForkInv, ForkersRun, Active, Started
<1>6. Executes(t, c) BY <1>2 DEF ExecuteNext
<1> QED BY <1>1, <1>2, <1>3, <1>4, <1>5, <1>6, Executed

LEMMA AwaitChangeKeeps ==
  ASSUME ForkInv, NEW t, AwaitChange(t), UNCHANGED guarded PROVE ForkInv'
BY QuietFork DEF AwaitChange

----------------------------------------------------------------------------
(* The pool.                                                               *)

\* main's part begins, is given up, or ends with the pool.
LEMMA RootMoves ==
  ASSUME ForkInv, NEW v \in {"running", "joined", "done"}, job[Root] \in {"new", "joined"},
         job' = [job EXCEPT ![Root] = v], useCount' \in Int, UNCHANGED <<groupWork, jobs, guarded>>,
         IF v = "done" THEN nest["main"] = <<Root>> /\ nest' = [nest EXCEPT !["main"] = <<>>]
                       ELSE UNCHANGED nest
  PROVE  ForkInv'
<1>1. /\ job \in [Jobs -> {"new", "timed", "queued", "running", "joined", "done"}]
      /\ nest \in [ForkThreads -> Seq(Jobs)] /\ Root \in Jobs /\ "main" \in ForkThreads
  BY ForkAssumption DEF ForkInv, ForkShape, ForkThreads
<1>2. job'[Root] = v /\ \A q \in Jobs : q # Root => job'[q] = job[q] BY <1>1
<1>3. \A q \in Jobs : \A c \in Forks[q] : c \in Jobs /\ c # Root BY ForkerIs
<1>4. \A t \in ForkThreads : \A i \in 1 .. Len(nest'[t]) :
        nest'[t][i] = nest[t][i] /\ i \in 1 .. Len(nest[t])
  <2>1. CASE v # "done" BY <2>1
  <2>2. CASE v = "done"
    <3>1. \A t \in ForkThreads : nest'[t] = IF t = "main" THEN <<>> ELSE nest[t] BY <1>1, <2>2
    <3>2. \A i \in 1 .. Len(<<>>) : FALSE OBVIOUS
    <3> QED BY <3>1, <3>2
  <2> QED BY <2>1, <2>2
<1>5. v = "done" => \A t \in ForkThreads : \A i \in 1 .. Len(nest'[t]) : nest'[t][i] # Root
  <2> SUFFICES ASSUME v = "done", NEW t \in ForkThreads, NEW i \in 1 .. Len(nest'[t]), nest'[t][i] = Root
               PROVE  FALSE
    OBVIOUS
  <2>1. nest'[t][i] = nest[t][i] /\ i \in 1 .. Len(nest[t]) BY <1>4
  <2>2. 1 \in 1 .. Len(nest["main"]) /\ nest["main"][1] = Root
    <3>1. nest["main"] = <<Root>> OBVIOUS
    <3>2. Len(<<Root>>) = 1 /\ <<Root>>[1] = Root OBVIOUS
    <3> QED BY <3>1, <3>2
  <2>3. \A x, y \in ForkThreads : \A k \in 1 .. Len(nest[x]), l \in 1 .. Len(nest[y]) :
          nest[x][k] = nest[y][l] => x = y /\ k = l
    BY DEF ForkInv, NestedOnce
  <2>4. t = "main" BY <1>1, <2>1, <2>2, <2>3
  <2>5. nest'["main"] = <<>> BY <1>1
  <2> QED BY <2>4, <2>5
<1>6. ForkShape'
  <2>1. nest' \in [ForkThreads -> Seq(Jobs)]
    <3>1. <<>> \in Seq(Jobs) OBVIOUS
    <3> QED BY <1>1, <3>1
  <2>2. job' \in [Jobs -> {"new", "timed", "queued", "running", "joined", "done"}] BY <1>1
  <2> QED BY <2>1, <2>2 DEF ForkInv, ForkShape
<1>7. QueuedOnce'
  <2>1. \A i \in 1 .. Len(jobs) : jobs[i] \in Jobs BY DEF ForkInv, ForkShape
  <2> QED BY <1>2, <2>1 DEF ForkInv, QueuedOnce
<1>8. NestedOnce'
  <2>1. \A t \in ForkThreads : \A i \in 1 .. Len(nest[t]) : nest[t][i] \in Jobs BY <1>1
  <2>2. ASSUME NEW t \in ForkThreads, NEW i \in 1 .. Len(nest'[t])
        PROVE  IF nest'[t][i] = Root THEN job'[Root] \in {"new", "running", "joined"}
               ELSE job'[nest'[t][i]] \in {"running", "joined"}
    BY <1>2, <1>4, <1>5, <2>1 DEF ForkInv, NestedOnce
  <2>3. \A t, u \in ForkThreads : \A i \in 1 .. Len(nest'[t]), j \in 1 .. Len(nest'[u]) :
          nest'[t][i] = nest'[u][j] => t = u /\ i = j
    BY <1>4 DEF ForkInv, NestedOnce
  <2> QED BY <2>2, <2>3 DEF NestedOnce
<1>9. RootStays' BY <1>2, <1>5 DEF RootStays
<1>10. GroupsCount'
  <2>1. \A q \in Jobs : StartedIn(q)' = StartedIn(q) BY <1>2, <1>3 DEF StartedIn
  <2>2. \A q \in Jobs : groupWork'[q] = Cardinality(StartedIn(q)') + Cardinality(Forks[q] \cap guarded)
    BY <2>1 DEF ForkInv, GroupsCount
  <2>3. \A d \in Jobs : job'[d] = "timed" => d \in guarded BY <1>2 DEF ForkInv, GroupsCount
  <2>4. \A d \in guarded : job'[d] # "new" /\ d # Root
    BY <1>2 DEF ForkInv, GroupsCount, ForkShape
  <2> QED BY <2>2, <2>3, <2>4 DEF GroupsCount
<1>11. ForkersRun'
  <2>1. ASSUME NEW q \in Jobs, NEW d \in Forks[q], job'[d] \in Active PROVE job'[q] = "running"
    <3>1. job[q] = "running" BY <1>2, <1>3, <2>1 DEF ForkInv, ForkersRun
    <3> QED BY <1>2, <3>1
  <2>2. \A d \in Jobs : job'[d] # "new" /\ d # Root => \E q \in Jobs : d \in Forks[q]
    BY <1>2 DEF ForkInv, ForkersRun
  <2>3. \A q \in Jobs : job'[q] \in {"joined", "done"} /\ q # Root => \A d \in Forks[q] : job'[d] = "done"
    BY <1>2, <1>3 DEF ForkInv, ForkersRun
  <2> QED BY <2>1, <2>2, <2>3 DEF ForkersRun
<1> QED BY <1>6, <1>7, <1>8, <1>9, <1>10, <1>11 DEF ForkInv

LEMMA PoolKeeps ==
  ASSUME ForkInv, (\E w \in PoolThreads : Ask(w) \/ PoolThread(w)) \/ EndConstructor \/ DestroyPool
  PROVE  ForkInv'
<1>1. ASSUME NEW w \in PoolThreads, Ask(w) PROVE ForkInv' BY <1>1, QuietFork DEF Ask
<1>2. ASSUME NEW w \in PoolThreads, PoolThread(w) PROVE ForkInv'
  <2>1. w \in ForkThreads BY DEF ForkThreads
  <2>2. CASE useCount > 0 BY <1>2, <2>1, <2>2, ExecuteNextKeeps, AwaitChangeKeeps DEF PoolThread
  <2>3. CASE ~(useCount > 0) BY <1>2, <2>3, QuietFork DEF PoolThread
  <2> QED BY <2>2, <2>3
<1>3. CASE EndConstructor
  <2> DEFINE v == IF looping = PoolThreads THEN "running" ELSE "joined"
  <2>1. /\ job[Root] = "new" /\ job' = [job EXCEPT ![Root] = v] /\ v \in {"running", "joined"}
        /\ UNCHANGED <<useCount, groupWork, jobs, nest, guarded>>
    BY <1>3 DEF EndConstructor
  <2>2. useCount' \in Int BY <2>1 DEF ForkInv, ForkShape
  <2> QED BY <2>1, <2>2, RootMoves
<1>4. CASE DestroyPool
  <2>1. /\ job[Root] = "joined" /\ job' = [job EXCEPT ![Root] = "done"]
        /\ nest["main"] = <<Root>> /\ nest' = [nest EXCEPT !["main"] = <<>>]
        /\ UNCHANGED <<groupWork, jobs, guarded>> /\ useCount' = useCount - 1
    BY <1>4 DEF DestroyPool, StopThreads
  <2>2. useCount' \in Int BY <2>1 DEF ForkInv, ForkShape
  <2> QED BY <2>1, <2>2, RootMoves
<1> QED BY <1>1, <1>2, <1>3, <1>4

----------------------------------------------------------------------------
(* The functions.                                                          *)

\* A function has joined when nothing of its group is left.
LEMMA JoinKeeps ==
  ASSUME ForkInv, NEW t \in ForkThreads, JoinFork(t)
  PROVE  ForkInv'
<1> DEFINE p == Innermost(t)
<1>1. p \in Jobs /\ job[p] = "running" /\ (\A c \in Forks[p] : job[c] # "new") /\ UNCHANGED guarded
  BY NestIs DEF JoinFork, InJob
<1>2. CASE groupWork[p] > 0
  BY <1>1, <1>2, ExecuteNextKeeps, AwaitChangeKeeps DEF JoinFork, ForkJoin
<1>3. CASE ~(groupWork[p] > 0)
  <2>1. job' = [job EXCEPT ![p] = "joined"] /\ UNCHANGED <<useCount, groupWork, jobs, nest>>
    BY <1>3 DEF JoinFork, ForkJoin
  <2>2. /\ groupWork[p] = Cardinality(StartedIn(p)) + Cardinality(Forks[p] \cap guarded)
        /\ IsFiniteSet(StartedIn(p)) /\ Cardinality(StartedIn(p)) \in Nat
        /\ IsFiniteSet(Forks[p] \cap guarded) /\ Cardinality(Forks[p] \cap guarded) \in Nat
    BY <1>1, SetsAreFinite DEF ForkInv, GroupsCount
  <2>3. Cardinality(StartedIn(p)) = 0 /\ Cardinality(Forks[p] \cap guarded) = 0 BY <1>3, <2>2
  <2>4. StartedIn(p) = {} /\ Forks[p] \cap guarded = {} BY <2>2, <2>3, FS_EmptySet
  <2>5. \A c \in Forks[p] : c \in Jobs /\ c # p BY <1>1, ForkerIs, ForksLeadOn
  <2>6. \A c \in Forks[p] : job[c] = "done"
    <3> SUFFICES ASSUME NEW c \in Forks[p] PROVE job[c] = "done" OBVIOUS
    <3>1. job[c] \notin Started /\ c \notin guarded BY <2>4 DEF StartedIn
    <3>2. job[c] # "timed" BY <2>5, <3>1 DEF ForkInv, GroupsCount
    <3> QED BY <1>1, <2>5, <3>1, <3>2 DEF ForkInv, ForkShape, Started
  <2>7. job'[p] = "joined" /\ \A q \in Jobs : q # p => job'[q] = job[q]
    BY <1>1, <2>1 DEF ForkInv, ForkShape
  <2>8. ForkShape' BY <1>1, <2>1 DEF ForkInv, ForkShape
  <2>9. QueuedOnce'
    <3>1. \A i \in 1 .. Len(jobs) : jobs[i] \in Jobs BY DEF ForkInv, ForkShape
    <3> QED BY <1>1, <2>1, <2>7, <3>1 DEF ForkInv, QueuedOnce
  <2>10. NestedOnce' /\ RootStays'
    <3>1. \A u \in ForkThreads : \A i \in 1 .. Len(nest[u]) : nest[u][i] \in Jobs BY NestIs
    <3>2. NestedOnce' BY <1>1, <2>1, <2>7, <3>1, ForkAssumption DEF ForkInv, NestedOnce
    <3>3. RootStays' BY <1>1, <2>1, <2>7, ForkAssumption DEF ForkInv, RootStays
    <3> QED BY <3>2, <3>3
  <2>11. GroupsCount'
    <3>1. \A q \in Jobs : StartedIn(q)' = StartedIn(q) BY <1>1, <2>1, StartedSame DEF Started
    <3>2. \A q \in Jobs : groupWork'[q] = Cardinality(StartedIn(q)') + Cardinality(Forks[q] \cap guarded)
      BY <2>1, <3>1 DEF ForkInv, GroupsCount
    <3>3. \A d \in Jobs : job'[d] = "timed" => d \in guarded BY <1>1, <2>7 DEF ForkInv, GroupsCount
    <3>4. \A d \in guarded : job'[d] # "new" /\ d # Root
      BY <1>1, <2>7 DEF ForkInv, GroupsCount, ForkShape
    <3> QED BY <1>1, <3>2, <3>3, <3>4 DEF GroupsCount
  <2>12. ForkersRun'
    <3>1. ASSUME NEW q \in Jobs, NEW d \in Forks[q], job'[d] \in Active PROVE job'[q] = "running"
      <4>1. d \in Jobs BY ForkAssumption
      <4>2. job[d] \in Active BY <1>1, <2>7, <3>1, <4>1 DEF Active, Started
      <4>3. job[q] = "running" BY <4>2 DEF ForkInv, ForkersRun
      <4>4. q # p BY <2>6, <4>2 DEF Active, Started
      <4> QED BY <2>7, <4>3, <4>4
    <3>2. \A d \in Jobs : job'[d] # "new" /\ d # Root => \E q \in Jobs : d \in Forks[q]
      BY <1>1, <2>7 DEF ForkInv, ForkersRun
    <3>3. ASSUME NEW q \in Jobs, job'[q] \in {"joined", "done"}, q # Root, NEW d \in Forks[q]
          PROVE  job'[d] = "done"
      <4>1. job[d] = "done" BY <2>6, <2>7, <3>3 DEF ForkInv, ForkersRun
      <4>2. d \in Jobs /\ d # p BY <1>1, <4>1, ForkAssumption
      <4> QED BY <2>7, <4>1, <4>2
    <3> QED BY <3>1, <3>2, <3>3 DEF ForkersRun
  <2> QED BY <2>8, <2>9, <2>10, <2>11, <2>12 DEF ForkInv
<1> QED BY <1>2, <1>3

\* One is dispatched to the group of the function that t is in.
LEMMA DispatchKeeps ==
  ASSUME ForkInv, NEW t \in ForkThreads, NEW c \in Jobs, DispatchFork(t, c)
  PROVE  ForkInv'
<1> DEFINE p == Innermost(t)
<1>1. p \in Jobs /\ job[p] = "running" /\ c \in Forks[p] /\ job[c] = "new" /\ UNCHANGED guarded
  BY NestIs DEF DispatchFork, InJob
<1>2. Forker(c) = p BY <1>1, ForkerIs
<1>3. CASE DoPost(c) BY <1>1, <1>2, <1>3, Posted DEF DoPost
<1>4. CASE DoWorkStarted(Forker(c)) /\ Executes(t, c) /\ UNCHANGED <<jobs, idle>>
  BY <1>1, <1>2, <1>4, Executed
<1> QED BY <1>3, <1>4 DEF DispatchFork, ForkDispatch, ForkPost, ForkDefer, DoDispatch

LEMMA ExpireKeeps ==
  ASSUME ForkInv, NEW c \in Jobs, ExpireFork(c)
  PROVE  ForkInv'
<1>1. job[c] = "timed" /\ DoPost(c) /\ UNCHANGED guarded BY DEF ExpireFork, ForkPost
<1>2. c # Root BY <1>1 DEF ForkInv, RootStays
<1>3. PICK p \in Jobs : c \in Forks[p] BY <1>1, <1>2 DEF ForkInv, ForkersRun
<1>4. job[p] = "running" /\ Forker(c) = p BY <1>1, <1>3, ForkerIs DEF ForkInv, ForkersRun, Active
<1> QED BY <1>1, <1>3, <1>4, Posted DEF DoPost

\* The work that is held for a wait is of its group.
LEMMA GuardedMore ==
  ASSUME ForkInv, NEW p \in Jobs, NEW c \in Forks[p], NEW more \in BOOLEAN,
         more => c \notin guarded, ~more => c \in guarded,
         guarded' = IF more THEN guarded \cup {c} ELSE guarded \ {c}
  PROVE  \A q \in Jobs : Cardinality(Forks[q] \cap guarded') =
           IF q = p THEN Cardinality(Forks[q] \cap guarded) + (IF more THEN 1 ELSE 0 - 1)
           ELSE Cardinality(Forks[q] \cap guarded)
<1>1. c \in Jobs /\ (\A q \in Jobs : c \in Forks[q] => q = p) BY ForkerIs
<1>2. \A q \in Jobs : q # p => Forks[q] \cap guarded' = Forks[q] \cap guarded BY <1>1
<1>3. IsFiniteSet(Forks[p] \cap guarded) /\ Cardinality(Forks[p] \cap guarded) \in Nat BY SetsAreFinite
<1>4. CASE more
  <2>1. Forks[p] \cap guarded' = (Forks[p] \cap guarded) \cup {c} /\ c \notin Forks[p] \cap guarded
    BY <1>4
  <2>2. Cardinality((Forks[p] \cap guarded) \cup {c}) = Cardinality(Forks[p] \cap guarded) + 1
    BY <1>3, <2>1, FS_AddElement
  <2> QED BY <1>2, <1>4, <2>1, <2>2
<1>5. CASE ~more
  <2>1. Forks[p] \cap guarded' = (Forks[p] \cap guarded) \ {c} /\ c \in Forks[p] \cap guarded
    BY <1>5
  <2>2. Cardinality((Forks[p] \cap guarded) \ {c}) = Cardinality(Forks[p] \cap guarded) - 1
    BY <1>3, <2>1, FS_RemoveElement
  <2> DEFINE n == Cardinality(Forks[p] \cap guarded)
  <2>3. Cardinality(Forks[p] \cap guarded') = n + (0 - 1)
    <3>1. Cardinality(Forks[p] \cap guarded') = n - 1 BY <2>1, <2>2
    <3>2. n \in Nat BY <1>3
    <3> HIDE DEF n
    <3> QED BY <3>1, <3>2
  <2> QED BY <1>2, <1>5, <2>3
<1> QED BY <1>4, <1>5

LEMMA DispatchAfterKeeps ==
  ASSUME ForkInv, NEW t \in ForkThreads, NEW c \in Jobs, DispatchAfterFork(t, c)
  PROVE  ForkInv'
<1> DEFINE p == Innermost(t)
<1>1. p \in Jobs /\ job[p] = "running" /\ c \in Forks[p] /\ job[c] = "new"
  BY NestIs DEF DispatchAfterFork, InJob
<1>2. /\ Forker(c) = p /\ c # Root /\ c # p /\ \A q \in Jobs : c \in Forks[q] => q = p
  BY <1>1, ForkerIs
<1>3. /\ DoWorkStarted(p) /\ guarded' = guarded \cup {c} /\ job' = [job EXCEPT ![c] = "timed"]
      /\ UNCHANGED <<jobs, nest>>
  BY <1>2 DEF DispatchAfterFork, OnWorkStarted
<1>4. /\ useCount \in Int /\ groupWork \in [Jobs -> Int] /\ guarded \subseteq Jobs
      /\ job \in [Jobs -> {"new", "timed", "queued", "running", "joined", "done"}]
  BY DEF ForkInv, ForkShape
<1>5. job'[c] = "timed" /\ \A q \in Jobs : q # c => job'[q] = job[q] BY <1>3, <1>4
<1>6. groupWork' = [groupWork EXCEPT ![p] = groupWork[p] + 1] /\ useCount' \in Int
  BY <1>3, <1>4 DEF DoWorkStarted
<1>7. ForkShape' BY <1>1, <1>3, <1>4, <1>6 DEF ForkInv, ForkShape
<1>8. QueuedOnce'
  <2>1. \A i \in 1 .. Len(jobs) : jobs[i] \in Jobs BY DEF ForkInv, ForkShape
  <2> QED BY <1>1, <1>3, <1>5, <2>1 DEF ForkInv, QueuedOnce
<1>9. NestedOnce' /\ RootStays'
  <2>1. \A u \in ForkThreads : \A i \in 1 .. Len(nest[u]) : nest[u][i] \in Jobs BY NestIs
  <2>2. NestedOnce' BY <1>1, <1>2, <1>3, <1>5, <2>1, ForkAssumption DEF ForkInv, NestedOnce
  <2>3. RootStays' BY <1>2, <1>3, <1>5, ForkAssumption DEF ForkInv, RootStays
  <2> QED BY <2>2, <2>3
<1>10. GroupsCount'
  <2>1. c \notin guarded BY <1>1 DEF ForkInv, GroupsCount
  <2>2. \A q \in Jobs : Cardinality(Forks[q] \cap guarded') =
          IF q = p THEN Cardinality(Forks[q] \cap guarded) + 1 ELSE Cardinality(Forks[q] \cap guarded)
    <3>1. guarded' = IF TRUE THEN guarded \cup {c} ELSE guarded \ {c} BY <1>3
    <3> QED BY <1>1, <2>1, <3>1, GuardedMore
  <2>3. \A q \in Jobs : StartedIn(q)' = StartedIn(q) BY <1>1, <1>3, StartedSame DEF Started
  <2>4. ASSUME NEW q \in Jobs
        PROVE  groupWork'[q] = Cardinality(StartedIn(q)') + Cardinality(Forks[q] \cap guarded')
    <3>1. Cardinality(StartedIn(q)) \in Nat /\ Cardinality(Forks[q] \cap guarded) \in Nat
      BY SetsAreFinite
    <3>2. groupWork'[q] = IF q = p THEN groupWork[q] + 1 ELSE groupWork[q] BY <1>4, <1>6
    <3>3. groupWork[q] = Cardinality(StartedIn(q)) + Cardinality(Forks[q] \cap guarded)
      BY DEF ForkInv, GroupsCount
    <3> QED BY <2>2, <2>3, <3>1, <3>2, <3>3
  <2>5. \A d \in Jobs : job'[d] = "timed" => d \in guarded' BY <1>3, <1>5 DEF ForkInv, GroupsCount
  <2>6. \A d \in guarded' : job'[d] # "new" /\ d # Root
    BY <1>2, <1>3, <1>4, <1>5 DEF ForkInv, GroupsCount
  <2> QED BY <2>4, <2>5, <2>6 DEF GroupsCount
<1>11. ForkersRun'
  <2>1. ASSUME NEW q \in Jobs, NEW d \in Forks[q], job'[d] \in Active PROVE job'[q] = "running"
    <3>1. d \in Jobs BY ForkAssumption
    <3>2. CASE d = c BY <1>1, <1>2, <1>5, <3>2
    <3>3. CASE d # c
      <4>1. job[q] = "running" BY <1>5, <2>1, <3>1, <3>3 DEF ForkInv, ForkersRun
      <4> QED BY <1>1, <1>5, <4>1
    <3> QED BY <3>2, <3>3
  <2>2. \A d \in Jobs : job'[d] # "new" /\ d # Root => \E q \in Jobs : d \in Forks[q]
    BY <1>1, <1>5 DEF ForkInv, ForkersRun
  <2>3. ASSUME NEW q \in Jobs, job'[q] \in {"joined", "done"}, q # Root, NEW d \in Forks[q]
        PROVE  job'[d] = "done"
    <3>1. q # c /\ q # p BY <1>1, <1>2, <1>5, <2>3
    <3>2. d \in Jobs /\ d # c BY <1>2, <3>1, ForkAssumption
    <3> QED BY <1>5, <2>3, <3>1, <3>2 DEF ForkInv, ForkersRun
  <2> QED BY <2>1, <2>2, <2>3 DEF ForkersRun
<1> QED BY <1>7, <1>8, <1>9, <1>10, <1>11 DEF ForkInv

LEMMA ReleaseKeeps ==
  ASSUME ForkInv, NEW c \in Jobs, ReleaseFork(c)
  PROVE  ForkInv'
<1>1. c \in guarded /\ job[c] # "timed" /\ c # Root /\ job[c] # "new"
  BY DEF ReleaseFork, ForkInv, GroupsCount
<1>2. PICK p \in Jobs : c \in Forks[p] BY <1>1 DEF ForkInv, ForkersRun
<1>3. DoWorkFinished(p) /\ guarded' = guarded \ {c} /\ UNCHANGED <<jobs, nest, job>>
  BY <1>2, ForkerIs DEF ReleaseFork, OnWorkFinished
<1>4. /\ useCount \in Int /\ groupWork \in [Jobs -> Int] /\ guarded \subseteq Jobs
      /\ job \in [Jobs -> {"new", "timed", "queued", "running", "joined", "done"}]
  BY DEF ForkInv, ForkShape
<1>5. groupWork' = [groupWork EXCEPT ![p] = groupWork[p] - 1] /\ useCount' \in Int
  BY <1>3, <1>4 DEF DoWorkFinished
<1>6. ForkShape' BY <1>3, <1>4, <1>5 DEF ForkInv, ForkShape
<1>7. QueuedOnce' /\ RootStays' BY <1>3 DEF ForkInv, QueuedOnce, RootStays
<1>8. NestedOnce' BY <1>3 DEF ForkInv, NestedOnce
<1>9. GroupsCount'
  <2>1. \A q \in Jobs : Cardinality(Forks[q] \cap guarded') =
          IF q = p THEN Cardinality(Forks[q] \cap guarded) + (0 - 1) ELSE Cardinality(Forks[q] \cap guarded)
    <3>1. guarded' = IF FALSE THEN guarded \cup {c} ELSE guarded \ {c} BY <1>3
    <3> QED BY <1>1, <1>2, <3>1, GuardedMore
  <2>2. \A q \in Jobs : StartedIn(q)' = StartedIn(q) BY <1>3 DEF StartedIn
  <2>3. ASSUME NEW q \in Jobs
        PROVE  groupWork'[q] = Cardinality(StartedIn(q)') + Cardinality(Forks[q] \cap guarded')
    <3>1. Cardinality(StartedIn(q)) \in Nat /\ Cardinality(Forks[q] \cap guarded) \in Nat
      BY SetsAreFinite
    <3>2. groupWork'[q] = IF q = p THEN groupWork[q] - 1 ELSE groupWork[q] BY <1>4, <1>5
    <3>3. groupWork[q] = Cardinality(StartedIn(q)) + Cardinality(Forks[q] \cap guarded)
      BY DEF ForkInv, GroupsCount
    <3> QED BY <2>1, <2>2, <3>1, <3>2, <3>3
  <2>4. \A d \in Jobs : job'[d] = "timed" => d \in guarded' BY <1>1, <1>3 DEF ForkInv, GroupsCount
  <2>5. \A d \in guarded' : job'[d] # "new" /\ d # Root BY <1>3 DEF ForkInv, GroupsCount
  <2> QED BY <2>3, <2>4, <2>5 DEF GroupsCount
<1>10. ForkersRun' BY <1>3 DEF ForkInv, ForkersRun
<1> QED BY <1>6, <1>7, <1>8, <1>9, <1>10 DEF ForkInv

\* A function that has joined ends.
LEMMA EndKeeps ==
  ASSUME ForkInv, NEW t \in ForkThreads, EndFunction(t)
  PROVE  ForkInv'
<1> DEFINE c == Innermost(t)
<1>1. c \in Jobs /\ job[c] = "joined" /\ c # Root /\ nest[t] # <<>>
  BY NestIs DEF EndFunction, InJob
<1>2. PICK p \in Jobs : c \in Forks[p] BY <1>1 DEF ForkInv, ForkersRun
<1>3. /\ Forker(c) = p /\ c # p /\ \A q \in Jobs : c \in Forks[q] => q = p
  BY <1>2, ForkerIs, ForksLeadOn
<1>4. /\ DoWorkFinished(p) /\ job' = [job EXCEPT ![c] = "done"] /\ UNCHANGED <<jobs, guarded>>
      /\ nest' = [nest EXCEPT ![t] = Stacks!Front(nest[t])]
  BY <1>3 DEF EndFunction
<1>5. /\ useCount \in Int /\ groupWork \in [Jobs -> Int] /\ nest \in [ForkThreads -> Seq(Jobs)]
      /\ job \in [Jobs -> {"new", "timed", "queued", "running", "joined", "done"}]
  BY DEF ForkInv, ForkShape
<1>6. groupWork' = [groupWork EXCEPT ![p] = groupWork[p] - 1] /\ useCount' \in Int
  BY <1>4, <1>5 DEF DoWorkFinished
<1>7. job'[c] = "done" /\ \A q \in Jobs : q # c => job'[q] = job[q] BY <1>1, <1>4, <1>5
<1>8. /\ Len(nest[t]) \in Nat /\ Len(nest[t]) \in 1 .. Len(nest[t])
      /\ c = nest[t][Len(nest[t])] /\ nest[t] \in Seq(Jobs)
  BY <1>1, NestIs
<1>9. /\ nest'[t] \in Seq(Jobs) /\ Len(nest'[t]) = Len(nest[t]) - 1
      /\ \A i \in 1 .. Len(nest'[t]) : nest'[t][i] = nest[t][i] /\ i \in 1 .. Len(nest[t]) /\ i # Len(nest[t])
      /\ \A u \in ForkThreads : u # t => nest'[u] = nest[u]
  <2>1. /\ Stacks!Front(nest[t]) \in Seq(Jobs) /\ Len(Stacks!Front(nest[t])) = Len(nest[t]) - 1
        /\ \A i \in 1 .. Len(nest[t]) - 1 : Stacks!Front(nest[t])[i] = nest[t][i]
    <3>1. Stacks!Front(nest[t]) = SubSeq(nest[t], 1, Len(nest[t]) - 1) BY DEF Stacks!Front
    <3>2. Len(nest[t]) - 1 \in 0 .. Len(nest[t]) BY <1>8
    <3> QED BY <1>8, <3>1, <3>2, SubSeqProperties
  <2>2. \A u \in ForkThreads : nest'[u] = IF u = t THEN Stacks!Front(nest[t]) ELSE nest[u] BY <1>4, <1>5
  <2>3. \A i \in 1 .. Len(nest[t]) - 1 : i \in 1 .. Len(nest[t]) /\ i # Len(nest[t]) BY <1>8
  <2> QED BY <2>1, <2>2, <2>3
<1>10. \A u \in ForkThreads : \A i \in 1 .. Len(nest'[u]) :
         nest'[u][i] = nest[u][i] /\ i \in 1 .. Len(nest[u]) /\ nest[u][i] # c /\ nest[u][i] \in Jobs
  <2> SUFFICES ASSUME NEW u \in ForkThreads, NEW i \in 1 .. Len(nest'[u])
               PROVE  /\ nest'[u][i] = nest[u][i] /\ i \in 1 .. Len(nest[u])
                      /\ nest[u][i] # c /\ nest[u][i] \in Jobs
    OBVIOUS
  <2>1. nest'[u][i] = nest[u][i] /\ i \in 1 .. Len(nest[u]) BY <1>9
  <2>2. \A x, y \in ForkThreads : \A k \in 1 .. Len(nest[x]), l \in 1 .. Len(nest[y]) :
          nest[x][k] = nest[y][l] => x = y /\ k = l
    BY DEF ForkInv, NestedOnce
  <2>3. nest[u][i] # c
    <3>1. ASSUME nest[u][i] = c PROVE FALSE
      <4>1. u = t /\ i = Len(nest[t]) BY <1>8, <2>1, <2>2, <3>1
      <4> QED BY <1>9, <4>1
    <3> QED BY <3>1
  <2>4. nest[u][i] \in Jobs BY <1>5, <2>1
  <2> QED BY <2>1, <2>3, <2>4
<1>11. ForkShape'
  <2>1. nest' \in [ForkThreads -> Seq(Jobs)] BY <1>4, <1>5, <1>9
  <2>2. groupWork' \in [Jobs -> Int] BY <1>2, <1>5, <1>6
  <2>3. job' \in [Jobs -> {"new", "timed", "queued", "running", "joined", "done"}] BY <1>4, <1>5
  <2> QED BY <1>4, <1>6, <2>1, <2>2, <2>3 DEF ForkInv, ForkShape
<1>12. QueuedOnce'
  <2>1. \A i \in 1 .. Len(jobs) : jobs[i] \in Jobs BY DEF ForkInv, ForkShape
  <2> QED BY <1>1, <1>4, <1>7, <2>1 DEF ForkInv, QueuedOnce
<1>13. NestedOnce'
  <2>1. job'[Root] = job[Root] BY <1>1, <1>7, ForkAssumption
  <2>2. ASSUME NEW u \in ForkThreads, NEW i \in 1 .. Len(nest'[u])
        PROVE  IF nest'[u][i] = Root THEN job'[Root] \in {"new", "running", "joined"}
               ELSE job'[nest'[u][i]] \in {"running", "joined"}
    BY <1>7, <1>10, <2>1 DEF ForkInv, NestedOnce
  <2>3. ASSUME NEW u \in ForkThreads, NEW v \in ForkThreads, NEW i \in 1 .. Len(nest'[u]),
               NEW j \in 1 .. Len(nest'[v]), nest'[u][i] = nest'[v][j]
        PROVE  u = v /\ i = j
    <3>1. nest[u][i] = nest[v][j] /\ i \in 1 .. Len(nest[u]) /\ j \in 1 .. Len(nest[v])
      BY <1>10, <2>3
    <3>2. \A x, y \in ForkThreads : \A k \in 1 .. Len(nest[x]), l \in 1 .. Len(nest[y]) :
            nest[x][k] = nest[y][l] => x = y /\ k = l
      BY DEF ForkInv, NestedOnce
    <3> QED BY <3>1, <3>2
  <2> QED BY <2>2, <2>3 DEF NestedOnce
<1>14. RootStays'
  <2>1. job'[Root] = job[Root] BY <1>1, <1>7, ForkAssumption
  <2> QED BY <1>10, <2>1 DEF ForkInv, RootStays
<1>15. GroupsCount'
  <2>1. \A q \in Jobs : Cardinality(StartedIn(q)') =
          IF q = p THEN Cardinality(StartedIn(q)) - 1 ELSE Cardinality(StartedIn(q))
    BY <1>1, <1>2, <1>4, StartedLess DEF Started
  <2>2. ASSUME NEW q \in Jobs
        PROVE  groupWork'[q] = Cardinality(StartedIn(q)') + Cardinality(Forks[q] \cap guarded)
    <3>1. Cardinality(StartedIn(q)) \in Nat /\ Cardinality(Forks[q] \cap guarded) \in Nat
      BY SetsAreFinite
    <3>2. groupWork'[q] = IF q = p THEN groupWork[q] - 1 ELSE groupWork[q] BY <1>5, <1>6
    <3>3. groupWork[q] = Cardinality(StartedIn(q)) + Cardinality(Forks[q] \cap guarded)
      BY DEF ForkInv, GroupsCount
    <3> QED BY <2>1, <3>1, <3>2, <3>3
  <2>3. \A d \in Jobs : job'[d] = "timed" => d \in guarded BY <1>7 DEF ForkInv, GroupsCount
  <2>4. \A d \in guarded : job'[d] # "new" /\ d # Root BY <1>7 DEF ForkInv, GroupsCount, ForkShape
  <2> QED BY <1>4, <2>2, <2>3, <2>4 DEF GroupsCount
<1>16. ForkersRun'
  <2>1. ASSUME NEW q \in Jobs, NEW d \in Forks[q], job'[d] \in Active PROVE job'[q] = "running"
    <3>1. d \in Jobs /\ d # c BY <1>7, <2>1, ForkAssumption DEF Active, Started
    <3>2. job[q] = "running" BY <1>7, <2>1, <3>1 DEF ForkInv, ForkersRun
    <3> QED BY <1>1, <1>7, <3>2
  <2>2. \A d \in Jobs : job'[d] # "new" /\ d # Root => \E q \in Jobs : d \in Forks[q]
    BY <1>1, <1>7 DEF ForkInv, ForkersRun
  <2>3. ASSUME NEW q \in Jobs, job'[q] \in {"joined", "done"}, q # Root, NEW d \in Forks[q]
        PROVE  job'[d] = "done"
    <3>1. job[q] \in {"joined", "done"} BY <1>1, <1>7, <2>3
    <3>2. job[d] = "done" /\ d \in Jobs BY <2>3, <3>1, ForkAssumption DEF ForkInv, ForkersRun
    <3> QED BY <1>7, <3>2
  <2> QED BY <2>1, <2>2, <2>3 DEF ForkersRun
<1> QED BY <1>11, <1>12, <1>13, <1>14, <1>15, <1>16 DEF ForkInv

LEMMA ForkSteps == ForkInv /\ [ForkNext]_forkVars => ForkInv'
<1> SUFFICES ASSUME ForkInv, [ForkNext]_forkVars PROVE ForkInv' OBVIOUS
<1>1. CASE UNCHANGED forkVars BY <1>1, QuietFork DEF forkVars
<1>2. CASE (\E w \in PoolThreads : Ask(w) \/ PoolThread(w)) \/ EndConstructor \/ DestroyPool
  BY <1>2, PoolKeeps
<1>3. ASSUME NEW t \in ForkThreads,
             JoinFork(t) \/ EndFunction(t) \/ \E c \in Jobs : DispatchFork(t, c) \/ DispatchAfterFork(t, c)
      PROVE  ForkInv'
  BY <1>3, JoinKeeps, EndKeeps, DispatchKeeps, DispatchAfterKeeps
<1>4. ASSUME NEW c \in Jobs, ExpireFork(c) \/ ReleaseFork(c) PROVE ForkInv'
  BY <1>4, ExpireKeeps, ReleaseKeeps
<1> QED BY <1>1, <1>2, <1>3, <1>4 DEF ForkNext

\* A fork_executor's join returns when every function of its group has returned,
\* with the groups that it joined itself, however the functions fork, by
\* dispatch, post or after a time, and on whichever stack each was executed; and
\* the pool's threads leave when all have (fork_join.cpp:36-93, 180-228).
THEOREM ForksAreJoined == ForkSpec => []JoinsAll
<1>1. ForkSpec => []ForkInv BY ForkStarts, ForkSteps, PTL DEF ForkSpec
<1> QED BY <1>1, InvImpliesJoins, PTL

\* The pool is used by every group with work, and by main until it goes.
BusyGroups == {p \in Jobs : groupWork[p] > 0}
RootUse == IF job[Root] = "done" THEN 0 ELSE 1
UseCounts == useCount = Cardinality(BusyGroups) + RootUse
ThreadsThere == idle \subseteq ForkThreads /\ looping \subseteq PoolThreads /\ guarded \subseteq Delayed

LEMMA BusyIsFinite == IsFiniteSet(BusyGroups) /\ Cardinality(BusyGroups) \in Nat
<1>1. IsFiniteSet(BusyGroups) BY ForkAssumption, FS_Subset DEF BusyGroups
<1> QED BY <1>1, FS_CardinalityType

LEMMA UseStays ==
  ASSUME UseCounts, UNCHANGED <<useCount, groupWork>>, RootUse' = RootUse
  PROVE  UseCounts'
BY DEF UseCounts, BusyGroups

LEMMA StartedUse ==
  ASSUME ForkInv, UseCounts, NEW p \in Jobs, DoWorkStarted(p), RootUse' = RootUse
  PROVE  UseCounts'
<1>1. groupWork \in [Jobs -> Int] BY DEF ForkInv, ForkShape
<1>2. groupWork' = [groupWork EXCEPT ![p] = @ + 1] BY DEF DoWorkStarted
<1>3. RootUse \in Int /\ useCount = Cardinality(BusyGroups) + RootUse BY DEF RootUse, UseCounts
<1>4. CASE groupWork[p] = 0
  <2>1. BusyGroups' = BusyGroups \cup {p} /\ p \notin BusyGroups BY <1>1, <1>2, <1>4 DEF BusyGroups
  <2>2. Cardinality(BusyGroups \cup {p}) = Cardinality(BusyGroups) + 1 BY <2>1, BusyIsFinite, FS_AddElement
  <2>3. useCount' = useCount + 1 BY <1>4 DEF DoWorkStarted
  <2> QED BY <1>3, <2>1, <2>2, <2>3, BusyIsFinite DEF UseCounts
<1>5. CASE groupWork[p] # 0
  <2>1. BusyGroups' = BusyGroups BY <1>1, <1>2, <1>5 DEF BusyGroups
  <2>2. useCount' = useCount BY <1>5 DEF DoWorkStarted
  <2> QED BY <1>3, <2>1, <2>2 DEF UseCounts
<1> QED BY <1>4, <1>5

LEMMA FinishedUse ==
  ASSUME ForkInv, UseCounts, NEW p \in Jobs, DoWorkFinished(p), RootUse' = RootUse
  PROVE  UseCounts'
<1>1. groupWork \in [Jobs -> Int] BY DEF ForkInv, ForkShape
<1>2. groupWork' = [groupWork EXCEPT ![p] = @ - 1] BY DEF DoWorkFinished
<1>3. RootUse \in Int /\ useCount = Cardinality(BusyGroups) + RootUse BY DEF RootUse, UseCounts
<1>4. CASE groupWork[p] = 1
  <2>1. BusyGroups' = BusyGroups \ {p} /\ p \in BusyGroups BY <1>1, <1>2, <1>4 DEF BusyGroups
  <2>2. Cardinality(BusyGroups \ {p}) = Cardinality(BusyGroups) - 1
    BY <2>1, BusyIsFinite, FS_RemoveElement
  <2>3. useCount' = useCount - 1 BY <1>4 DEF DoWorkFinished
  <2> QED BY <1>3, <2>1, <2>2, <2>3, BusyIsFinite DEF UseCounts
<1>5. CASE groupWork[p] # 1
  <2>1. BusyGroups' = BusyGroups BY <1>1, <1>2, <1>5 DEF BusyGroups
  <2>2. useCount' = useCount BY <1>5 DEF DoWorkFinished
  <2> QED BY <1>3, <2>1, <2>2 DEF UseCounts
<1> QED BY <1>4, <1>5

LEMMA RootKeeps ==
  ASSUME ForkInv, NEW c \in Jobs, NEW v, job' = [job EXCEPT ![c] = v],
         c # Root \/ (job[c] # "done" /\ v # "done")
  PROVE  RootUse' = RootUse
<1>1. DOMAIN job = Jobs /\ Root \in Jobs BY ForkAssumption DEF ForkInv, ForkShape
<1>2. job'[Root] = "done" <=> job[Root] = "done" BY <1>1
<1> QED BY <1>2 DEF RootUse

LEMMA ExecutesUse ==
  ASSUME ForkInv, UseCounts, ThreadsThere, NEW t \in ForkThreads, ExecuteNext(t) \/ AwaitChange(t),
         UNCHANGED guarded, looping' \subseteq looping
  PROVE  UseCounts' /\ ThreadsThere'
<1>1. CASE ExecuteNext(t)
  <2>1. jobs \in Seq(Jobs) /\ jobs # <<>> BY <1>1 DEF ForkInv, ForkShape, ExecuteNext
  <2>2. Head(jobs) = jobs[1] /\ 1 \in 1 .. Len(jobs) /\ Head(jobs) \in Jobs BY <2>1
  <2>3. Head(jobs) # Root BY <2>2 DEF ForkInv, QueuedOnce
  <2>4. job' = [job EXCEPT ![Head(jobs)] = "running"] BY <1>1 DEF ExecuteNext, Executes
  <2>5. RootUse' = RootUse BY <2>2, <2>3, <2>4, RootKeeps
  <2>6. UNCHANGED <<useCount, groupWork>> /\ idle' = idle BY <1>1 DEF ExecuteNext
  <2> QED BY <2>5, <2>6, UseStays DEF ThreadsThere
<1>2. CASE AwaitChange(t)
  <2>1. UNCHANGED <<useCount, groupWork, job>> /\ idle' = idle \cup {t} BY <1>2 DEF AwaitChange
  <2>2. RootUse' = RootUse BY <2>1 DEF RootUse
  <2> QED BY <2>1, <2>2, UseStays DEF ThreadsThere
<1> QED BY <1>1, <1>2

LEMMA PostedUse ==
  ASSUME ForkInv, UseCounts, ThreadsThere, NEW p \in Jobs, NEW c \in Forks[p],
         NEW t, DoDispatch(t, c) \/ DoPost(c), UNCHANGED <<guarded, looping>>
  PROVE  UseCounts' /\ ThreadsThere'
<1>1. c \in Jobs /\ c # Root /\ Forker(c) = p BY ForkerIs
<1>2. DoWorkStarted(p) /\ idle' \subseteq idle /\ \E v \in Started : job' = [job EXCEPT ![c] = v]
  <2>1. CASE DoPost(c) BY <1>1, <2>1 DEF DoPost, NotifyOne, Started
  <2>2. CASE Executes(t, c) /\ DoWorkStarted(p) /\ UNCHANGED idle BY <2>2 DEF Executes, Started
  <2> QED BY <1>1, <2>1, <2>2 DEF DoDispatch
<1>3. RootUse' = RootUse BY <1>1, <1>2, RootKeeps
<1> QED BY <1>2, <1>3, StartedUse DEF ThreadsThere

LEMMA PoolUse ==
  ASSUME ForkInv, UseCounts, ThreadsThere,
         (\E w \in PoolThreads : Ask(w) \/ PoolThread(w)) \/ EndConstructor \/ DestroyPool
  PROVE  UseCounts' /\ ThreadsThere'
<1>1. ASSUME NEW w \in PoolThreads, Ask(w) PROVE UseCounts' /\ ThreadsThere'
  <2>1. UNCHANGED <<useCount, groupWork, job, idle, guarded>> /\ looping' = looping \cup {w} BY <1>1 DEF Ask
  <2> QED BY <2>1, UseStays DEF ThreadsThere, RootUse
<1>2. ASSUME NEW w \in PoolThreads, PoolThread(w) PROVE UseCounts' /\ ThreadsThere'
  <2>1. CASE useCount > 0
    <3>1. (ExecuteNext(w) \/ AwaitChange(w)) /\ UNCHANGED <<looping, guarded>> BY <1>2, <2>1 DEF PoolThread
    <3>2. w \in ForkThreads BY DEF ForkThreads
    <3> QED BY <3>1, <3>2, ExecutesUse
  <2>2. CASE ~(useCount > 0)
    <3>1. UNCHANGED <<useCount, groupWork, job, idle, guarded>> /\ looping' = looping \ {w}
      BY <1>2, <2>2 DEF PoolThread
    <3> QED BY <3>1, UseStays DEF ThreadsThere, RootUse
  <2> QED BY <2>1, <2>2
<1>3. CASE EndConstructor
  <2>1. UNCHANGED <<useCount, groupWork, idle, guarded, looping>> BY <1>3 DEF EndConstructor
  <2>2. PICK v \in {"running", "joined"} : job' = [job EXCEPT ![Root] = v] BY <1>3 DEF EndConstructor
  <2>3. job[Root] # "done" BY <1>3 DEF EndConstructor
  <2>4. RootUse' = RootUse BY <2>2, <2>3, RootKeeps, ForkAssumption
  <2> QED BY <2>1, <2>4, UseStays DEF ThreadsThere
<1>4. CASE DestroyPool
  <2>1. useCount' = useCount - 1 /\ UNCHANGED <<groupWork, guarded, looping>> /\ idle' = {}
    BY <1>4 DEF DestroyPool, StopThreads, NotifyAll
  <2>2. job[Root] = "joined" /\ job' = [job EXCEPT ![Root] = "done"] BY <1>4 DEF DestroyPool
  <2>3. job'[Root] = "done" BY <2>2, ForkAssumption DEF ForkInv, ForkShape
  <2>4. RootUse = 1 /\ RootUse' = 0 BY <2>2, <2>3 DEF RootUse
  <2>5. BusyGroups' = BusyGroups BY <2>1 DEF BusyGroups
  <2>6. UseCounts' BY <2>1, <2>4, <2>5, BusyIsFinite DEF UseCounts
  <2> QED BY <2>1, <2>6 DEF ThreadsThere
<1> QED BY <1>1, <1>2, <1>3, <1>4

LEMMA FunctionUse ==
  ASSUME ForkInv, UseCounts, ThreadsThere, NEW t \in ForkThreads,
         JoinFork(t) \/ EndFunction(t) \/ \E c \in Jobs : DispatchFork(t, c) \/ DispatchAfterFork(t, c)
  PROVE  UseCounts' /\ ThreadsThere'
<1> DEFINE p == Innermost(t)
<1>1. ASSUME nest[t] # <<>> PROVE p \in Jobs /\ \E i \in 1 .. Len(nest[t]) : nest[t][i] = p BY <1>1, NestIs
<1> HIDE DEF p
<1>2. CASE JoinFork(t)
  <2>1. nest[t] # <<>> /\ job[p] = "running" /\ ForkJoin(t) /\ UNCHANGED <<looping, guarded>>
    BY <1>2 DEF JoinFork, InJob, p
  <2>2. CASE ExecuteNext(t) \/ AwaitChange(t) BY <2>1, <2>2, ExecutesUse
  <2>3. CASE job' = [job EXCEPT ![p] = "joined"] /\ UNCHANGED <<useCount, groupWork, idle>>
    <3>1. RootUse' = RootUse BY <1>1, <2>1, <2>3, RootKeeps
    <3> QED BY <2>1, <2>3, <3>1, UseStays DEF ThreadsThere
  <2> QED BY <2>1, <2>2, <2>3 DEF ForkJoin, p
<1>3. CASE EndFunction(t)
  <2>1. /\ nest[t] # <<>> /\ job[p] = "joined" /\ p # Root /\ job' = [job EXCEPT ![p] = "done"]
        /\ DoWorkFinished(Forker(p)) /\ UNCHANGED <<looping, guarded>>
    BY <1>3 DEF EndFunction, InJob, p
  <2>2. p \in Jobs BY <1>1, <2>1
  <2>3. PICK q \in Jobs : p \in Forks[q] BY <2>1, <2>2 DEF ForkInv, ForkersRun
  <2>4. DoWorkFinished(q) BY <2>1, <2>3, ForkerIs
  <2>5. RootUse' = RootUse BY <2>1, <2>2, RootKeeps
  <2>6. idle' \subseteq idle BY <2>4 DEF DoWorkFinished, NotifyAll
  <2> QED BY <2>1, <2>4, <2>5, <2>6, FinishedUse DEF ThreadsThere
<1>4. ASSUME NEW c \in Jobs, DispatchFork(t, c) PROVE UseCounts' /\ ThreadsThere'
  <2>1. /\ nest[t] # <<>> /\ c \in Forks[p] /\ (DoDispatch(t, c) \/ DoPost(c))
        /\ UNCHANGED <<looping, guarded>>
    BY <1>4 DEF DispatchFork, InJob, ForkDispatch, ForkPost, ForkDefer, p
  <2> QED BY <1>1, <2>1, PostedUse
<1>5. ASSUME NEW c \in Jobs, DispatchAfterFork(t, c) PROVE UseCounts' /\ ThreadsThere'
  <2>1. /\ nest[t] # <<>> /\ c \in Forks[p] /\ c \in Delayed /\ DoWorkStarted(Forker(c))
        /\ guarded' = guarded \cup {c} /\ job' = [job EXCEPT ![c] = "timed"] /\ UNCHANGED <<idle, looping>>
    BY <1>5 DEF DispatchAfterFork, InJob, OnWorkStarted, p
  <2>2. p \in Jobs /\ c # Root /\ Forker(c) = p BY <1>1, <2>1, ForkerIs
  <2>3. RootUse' = RootUse BY <2>1, <2>2, RootKeeps
  <2> QED BY <2>1, <2>2, <2>3, StartedUse DEF ThreadsThere
<1> QED BY <1>2, <1>3, <1>4, <1>5

LEMMA UseKept ==
  ASSUME ForkInv, UseCounts, ThreadsThere, [ForkNext]_forkVars
  PROVE  UseCounts' /\ ThreadsThere'
<1>1. ASSUME NEW c \in Jobs, ExpireFork(c) PROVE UseCounts' /\ ThreadsThere'
  <2>1. job[c] = "timed" /\ DoPost(c) /\ UNCHANGED <<looping, guarded>> BY <1>1 DEF ExpireFork, ForkPost
  <2>2. c # Root BY <2>1 DEF ForkInv, RootStays
  <2>3. PICK p \in Jobs : c \in Forks[p] BY <2>1, <2>2 DEF ForkInv, ForkersRun
  <2> QED BY <2>1, <2>3, PostedUse
<1>2. ASSUME NEW c \in Jobs, ReleaseFork(c) PROVE UseCounts' /\ ThreadsThere'
  <2>1. c \in guarded /\ guarded' = guarded \ {c} /\ DoWorkFinished(Forker(c)) /\ UNCHANGED <<looping, job>>
    BY <1>2 DEF ReleaseFork, OnWorkFinished
  <2>2. PICK p \in Jobs : c \in Forks[p] BY <2>1 DEF ForkInv, GroupsCount, ForkersRun
  <2>3. DoWorkFinished(p) BY <2>1, <2>2, ForkerIs
  <2>4. idle' \subseteq idle BY <2>3 DEF DoWorkFinished, NotifyAll
  <2>5. RootUse' = RootUse BY <2>1 DEF RootUse
  <2> QED BY <2>1, <2>3, <2>4, <2>5, FinishedUse DEF ThreadsThere
<1>3. CASE UNCHANGED forkVars
  <2>1. UNCHANGED <<useCount, groupWork, job, idle, looping, guarded>> BY <1>3 DEF forkVars
  <2> QED BY <2>1, UseStays DEF RootUse, ThreadsThere
<1> QED BY <1>1, <1>2, <1>3, PoolUse, FunctionUse DEF ForkNext

LEMMA ForkTypes == ForkSpec => []ForkTypeOK
<1>1. ForkStart => UseCounts /\ ThreadsThere
  <2> SUFFICES ASSUME ForkStart PROVE UseCounts /\ ThreadsThere OBVIOUS
  <2>1. useCount = 1 /\ groupWork = [p \in Jobs |-> 0] /\ job = [p \in Jobs |-> "new"] BY DEF ForkStart
  <2>2. BusyGroups = {} /\ RootUse = 1 BY <2>1, ForkAssumption DEF BusyGroups, RootUse
  <2>3. UseCounts BY <2>1, <2>2, FS_EmptySet DEF UseCounts
  <2> QED BY <2>3 DEF ForkStart, ThreadsThere
<1>2. ForkInv /\ UseCounts /\ ThreadsThere /\ [ForkNext]_forkVars => UseCounts' /\ ThreadsThere' BY UseKept
<1>3. ForkInv /\ UseCounts /\ ThreadsThere => ForkTypeOK
  <2> SUFFICES ASSUME ForkInv, UseCounts, ThreadsThere PROVE ForkTypeOK OBVIOUS
  <2>1. useCount \in Nat BY BusyIsFinite DEF UseCounts, RootUse
  <2>2. groupWork \in [Jobs -> Nat]
    <3>1. ASSUME NEW p \in Jobs PROVE groupWork[p] \in Nat
      <4>1. groupWork[p] = Cardinality(StartedIn(p)) + Cardinality(Forks[p] \cap guarded)
        BY DEF ForkInv, GroupsCount
      <4> QED BY <4>1, SetsAreFinite
    <3> QED BY <3>1 DEF ForkInv, ForkShape
  <2> QED BY <2>1, <2>2 DEF ForkInv, ForkShape, ThreadsThere, ForkTypeOK
<1> QED BY <1>1, <1>2, <1>3, ForkStarts, ForkSteps, PTL DEF ForkSpec

----------------------------------------------------------------------------
(* The pipeline: what each function is, and what is in front of it.        *)

FunctionStates == {"new", "posted", "running", "returned", "ended"}

PipeShape ==
  /\ functions \in 2 .. MaxFunctions /\ function \in [1 .. MaxFunctions -> FunctionStates]
  /\ unread \in Seq(1 .. Lines) /\ line \in [1 .. MaxFunctions -> 0 .. Lines]
  /\ between \in [1 .. MaxFunctions -> Seq(1 .. Lines)] /\ written \in Seq(1 .. Lines)
  /\ filtered \subseteq 1 .. Lines

\* A queue that is stopped is behind a function that has ended, and a function
\* has a line only while it runs.
LineShape ==
  /\ line[1] = 0
  /\ \A k \in Functions : line[k] # 0 => function[k] = "running"
  /\ \A k \in Functions : k \in stops => function[k] = "ended"

\* Before a function that has returned there is nothing any more.
LinesBefore(k) == IF k = 1 THEN unread ELSE between[k - 1]
Drying ==
  \A k \in Functions : function[k] \in {"returned", "ended"} =>
    /\ line[k] = 0 /\ LinesBefore(k) = <<>>
    /\ \A j \in 1 .. k - 1 : function[j] = "ended" /\ line[j] = 0 /\ LinesBefore(j) = <<>>

AllThere == InOrder /\ \A n \in 1 .. Lines : Somewhere(n) <=> n \notin filtered

PipeInv ==
  /\ PipeShape /\ LineShape /\ Drying /\ AllThere
  /\ maker \in {"leaving", "left"} => function[functions] = "ended"

----------------------------------------------------------------------------
(* Sequences behind each other.                                            *)

\* The sequences c[1] to c[n] in decreasing order, each increasing.
QueuesOrdered(c, n) ==
  \A j, k \in 1 .. n : \A x \in 1 .. Len(c[j]), y \in 1 .. Len(c[k]) :
    k < j \/ (k = j /\ x < y) => c[j][x] < c[k][y]
Holds(c, n, v) == \E k \in 1 .. n : \E x \in 1 .. Len(c[k]) : c[k][x] = v

HoldsAllBut(c, d, n, h) == \A v : Holds(d, n, v) <=> (Holds(c, n, v) /\ v # h)

\* What is left of a sequence of numbers without its head.
LEMMA TailOf ==
  ASSUME NEW a \in Seq(Nat), a # <<>>, NEW b, b = Tail(a), NEW h, h = Head(a)
  PROVE  /\ Len(a) \in Nat /\ Len(a) > 0 /\ h = a[1] /\ h \in Nat /\ Len(b) = Len(a) - 1
         /\ \A x \in 1 .. Len(b) : b[x] = a[x + 1] /\ x + 1 \in 1 .. Len(a)
<1>1. Len(a) \in Nat /\ Len(a) > 0 BY EmptySeq, LenProperties
<1>2. Head(a) \in Nat /\ Tail(a) \in Seq(Nat) /\ Len(Tail(a)) = Len(a) - 1 BY HeadTailProperties
<1>3. \A x \in 1 .. Len(Tail(a)) : Tail(a)[x] = a[x + 1] BY HeadTailProperties
<1>4. Head(a) = a[1] OBVIOUS
<1>5. \A x \in 1 .. Len(b) : x + 1 \in 1 .. Len(a) BY <1>1, <1>2
<1> QED BY <1>1, <1>2, <1>3, <1>4, <1>5

\* A sequence of numbers with one more.
IsAppended(b, a, h) == a \in Seq(Nat) /\ h \in Nat /\ b = Append(a, h)
LEMMA AppendOf ==
  ASSUME NEW a, NEW h, NEW b, IsAppended(b, a, h)
  PROVE  /\ Len(a) \in Nat /\ Len(b) = Len(a) + 1 /\ b[Len(a) + 1] = h
         /\ \A x \in 1 .. Len(a) : b[x] = a[x]
<1> a \in Seq(Nat) /\ h \in Nat /\ b = Append(a, h) BY DEF IsAppended
<1>1. Len(a) \in Nat BY LenProperties
<1>2. Len(Append(a, h)) = Len(a) + 1 /\ Append(a, h)[Len(a) + 1] = h BY AppendProperties
<1>3. \A x \in 1 .. Len(a) : Append(a, h)[x] = a[x] BY AppendProperties
<1> QED BY <1>1, <1>2, <1>3

\* What one begins with is taken away.
LEMMA TakeKeepsOrder ==
  ASSUME NEW n \in Nat, NEW c \in [1 .. n -> Seq(Nat)], NEW d \in [1 .. n -> Seq(Nat)],
         QueuesOrdered(c, n), NEW k \in 1 .. n, NEW h, c[k] # <<>>, h = Head(c[k]), d[k] = Tail(c[k]),
         \A j \in 1 .. n : j # k => d[j] = c[j]
  PROVE  QueuesOrdered(d, n) /\ HoldsAllBut(c, d, n, h)
<1>1. /\ Len(c[k]) \in Nat /\ Len(d[k]) = Len(c[k]) - 1 /\ Head(c[k]) = c[k][1] /\ Len(c[k]) > 0
      /\ \A x \in 1 .. Len(d[k]) : d[k][x] = c[k][x + 1] /\ x + 1 \in 1 .. Len(c[k])
  <2>1. c[k] \in Seq(Nat) OBVIOUS
  <2> QED BY <2>1, HeadTailProperties
<1>2. ASSUME NEW j \in 1 .. n, NEW x \in 1 .. Len(c[j]) PROVE c[j][x] \in Nat
  <2>1. c[j] \in Seq(Nat) OBVIOUS
  <2> QED BY <2>1, ElementOfSeq
<1>3. ASSUME NEW j \in 1 .. n, NEW x \in 1 .. Len(d[j]) PROVE x \in Nat
  <2>1. d[j] \in Seq(Nat) OBVIOUS
  <2> QED BY <2>1
<1>4. ASSUME NEW j \in 1 .. n, NEW l \in 1 .. n, NEW x \in 1 .. Len(d[j]), NEW y \in 1 .. Len(d[l]),
             l < j \/ (l = j /\ x < y)
      PROVE  d[j][x] < d[l][y]
  <2>1. CASE j = k /\ l = k
    <3>1. d[j][x] = c[k][x + 1] /\ d[l][y] = c[k][y + 1] BY <1>1, <2>1
    <3>2. x + 1 \in 1 .. Len(c[k]) /\ y + 1 \in 1 .. Len(c[k]) BY <1>1, <2>1
    <3>3. x < y BY <1>4, <2>1
    <3>4. x + 1 < y + 1 BY <1>3, <3>3
    <3> QED BY <3>1, <3>2, <3>4 DEF QueuesOrdered
  <2>2. CASE j = k /\ l # k
    <3>1. d[j][x] = c[k][x + 1] /\ d[l] = c[l] /\ x + 1 \in 1 .. Len(c[k]) /\ l < k BY <1>1, <1>4, <2>2
    <3> QED BY <3>1 DEF QueuesOrdered
  <2>3. CASE j # k /\ l = k
    <3>1. d[l][y] = c[k][y + 1] /\ d[j] = c[j] /\ y + 1 \in 1 .. Len(c[k]) /\ k < j BY <1>1, <1>4, <2>3
    <3> QED BY <3>1 DEF QueuesOrdered
  <2>4. CASE j # k /\ l # k
    <3>1. d[j] = c[j] /\ d[l] = c[l] BY <2>4
    <3> QED BY <1>4, <3>1 DEF QueuesOrdered
  <2> QED BY <2>1, <2>2, <2>3, <2>4
<1>5. ASSUME NEW v, Holds(d, n, v) PROVE Holds(c, n, v) /\ v # Head(c[k])
  <2>0. PICK j \in 1 .. n : \E x \in 1 .. Len(d[j]) : d[j][x] = v BY <1>5 DEF Holds
  <2>1. PICK x \in 1 .. Len(d[j]) : d[j][x] = v BY <2>0
  <2>2. CASE j = k
    <3>0. x \in 1 .. Len(d[k]) /\ d[k][x] = v BY <2>1, <2>2
    <3>1. x + 1 \in 1 .. Len(c[k]) /\ c[k][x + 1] = v /\ 1 \in 1 .. Len(c[k]) /\ 1 < x + 1
      BY <1>1, <3>0
    <3>2. c[k][1] < v BY <3>1 DEF QueuesOrdered
    <3>3. c[k][1] \in Nat /\ v \in Nat BY <1>2, <3>1
    <3>4. v # c[k][1]
      <4>1. PICK a : a = c[k][1] OBVIOUS
      <4>2. a \in Nat /\ a < v BY <3>2, <3>3, <4>1
      <4>3. v # a BY <3>3, <4>2
      <4> QED BY <4>1, <4>3
    <3> QED BY <1>1, <3>1, <3>4 DEF Holds
  <2>3. CASE j # k
    <3>1. x \in 1 .. Len(c[j]) /\ c[j][x] = v /\ 1 \in 1 .. Len(c[k]) BY <1>1, <2>1, <2>3
    <3>2. c[j][x] < c[k][1] \/ c[k][1] < c[j][x]
      <4>1. j < k \/ k < j BY <2>3
      <4>2. CASE j < k BY <3>1, <4>2 DEF QueuesOrdered
      <4>3. CASE k < j BY <3>1, <4>3 DEF QueuesOrdered
      <4> QED BY <4>1, <4>2, <4>3
    <3>3. c[k][1] \in Nat /\ c[j][x] \in Nat BY <1>2, <3>1
    <3>4. v # c[k][1]
      <4>1. c[j][x] # c[k][1]
        <5>1. PICK a, b : a = c[j][x] /\ b = c[k][1] OBVIOUS
        <5>2. a \in Nat /\ b \in Nat /\ (a < b \/ b < a) BY <3>2, <3>3, <5>1
        <5>3. a # b BY <5>2
        <5> QED BY <5>1, <5>3
      <4> QED BY <3>1, <4>1
    <3> QED BY <1>1, <3>1, <3>4 DEF Holds
  <2> QED BY <2>2, <2>3
<1>6. ASSUME NEW v, Holds(c, n, v), v # Head(c[k]) PROVE Holds(d, n, v)
  <2>0. PICK j \in 1 .. n : \E x \in 1 .. Len(c[j]) : c[j][x] = v BY <1>6 DEF Holds
  <2>1. PICK x \in 1 .. Len(c[j]) : c[j][x] = v BY <2>0
  <2>2. CASE j = k
    <3>1. x # 1 BY <1>1, <1>6, <2>1, <2>2
    <3>2. x - 1 \in 1 .. Len(d[k]) /\ (x - 1) + 1 = x BY <1>1, <2>1, <2>2, <3>1
    <3>3. d[k][x - 1] = v BY <1>1, <2>1, <2>2, <3>2
    <3> QED BY <3>2, <3>3 DEF Holds
  <2>3. CASE j # k BY <2>1, <2>3 DEF Holds
  <2> QED BY <2>2, <2>3
<1> QED BY <1>4, <1>5, <1>6 DEF QueuesOrdered, HoldsAllBut

\* What one begins with is put at the end of the next.
LEMMA MoveKeepsOrder ==
  ASSUME NEW n \in Nat, NEW c \in [1 .. n -> Seq(Nat)], NEW d \in [1 .. n -> Seq(Nat)],
         QueuesOrdered(c, n), NEW k \in 1 .. n, k + 1 \in 1 .. n, c[k] # <<>>, d[k] = Tail(c[k]),
         d[k + 1] = Append(c[k + 1], Head(c[k])),
         \A j \in 1 .. n : j # k /\ j # k + 1 => d[j] = c[j]
  PROVE  /\ QueuesOrdered(d, n)
         /\ \A v : Holds(d, n, v) <=> Holds(c, n, v)
<1> DEFINE h == Head(c[k])
           m == Len(c[k + 1])
<1>1. /\ Len(c[k]) \in Nat /\ Len(d[k]) = Len(c[k]) - 1 /\ h = c[k][1] /\ Len(c[k]) > 0 /\ h \in Nat
      /\ \A x \in 1 .. Len(d[k]) : d[k][x] = c[k][x + 1] /\ x + 1 \in 1 .. Len(c[k])
  <2>1. PICK a, b : a = c[k] /\ b = d[k] OBVIOUS
  <2>2. a \in Seq(Nat) /\ a # <<>> /\ b = Tail(a) /\ h = Head(a) BY <2>1
  <2>3. /\ Len(a) \in Nat /\ Len(a) > 0 /\ h = a[1] /\ h \in Nat /\ Len(b) = Len(a) - 1
        /\ \A x \in 1 .. Len(b) : b[x] = a[x + 1] /\ x + 1 \in 1 .. Len(a)
    <3> HIDE DEF h
    <3> QED BY <2>2, TailOf
  <2> HIDE DEF h
  <2> QED BY <2>1, <2>3
<1>2. /\ m \in Nat /\ Len(d[k + 1]) = m + 1 /\ d[k + 1][m + 1] = h /\ m + 1 \in 1 .. Len(d[k + 1])
      /\ \A x \in 1 .. m : d[k + 1][x] = c[k + 1][x] /\ x \in 1 .. Len(d[k + 1])
  <2>1. PICK a, b : a = c[k + 1] /\ b = d[k + 1] OBVIOUS
  <2>2. IsAppended(b, a, h) BY <1>1, <2>1 DEF IsAppended
  <2>3. Len(a) \in Nat /\ Len(b) = Len(a) + 1 /\ b[Len(a) + 1] = h
        /\ \A x \in 1 .. Len(a) : b[x] = a[x]
    <3> HIDE DEF h
    <3> QED BY <2>2, AppendOf
  <2>4. \A x \in 1 .. Len(a) : x \in 1 .. Len(b) BY <2>3
  <2>5. Len(a) + 1 \in 1 .. Len(b) BY <2>3
  <2> QED BY <2>1, <2>3, <2>4, <2>5
<1>3. k # k + 1 /\ k \in Nat OBVIOUS
<1> DEFINE from(j, x) == IF j = k + 1 /\ x = m + 1 THEN k ELSE j
           at(j, x) == IF j = k THEN x + 1 ELSE IF j = k + 1 /\ x = m + 1 THEN 1 ELSE x
<1>4. \A j \in 1 .. n : \A x \in 1 .. Len(d[j]) :
        /\ from(j, x) \in 1 .. n /\ at(j, x) \in 1 .. Len(c[from(j, x)])
        /\ d[j][x] = c[from(j, x)][at(j, x)]
  <2> SUFFICES ASSUME NEW j \in 1 .. n, NEW x \in 1 .. Len(d[j])
               PROVE  /\ from(j, x) \in 1 .. n /\ at(j, x) \in 1 .. Len(c[from(j, x)])
                      /\ d[j][x] = c[from(j, x)][at(j, x)]
    OBVIOUS
  <2>1. CASE j = k
    <3>1. from(j, x) = k /\ at(j, x) = x + 1 BY <2>1
    <3> QED BY <1>1, <2>1, <3>1
  <2>2. CASE j = k + 1
    <3>1. CASE x = m + 1
      <4>1. from(j, x) = k /\ at(j, x) = 1 BY <2>2, <3>1
      <4>2. 1 \in 1 .. Len(c[k]) BY <1>1
      <4> QED BY <1>1, <1>2, <2>2, <3>1, <4>1, <4>2
    <3>2. CASE x # m + 1
      <4>1. from(j, x) = k + 1 /\ at(j, x) = x BY <2>2, <3>2
      <4>2. x \in 1 .. m
        <5>1. x \in 1 .. m + 1 BY <1>2, <2>2
        <5> QED BY <1>2, <3>2, <5>1
      <4> QED BY <1>2, <2>2, <4>1, <4>2
    <3> QED BY <3>1, <3>2
  <2>3. CASE j # k /\ j # k + 1
    <3>1. from(j, x) = j /\ at(j, x) = x BY <2>3
    <3> QED BY <2>3, <3>1
  <2> QED BY <2>1, <2>2, <2>3
<1>5. ASSUME NEW j \in 1 .. n, NEW l \in 1 .. n, NEW x \in 1 .. Len(d[j]), NEW y \in 1 .. Len(d[l]),
             l < j \/ (l = j /\ x < y)
      PROVE  d[j][x] < d[l][y]
  <2>1. x \in Nat /\ y \in Nat /\ 1 <= x /\ 1 <= y OBVIOUS
  <2>2. l = k + 1 => y <= m + 1 BY <1>2
  <2>3. j = k + 1 => x <= m + 1 BY <1>2
  <2>4. from(l, y) < from(j, x) \/ (from(l, y) = from(j, x) /\ at(j, x) < at(l, y))
    <3>1. CASE j = k + 1 /\ x = m + 1
      <4>1. from(j, x) = k /\ at(j, x) = 1 BY <3>1
      <4>2. l = k + 1 => ~ (x < y) BY <1>2, <2>1, <2>2, <3>1
      <4>3. l < k + 1 BY <1>5, <3>1, <4>2
      <4>4. from(l, y) = l BY <4>3
      <4>5. l = k => at(l, y) = y + 1 OBVIOUS
      <4>6. l < k \/ l = k BY <4>3
      <4> HIDE DEF from, at
      <4> QED BY <2>1, <4>1, <4>4, <4>5, <4>6
    <3>2. CASE ~ (j = k + 1 /\ x = m + 1)
      <4>1. from(j, x) = j BY <3>2
      <4>2. CASE l < j
        <5>1. from(l, y) = l \/ (from(l, y) = k /\ l = k + 1) BY DEF from
        <5>2. l \in Nat /\ j \in Nat OBVIOUS
        <5> HIDE DEF from, at
        <5>3. k \in Nat /\ (l = k + 1 => k < j) BY <4>2, <5>2
        <5>4. CASE from(l, y) = l
          <6> HIDE DEF from, at
          <6> QED BY <4>1, <4>2, <5>4
        <5>5. CASE from(l, y) = k /\ l = k + 1
          <6> HIDE DEF from, at
          <6> QED BY <4>1, <5>3, <5>5
        <5> QED BY <5>1, <5>4, <5>5
      <4>3. CASE l = j /\ x < y
        <5>1. CASE j = k + 1 /\ y = m + 1
          <6>1. from(l, y) = k BY <4>3, <5>1
          <6> HIDE DEF from, at
          <6> QED BY <4>1, <5>1, <6>1
        <5>2. CASE j = k /\ ~ (j = k + 1 /\ y = m + 1)
          <6>1. from(l, y) = j /\ at(l, y) = y + 1 /\ at(j, x) = x + 1 BY <4>3, <5>2
          <6> HIDE DEF from, at
          <6> QED BY <2>1, <4>1, <4>3, <6>1
        <5>3. CASE j # k /\ ~ (j = k + 1 /\ y = m + 1)
          <6>1. from(l, y) = j /\ at(l, y) = y /\ at(j, x) = x BY <3>2, <4>3, <5>3
          <6> HIDE DEF from, at
          <6> QED BY <2>1, <4>1, <4>3, <6>1
        <5> QED BY <5>1, <5>2, <5>3
      <4> QED BY <1>5, <4>2, <4>3
    <3> QED BY <3>1, <3>2
  <2> HIDE DEF from, at
  <2>5. c[from(j, x)][at(j, x)] < c[from(l, y)][at(l, y)] BY <1>4, <2>4 DEF QueuesOrdered
  <2> QED BY <1>4, <2>5
<1>6. ASSUME NEW v, Holds(d, n, v) PROVE Holds(c, n, v)
  <2>0. PICK j \in 1 .. n : \E x \in 1 .. Len(d[j]) : d[j][x] = v BY <1>6 DEF Holds
  <2>1. PICK x \in 1 .. Len(d[j]) : d[j][x] = v BY <2>0
  <2> HIDE DEF from, at
  <2> QED BY <1>4, <2>1 DEF Holds
<1>7. ASSUME NEW v, Holds(c, n, v) PROVE Holds(d, n, v)
  <2>0. PICK j \in 1 .. n : \E x \in 1 .. Len(c[j]) : c[j][x] = v BY <1>7 DEF Holds
  <2>1. PICK x \in 1 .. Len(c[j]) : c[j][x] = v BY <2>0
  <2>2. CASE j = k /\ x = 1 BY <1>1, <1>2, <2>1, <2>2 DEF Holds
  <2>3. CASE j = k /\ x # 1
    <3>1. x - 1 \in 1 .. Len(d[k]) /\ (x - 1) + 1 = x BY <1>1, <2>1, <2>3
    <3>2. d[k][x - 1] = v BY <1>1, <2>1, <2>3, <3>1
    <3> QED BY <3>1, <3>2 DEF Holds
  <2>4. CASE j = k + 1 BY <1>2, <2>1, <2>4 DEF Holds
  <2>5. CASE j # k /\ j # k + 1 BY <2>1, <2>5 DEF Holds
  <2> QED BY <2>2, <2>3, <2>4, <2>5
<1> QED BY <1>5, <1>6, <1>7 DEF QueuesOrdered

LEMMA HeadAndTail ==
  ASSUME NEW S, NEW q \in Seq(S), q # <<>>
  PROVE  Head(q) \in S /\ Tail(q) \in Seq(S) /\ q = <<Head(q)>> \o Tail(q)
<1>1. /\ Head(q) \in S /\ Tail(q) \in Seq(S) /\ Head(q) = q[1] /\ Len(q) \in Nat /\ Len(q) > 0
      /\ Len(Tail(q)) = Len(q) - 1
      /\ \A i \in 1 .. Len(Tail(q)) : Tail(q)[i] = q[i + 1]
  BY HeadTailProperties
<1> DEFINE s == <<Head(q)>>
           t == Tail(q)
<1>2. s \in Seq(S) /\ Len(s) = 1 /\ s[1] = Head(q) BY <1>1
<1>2a. t \in Seq(S) BY <1>1
<1> HIDE DEF s, t
<1>3. /\ s \o t \in Seq(S) /\ Len(s \o t) = Len(s) + Len(t)
      /\ \A i \in 1 .. Len(s) + Len(t) : (s \o t)[i] = IF i <= Len(s) THEN s[i] ELSE t[i - Len(s)]
  BY <1>2, <1>2a, ConcatProperties
<1>4. Len(s \o t) = Len(q) BY <1>1, <1>2, <1>3 DEF t
<1>5. ASSUME NEW i \in 1 .. Len(q) PROVE (s \o t)[i] = q[i]
  <2>1. (s \o t)[i] = IF i <= Len(s) THEN s[i] ELSE t[i - Len(s)] BY <1>3, <1>4
  <2>2. CASE i = 1 BY <1>1, <1>2, <2>1, <2>2
  <2>3. CASE i # 1
    <3>1. i - 1 \in 1 .. Len(t) /\ (i - 1) + 1 = i BY <1>1, <2>3 DEF t
    <3>2. t[i - 1] = q[i] BY <1>1, <3>1 DEF t
    <3> QED BY <1>1, <1>2, <2>1, <2>3, <3>2
  <2> QED BY <2>2, <2>3
<1>6. s \o t = q BY <1>3, <1>4, <1>5, SeqEqual
<1> QED BY <1>1, <1>6 DEF s, t

----------------------------------------------------------------------------
(* The pipeline.                                                           *)

Contents == [k \in 1 .. functions + 1 |-> AtFunction(k)]

LEMMA AtShape ==
  ASSUME PipeShape
  PROVE  /\ functions \in Nat /\ functions >= 2 /\ MaxFunctions \in Nat /\ functions <= MaxFunctions
         /\ Functions \subseteq 1 .. MaxFunctions /\ 1 .. Lines \subseteq Nat
         /\ \A k \in Functions :
              /\ LinesBefore(k) \in Seq(1 .. Lines)
              /\ line[k] = 0 => AtFunction(k) = LinesBefore(k)
              /\ line[k] # 0 =>
                   /\ line[k] \in 1 .. Lines /\ AtFunction(k) = <<line[k]>> \o LinesBefore(k)
                   /\ AtFunction(k) # <<>> /\ Head(AtFunction(k)) = line[k]
                   /\ Tail(AtFunction(k)) = LinesBefore(k)
         /\ \A k \in 1 .. functions + 1 : AtFunction(k) \in Seq(1 .. Lines) /\ AtFunction(k) \in Seq(Nat)
         /\ AtFunction(functions + 1) = written
<1>1. /\ functions \in Nat /\ functions >= 2 /\ MaxFunctions \in Nat /\ functions <= MaxFunctions
      /\ Functions \subseteq 1 .. MaxFunctions /\ 1 .. Lines \subseteq Nat
  BY PipelineAssumption DEF PipeShape, Functions
<1>2. ASSUME NEW k \in Functions PROVE LinesBefore(k) \in Seq(1 .. Lines)
  <2>1. CASE k = 1 BY <2>1 DEF LinesBefore, PipeShape
  <2>2. CASE k # 1
    <3>1. k - 1 \in 1 .. MaxFunctions BY <1>1, <2>2 DEF Functions
    <3> QED BY <2>2, <3>1 DEF LinesBefore, PipeShape
  <2> QED BY <2>1, <2>2
<1>3. ASSUME NEW k \in Functions
      PROVE  AtFunction(k) = (IF line[k] = 0 THEN <<>> ELSE <<line[k]>>) \o LinesBefore(k)
  <2>1. ~ (k > functions) BY <1>1 DEF Functions
  <2> QED BY <2>1 DEF AtFunction, LinesBefore
<1>4. ASSUME NEW k \in Functions, line[k] = 0 PROVE AtFunction(k) = LinesBefore(k)
  BY <1>2, <1>3, <1>4, ConcatEmptySeq
<1>5. ASSUME NEW k \in Functions, line[k] # 0
      PROVE  /\ line[k] \in 1 .. Lines /\ AtFunction(k) = <<line[k]>> \o LinesBefore(k)
             /\ AtFunction(k) # <<>> /\ Head(AtFunction(k)) = line[k]
             /\ Tail(AtFunction(k)) = LinesBefore(k)
  <2>1. line[k] \in 0 .. Lines BY <1>1 DEF PipeShape
  <2>2. line[k] \in 1 .. Lines BY <1>5, <2>1
  <2>3. AtFunction(k) = <<line[k]>> \o LinesBefore(k) BY <1>3, <1>5
  <2> DEFINE q == LinesBefore(k)
  <2>4. q \in Seq(1 .. Lines) BY <1>2
  <2>5. <<line[k]>> \o q # <<>> /\ Head(<<line[k]>> \o q) = line[k] /\ Tail(<<line[k]>> \o q) = q
    <3> HIDE DEF q
    <3> QED BY <2>2, <2>4
  <2> QED BY <2>2, <2>3, <2>5
<1>6. AtFunction(functions + 1) = written
  <2>1. functions + 1 > functions BY <1>1
  <2> QED BY <2>1 DEF AtFunction
<1>7. ASSUME NEW k \in 1 .. functions + 1 PROVE AtFunction(k) \in Seq(1 .. Lines)
  <2>1. CASE k = functions + 1 BY <1>6, <2>1 DEF PipeShape
  <2>2. CASE k # functions + 1
    <3>1. k \in Functions BY <1>1, <2>2 DEF Functions
    <3>2. CASE line[k] = 0 BY <1>2, <1>4, <3>1, <3>2
    <3>3. CASE line[k] # 0
      <4>1. <<line[k]>> \in Seq(1 .. Lines)
        <5>1. line[k] \in 1 .. Lines BY <1>5, <3>1, <3>3
        <5> QED BY <5>1
      <4> QED BY <1>2, <1>5, <3>1, <3>3, <4>1, ConcatProperties
    <3> QED BY <3>2, <3>3
  <2> QED BY <2>1, <2>2
<1>8. \A k \in 1 .. functions + 1 : AtFunction(k) \in Seq(Nat) BY <1>1, <1>7, SeqMonotonic
<1> QED BY <1>1, <1>2, <1>4, <1>5, <1>6, <1>7, <1>8

LEMMA AsContents ==
  ASSUME PipeShape
  PROVE  /\ Contents \in [1 .. functions + 1 -> Seq(Nat)] /\ functions + 1 \in Nat
         /\ InOrder <=> QueuesOrdered(Contents, functions + 1)
         /\ \A n : Somewhere(n) <=> Holds(Contents, functions + 1, n)
<1>1. Contents \in [1 .. functions + 1 -> Seq(Nat)] /\ functions + 1 \in Nat BY AtShape DEF Contents
<1>2. \A k \in 1 .. functions + 1 : Contents[k] = AtFunction(k) BY DEF Contents
<1>3. InOrder <=> QueuesOrdered(Contents, functions + 1) BY <1>2 DEF InOrder, QueuesOrdered
<1>4. \A n : Somewhere(n) <=> Holds(Contents, functions + 1, n) BY <1>2 DEF Somewhere, Holds
<1> QED BY <1>1, <1>3, <1>4

LEMMA AsContentsNext ==
  PipeShape' =>
    /\ Contents' \in [1 .. functions' + 1 -> Seq(Nat)] /\ functions' + 1 \in Nat
    /\ InOrder' <=> QueuesOrdered(Contents', functions' + 1)
    /\ \A n : Somewhere(n)' <=> Holds(Contents', functions' + 1, n)
<1>1. PipeShape =>
        /\ Contents \in [1 .. functions + 1 -> Seq(Nat)] /\ functions + 1 \in Nat
        /\ InOrder <=> QueuesOrdered(Contents, functions + 1)
        /\ \A n : Somewhere(n) <=> Holds(Contents, functions + 1, n)
  BY AsContents
<1>2. (PipeShape =>
         /\ Contents \in [1 .. functions + 1 -> Seq(Nat)] /\ functions + 1 \in Nat
         /\ InOrder <=> QueuesOrdered(Contents, functions + 1)
         /\ \A n : Somewhere(n) <=> Holds(Contents, functions + 1, n))'
  BY <1>1, PTL
<1> QED BY <1>2

LEMMA SameIsThere ==
  ASSUME PipeShape, PipeShape', AllThere, functions' = functions, filtered' = filtered,
         \A k \in 1 .. functions + 1 : AtFunction(k)' = AtFunction(k)
  PROVE  AllThere'
<1>1. Contents' = Contents BY DEF Contents
<1>2. InOrder' <=> QueuesOrdered(Contents', functions' + 1) BY AsContentsNext
<1>3. \A n : Somewhere(n)' <=> Holds(Contents', functions' + 1, n) BY AsContentsNext
<1> QED BY <1>1, <1>2, <1>3, AsContents DEF AllThere

LEMMA TakenIsThere ==
  ASSUME PipeShape, PipeShape', AllThere, functions' = functions, NEW k \in Functions, line[k] # 0,
         AtFunction(k)' = Tail(AtFunction(k)), filtered' = filtered \cup {line[k]},
         \A j \in 1 .. functions + 1 : j # k => AtFunction(j)' = AtFunction(j)
  PROVE  AllThere'
<1> DEFINE n == functions + 1
           c == Contents
           d == Contents'
<1>1. /\ n \in Nat /\ c \in [1 .. n -> Seq(Nat)] /\ d \in [1 .. n -> Seq(Nat)] /\ QueuesOrdered(c, n)
      /\ \A v : Somewhere(v) <=> Holds(c, n, v)
      /\ InOrder' <=> QueuesOrdered(d, n)
      /\ \A v : Somewhere(v)' <=> Holds(d, n, v)
  <2>1. /\ Contents' \in [1 .. functions' + 1 -> Seq(Nat)]
        /\ InOrder' <=> QueuesOrdered(Contents', functions' + 1)
        /\ \A v : Somewhere(v)' <=> Holds(Contents', functions' + 1, v)
    BY AsContentsNext
  <2> QED BY <2>1, AsContents DEF AllThere
<1>2. k \in 1 .. n BY AtShape DEF Functions
<1>3. /\ c[k] # <<>> /\ d[k] = Tail(c[k]) /\ Head(c[k]) = line[k]
      /\ \A j \in 1 .. n : j # k => d[j] = c[j]
  BY <1>2, AtShape DEF Contents
<1> HIDE DEF n, c, d
<1>4. QueuesOrdered(d, n) /\ HoldsAllBut(c, d, n, line[k])
  BY <1>1, <1>2, <1>3, TakeKeepsOrder
<1>5. \A v \in 1 .. Lines : Somewhere(v)' <=> v \notin filtered' BY <1>1, <1>4 DEF AllThere, HoldsAllBut
<1> QED BY <1>1, <1>4, <1>5 DEF AllThere

LEMMA MovedIsThere ==
  ASSUME PipeShape, PipeShape', AllThere, functions' = functions, NEW k \in Functions,
         AtFunction(k) # <<>>, AtFunction(k)' = Tail(AtFunction(k)), filtered' = filtered,
         AtFunction(k + 1)' = Append(AtFunction(k + 1), Head(AtFunction(k))),
         \A j \in 1 .. functions + 1 : j # k /\ j # k + 1 => AtFunction(j)' = AtFunction(j)
  PROVE  AllThere'
<1> DEFINE n == functions + 1
           c == Contents
           d == Contents'
<1>1. /\ n \in Nat /\ c \in [1 .. n -> Seq(Nat)] /\ d \in [1 .. n -> Seq(Nat)] /\ QueuesOrdered(c, n)
      /\ \A v : Somewhere(v) <=> Holds(c, n, v)
      /\ InOrder' <=> QueuesOrdered(d, n)
      /\ \A v : Somewhere(v)' <=> Holds(d, n, v)
  <2>1. /\ Contents' \in [1 .. functions' + 1 -> Seq(Nat)]
        /\ InOrder' <=> QueuesOrdered(Contents', functions' + 1)
        /\ \A v : Somewhere(v)' <=> Holds(Contents', functions' + 1, v)
    BY AsContentsNext
  <2> QED BY <2>1, AsContents DEF AllThere
<1>2. k \in 1 .. n /\ k + 1 \in 1 .. n BY AtShape DEF Functions
<1>3. /\ c[k] # <<>> /\ d[k] = Tail(c[k]) /\ d[k + 1] = Append(c[k + 1], Head(c[k]))
      /\ \A j \in 1 .. n : j # k /\ j # k + 1 => d[j] = c[j]
  BY <1>2 DEF Contents
<1> HIDE DEF n, c, d
<1>4. QueuesOrdered(d, n) /\ \A v : Holds(d, n, v) <=> Holds(c, n, v)
  BY <1>1, <1>2, <1>3, MoveKeepsOrder
<1>5. \A v \in 1 .. Lines : Somewhere(v)' <=> v \notin filtered' BY <1>1, <1>4 DEF AllThere
<1> QED BY <1>1, <1>4, <1>5 DEF AllThere

LEMMA PipeStarts == PipeStart(2 .. MaxFunctions) => PipeInv
<1> SUFFICES ASSUME PipeStart(2 .. MaxFunctions) PROVE PipeInv OBVIOUS
<1>1. functions \in Nat /\ functions >= 2 /\ functions <= MaxFunctions /\ MaxFunctions \in Nat /\ Lines \in Nat
  BY PipelineAssumption DEF PipeStart
<1>2. unread \in Seq(1 .. Lines) /\ Len(unread) = Lines /\ \A n \in 1 .. Lines : unread[n] = n
  <2>1. unread = [n \in 1 .. Lines |-> n] BY DEF PipeStart
  <2>2. unread \in [1 .. Lines -> 1 .. Lines] BY <2>1
  <2>3. unread \in Seq(1 .. Lines) BY <1>1, <2>2, IsASeq
  <2>4. Len(unread) = Lines BY <1>1, <2>1
  <2> QED BY <2>1, <2>3, <2>4
<1>3. PipeShape
  <2>1. function \in [1 .. MaxFunctions -> FunctionStates] BY DEF PipeStart, FunctionStates
  <2>2. line \in [1 .. MaxFunctions -> 0 .. Lines] BY <1>1 DEF PipeStart
  <2>3. between \in [1 .. MaxFunctions -> Seq(1 .. Lines)]
    <3>1. <<>> \in Seq(1 .. Lines) BY EmptySeq
    <3> QED BY <3>1 DEF PipeStart
  <2>4. functions \in 2 .. MaxFunctions /\ filtered = {} /\ written \in Seq(1 .. Lines)
    BY EmptySeq DEF PipeStart
  <2> QED BY <1>2, <2>1, <2>2, <2>3, <2>4 DEF PipeShape
<1>4. /\ \A k \in Functions : line[k] = 0 /\ function[k] = "new"
      /\ 1 \in Functions
  BY <1>1 DEF PipeStart, Functions
<1>5. AtFunction(1) = unread /\ \A k \in 2 .. functions + 1 : AtFunction(k) = <<>>
  <2>1. AtFunction(1) = unread
    <3>1. LinesBefore(1) = unread BY DEF LinesBefore
    <3> QED BY <1>3, <1>4, <3>1, AtShape
  <2>2. AtFunction(functions + 1) = <<>> BY <1>3, AtShape DEF PipeStart
  <2>3. ASSUME NEW k \in 2 .. functions PROVE AtFunction(k) = <<>>
    <3>1. k \in Functions /\ k # 1 /\ k - 1 \in 1 .. MaxFunctions BY <1>1 DEF Functions
    <3>2. LinesBefore(k) = <<>> BY <3>1 DEF LinesBefore, PipeStart
    <3> QED BY <1>3, <1>4, <3>1, <3>2, AtShape
  <2> QED BY <1>1, <2>1, <2>2, <2>3
<1>6. \A k \in 1 .. functions + 1 : \A x \in 1 .. Len(AtFunction(k)) :
        k = 1 /\ x \in 1 .. Lines /\ AtFunction(k)[x] = x
  <2> SUFFICES ASSUME NEW k \in 1 .. functions + 1, NEW x \in 1 .. Len(AtFunction(k))
               PROVE  k = 1 /\ x \in 1 .. Lines /\ AtFunction(k)[x] = x
    OBVIOUS
  <2>1. CASE k = 1 BY <1>2, <1>5, <2>1
  <2>2. CASE k # 1
    <3>1. k \in 2 .. functions + 1 BY <1>1, <2>2
    <3>2. AtFunction(k) = <<>> BY <1>5, <3>1
    <3>3. 1 .. Len(<<>>) = {} BY EmptySeq
    <3> QED BY <3>2, <3>3
  <2> QED BY <2>1, <2>2
<1>7. InOrder BY <1>1, <1>6 DEF InOrder
<1>8. \A n \in 1 .. Lines : Somewhere(n)
  <2> SUFFICES ASSUME NEW n \in 1 .. Lines PROVE Somewhere(n) OBVIOUS
  <2>1. 1 \in 1 .. functions + 1 /\ n \in 1 .. Len(AtFunction(1)) /\ AtFunction(1)[n] = n
    BY <1>1, <1>2, <1>5
  <2> QED BY <2>1 DEF Somewhere
<1>9. AllThere BY <1>7, <1>8 DEF AllThere, PipeStart
<1>10. LineShape /\ Drying BY <1>4 DEF LineShape, Drying, PipeStart
<1> QED BY <1>3, <1>9, <1>10 DEF PipeInv, PipeStart

LEMMA PipeInvImplies == PipeInv => LinesInOrder
<1> SUFFICES ASSUME PipeInv PROVE LinesInOrder OBVIOUS
<1>1. functions \in Nat /\ functions >= 2 /\ PipeShape BY AtShape DEF PipeInv
<1>2. ASSUME function[functions] = "ended"
      PROVE  \A k \in Functions : line[k] = 0 /\ LinesBefore(k) = <<>> /\ function[k] = "ended"
  <2> SUFFICES ASSUME NEW k \in Functions
               PROVE  line[k] = 0 /\ LinesBefore(k) = <<>> /\ function[k] = "ended"
    OBVIOUS
  <2>1. functions \in Functions /\ (k = functions \/ k \in 1 .. functions - 1) BY <1>1 DEF Functions
  <2> QED BY <1>2, <2>1 DEF PipeInv, Drying
<1>3. function[functions] = "ended" => \A k \in Functions : AtFunction(k) = <<>>
  BY <1>1, <1>2, AtShape
<1> QED BY <1>2, <1>3 DEF LinesInOrder, PipeInv, AllThere

\* What changes neither the lines nor the queues.
LEMMA StaysAsItIs ==
  ASSUME functions' = functions, unread' = unread, line' = line, between' = between, written' = written
  PROVE  /\ \A k \in 1 .. functions + 1 : AtFunction(k)' = AtFunction(k)
         /\ \A k \in Functions : LinesBefore(k)' = LinesBefore(k) /\ line'[k] = line[k]
         /\ Functions' = Functions
BY DEF AtFunction, LinesBefore, Functions

LEMMA FunctionMoves ==
  ASSUME PipeInv, NEW k \in Functions, NEW state \in FunctionStates, Becomes(k, state),
         UNCHANGED <<functions, unread, line, between, written, filtered>>,
         function[k] # "ended", maker' = maker,
         stops' = stops \/ (stops' = stops \cup {k} /\ state = "ended"),
         line[k] # 0 => state = "running",
         state \in {"returned", "ended"} =>
           /\ line[k] = 0 /\ LinesBefore(k) = <<>>
           /\ \A j \in 1 .. k - 1 : function[j] = "ended" /\ line[j] = 0 /\ LinesBefore(j) = <<>>
  PROVE  PipeInv'
<1>1. PipeShape /\ LineShape /\ Drying /\ AllThere BY DEF PipeInv
<1>2. /\ functions \in Nat /\ functions >= 2 /\ functions <= MaxFunctions
      /\ Functions \subseteq 1 .. MaxFunctions
  BY <1>1, AtShape
<1>3. /\ \A j \in 1 .. functions + 1 : AtFunction(j)' = AtFunction(j)
      /\ \A j \in Functions : LinesBefore(j)' = LinesBefore(j) /\ line'[j] = line[j]
      /\ Functions' = Functions
  BY StaysAsItIs
<1>4. /\ function' \in [1 .. MaxFunctions -> FunctionStates] /\ function'[k] = state
      /\ \A j \in Functions : j # k => function'[j] = function[j]
  BY <1>1, <1>2 DEF PipeShape, Becomes
<1>5. PipeShape' BY <1>1, <1>4 DEF PipeShape
<1>6. LineShape' BY <1>1, <1>3, <1>4 DEF LineShape
<1>7. Drying'
  <2> SUFFICES ASSUME NEW l \in Functions, function'[l] \in {"returned", "ended"}
               PROVE  /\ line[l] = 0 /\ LinesBefore(l) = <<>>
                      /\ \A j \in 1 .. l - 1 : function'[j] = "ended" /\ line[j] = 0 /\ LinesBefore(j) = <<>>
    <3>1. \A j \in Functions : (LinesBefore(j))' = LinesBefore(j) /\ line'[j] = line[j] BY <1>3
    <3>2. ASSUME NEW l \in Functions, NEW j \in 1 .. l - 1 PROVE j \in Functions
      BY <1>2 DEF Functions
    <3> QED BY <1>3, <3>1, <3>2 DEF Drying
  <2>1. \A j \in 1 .. l - 1 : j \in Functions /\ j < l BY <1>2 DEF Functions
  <2>2. CASE l = k
    <3>1. \A j \in 1 .. k - 1 : function'[j] = function[j] BY <1>2, <1>4, <2>1, <2>2 DEF Functions
    <3> QED BY <1>4, <2>2, <3>1
  <2>3. CASE l # k
    <3>1. function[l] \in {"returned", "ended"} BY <1>4, <2>3
    <3>2. ~ (k \in 1 .. l - 1) BY <1>1, <3>1 DEF Drying
    <3>3. \A j \in 1 .. l - 1 : function'[j] = function[j] BY <1>4, <2>1, <3>2
    <3> QED BY <1>1, <3>1, <3>3 DEF Drying
  <2> QED BY <2>2, <2>3
<1>8. AllThere' BY <1>1, <1>3, <1>5, SameIsThere
<1>9. maker' \in {"leaving", "left"} => function'[functions'] = "ended"
  <2>1. functions \in Functions BY <1>2 DEF Functions
  <2> QED BY <1>4, <2>1 DEF PipeInv
<1> QED BY <1>5, <1>6, <1>7, <1>8, <1>9 DEF PipeInv

LEMMA FunctionLaunched ==
  ASSUME PipeInv, NEW k \in Functions, LaunchNext(k)
  PROVE  PipeInv'
<1>1. PICK state \in {"posted", "running"} : Becomes(k, state) BY DEF LaunchNext, PostFunctionOn
<1>2. state \in FunctionStates /\ state # "ended" /\ state # "returned" /\ function[k] = "new" BY <1>1 DEF FunctionStates, LaunchNext
<1>3. line[k] = 0 BY <1>2 DEF PipeInv, LineShape
<1>4. maker' = maker /\ stops' = stops /\ UNCHANGED <<functions, unread, line, between, written, filtered>>
  BY DEF LaunchNext
<1> QED BY <1>1, <1>2, <1>3, <1>4, FunctionMoves

LEMMA RunsKeep ==
  ASSUME PipeInv, NEW k \in Functions, RunPosted(k)
  PROVE  PipeInv'
<1>1. "running" \in FunctionStates /\ function[k] = "posted" /\ Becomes(k, "running")
  BY DEF FunctionStates, RunPosted
<1>2. maker' = maker /\ stops' = stops /\ UNCHANGED <<functions, unread, line, between, written, filtered>>
  BY DEF RunPosted
<1> QED BY <1>1, <1>2, FunctionMoves

LEMMA StopsKeep ==
  ASSUME PipeInv, NEW k \in Functions, StopQueue(k)
  PROVE  PipeInv'
<1>1. "ended" \in FunctionStates /\ function[k] = "returned" /\ Becomes(k, "ended")
  BY DEF FunctionStates, StopQueue
<1>2. /\ maker' = maker /\ stops' = stops \cup {k}
      /\ UNCHANGED <<functions, unread, line, between, written, filtered>>
  BY DEF StopQueue
<1>3. /\ line[k] = 0 /\ LinesBefore(k) = <<>>
      /\ \A j \in 1 .. k - 1 : function[j] = "ended" /\ line[j] = 0 /\ LinesBefore(j) = <<>>
  BY <1>1 DEF PipeInv, Drying
<1> QED BY <1>1, <1>2, <1>3, FunctionMoves

\* Neither the functions nor the lines: the thread that main makes, and main.
LEMMA MainKeeps ==
  ASSUME PipeInv, AddThread \/ AwaitFuture \/ JoinThreads \/ UNCHANGED pipeVars
  PROVE  PipeInv'
<1>1. UNCHANGED <<functions, function, unread, line, between, stops, written, filtered>>
  BY DEF AddThread, AwaitFuture, JoinThreads, pipeVars
<1>2. PipeShape /\ LineShape /\ Drying /\ AllThere BY DEF PipeInv
<1>3. /\ \A k \in 1 .. functions + 1 : AtFunction(k)' = AtFunction(k)
      /\ \A k \in Functions : LinesBefore(k)' = LinesBefore(k) /\ line'[k] = line[k]
      /\ Functions' = Functions
  BY <1>1, StaysAsItIs
<1>4. PipeShape' BY <1>1, <1>2 DEF PipeShape
<1>5. LineShape' BY <1>1, <1>2, <1>3 DEF LineShape
<1>6. Drying'
  <2>1. functions \in Nat BY <1>2, AtShape
  <2>2. ASSUME NEW l \in Functions, NEW j \in 1 .. l - 1 PROVE j \in Functions
    BY <2>1 DEF Functions
  <2> QED BY <1>1, <1>2, <1>3, <2>2 DEF Drying
<1>7. AllThere' BY <1>1, <1>2, <1>3, <1>4, SameIsThere
<1>8. maker' \in {"leaving", "left"} => function'[functions'] = "ended"
  BY <1>1 DEF PipeInv, AddThread, AwaitFuture, JoinThreads, pipeVars
<1> QED BY <1>4, <1>5, <1>6, <1>7, <1>8 DEF PipeInv

\* What a function that runs has done to the lines in front of it and behind it.
LEMMA LinesMove ==
  ASSUME PipeInv, NEW k \in Functions, function[k] = "running", PipeShape', AllThere',
         UNCHANGED <<functions, function, stops, maker>>,
         k = 1 => line'[1] = 0,
         \A j \in Functions : j # k => line'[j] = line[j],
         \A j \in Functions : j # k /\ j # k + 1 => LinesBefore(j)' = LinesBefore(j)
  PROVE  PipeInv'
<1>1. PipeShape /\ LineShape /\ Drying BY DEF PipeInv
<1>2. functions \in Nat /\ functions >= 2 /\ Functions' = Functions /\ 1 \in Functions /\ k \in Nat
  BY <1>1, AtShape DEF Functions
<1>3. LineShape' BY <1>1, <1>2 DEF LineShape
<1>4. Drying'
  <2> SUFFICES ASSUME NEW l \in Functions, function[l] \in {"returned", "ended"}
               PROVE  /\ line'[l] = 0 /\ LinesBefore(l)' = <<>>
                      /\ \A j \in 1 .. l - 1 :
                           function[j] = "ended" /\ line'[j] = 0 /\ LinesBefore(j)' = <<>>
    BY <1>2 DEF Drying
  <2>1. \A j \in 1 .. l - 1 : j \in Functions /\ j < l BY <1>2 DEF Functions
  <2>2. l < k
    <3>1. ~ (k \in 1 .. l - 1) /\ k # l BY <1>1 DEF Drying
    <3> QED BY <1>2, <3>1 DEF Functions
  <2>3. \A j \in 1 .. l : j \in Functions /\ j # k /\ j # k + 1 BY <1>2, <2>2 DEF Functions
  <2>4. l \in 1 .. l /\ \A j \in 1 .. l - 1 : j \in 1 .. l BY <1>2 DEF Functions
  <2> QED BY <1>1, <2>3, <2>4 DEF Drying
<1>5. maker' \in {"leaving", "left"} => function'[functions'] = "ended" BY DEF PipeInv
<1> QED BY <1>3, <1>4, <1>5 DEF PipeInv

\* A line put into the queue behind function k is at the end of what is at the next.
LEMMA PushedBehind ==
  ASSUME PipeShape, NEW k \in Functions, k < functions, NEW x \in 1 .. Lines, PushLine(k, x),
         UNCHANGED <<functions, written>>, \A j \in Functions : j # k => line'[j] = line[j],
         k # 1 => unread' = unread
  PROVE  /\ between' \in [1 .. MaxFunctions -> Seq(1 .. Lines)]
         /\ AtFunction(k + 1)' = Append(AtFunction(k + 1), x)
         /\ k # 1 => LinesBefore(k)' = LinesBefore(k)
         /\ \A j \in Functions : j # k /\ j # k + 1 => LinesBefore(j)' = LinesBefore(j)
         /\ \A j \in 1 .. functions + 1 : j # k /\ j # k + 1 => AtFunction(j)' = AtFunction(j)
<1>1. /\ functions \in Nat /\ k \in Nat /\ k + 1 \in Functions /\ k \in 1 .. MaxFunctions
      /\ functions <= MaxFunctions /\ MaxFunctions \in Nat
  BY AtShape DEF Functions
<1>2. between' = [between EXCEPT ![k] = Append(between[k], x)] BY DEF PushLine
<1>3. between \in [1 .. MaxFunctions -> Seq(1 .. Lines)] /\ between[k] \in Seq(1 .. Lines)
  BY <1>1 DEF PipeShape
<1>4. Append(between[k], x) \in Seq(1 .. Lines) BY <1>3, AppendProperties
<1>5. /\ between' \in [1 .. MaxFunctions -> Seq(1 .. Lines)] /\ between'[k] = Append(between[k], x)
      /\ \A j \in 1 .. MaxFunctions : j # k => between'[j] = between[j]
  BY <1>1, <1>2, <1>3, <1>4
<1>6. ASSUME NEW j \in Functions, j # k + 1, j = 1 => unread' = unread PROVE LinesBefore(j)' = LinesBefore(j)
  <2>1. CASE j = 1 BY <1>6, <2>1 DEF LinesBefore
  <2>2. CASE j # 1
    <3>1. j - 1 \in 1 .. MaxFunctions /\ j - 1 # k BY <1>1, <1>6, <2>2 DEF Functions
    <3>2. between'[j - 1] = between[j - 1] BY <1>5, <3>1
    <3> QED BY <2>2, <3>2 DEF LinesBefore
  <2> QED BY <2>1, <2>2
<1>7. \A j \in Functions : j # k /\ j # k + 1 => LinesBefore(j)' = LinesBefore(j)
  <2> SUFFICES ASSUME NEW j \in Functions, j # k, j # k + 1 PROVE LinesBefore(j)' = LinesBefore(j) OBVIOUS
  <2>1. CASE j = 1
    <3>1. unread' = unread BY <2>1
    <3> QED BY <1>6, <3>1
  <2>2. CASE j # 1 BY <1>6, <2>2
  <2> QED BY <2>1, <2>2
<1>8. k # 1 => LinesBefore(k)' = LinesBefore(k)
  <2>1. k # k + 1 BY <1>1
  <2> QED BY <1>6, <2>1
<1>9. \A j \in 1 .. functions + 1 : j # k /\ j # k + 1 => AtFunction(j)' = AtFunction(j)
  <2> SUFFICES ASSUME NEW j \in 1 .. functions + 1, j # k, j # k + 1
               PROVE  AtFunction(j)' = AtFunction(j)
    OBVIOUS
  <2>1. CASE j > functions BY <2>1 DEF AtFunction
  <2>2. CASE ~ (j > functions)
    <3>1. j \in Functions BY <1>1, <2>2 DEF Functions
    <3>2. LinesBefore(j)' = LinesBefore(j) /\ line'[j] = line[j] BY <1>7, <3>1
    <3> QED BY <2>2, <3>2 DEF AtFunction, LinesBefore
  <2> QED BY <2>1, <2>2
<1>10. AtFunction(k + 1)' = Append(AtFunction(k + 1), x)
  <2> DEFINE held == IF line[k + 1] = 0 THEN <<>> ELSE <<line[k + 1]>>
  <2>1. k + 1 # 1 /\ ~ (k + 1 > functions) /\ (k + 1) - 1 = k /\ line'[k + 1] = line[k + 1]
    BY <1>1 DEF Functions
  <2>2. AtFunction(k + 1) = held \o between[k] /\ AtFunction(k + 1)' = held \o between'[k]
    BY <2>1 DEF AtFunction
  <2>3. held \in Seq(1 .. Lines)
    <3>1. line[k + 1] \in 0 .. Lines BY <1>1, AtShape DEF PipeShape
    <3>2. <<>> \in Seq(1 .. Lines) /\ \A y \in 1 .. Lines : <<y>> \in Seq(1 .. Lines) BY EmptySeq
    <3>3. CASE line[k + 1] = 0 BY <3>2, <3>3
    <3>4. CASE line[k + 1] # 0
      <4>1. line[k + 1] \in 1 .. Lines BY <3>1, <3>4
      <4> QED BY <3>2, <3>4, <4>1
    <3> QED BY <3>3, <3>4
  <2> HIDE DEF held
  <2>4. <<x>> \in Seq(1 .. Lines) OBVIOUS
  <2>5. between'[k] = between[k] \o <<x>> BY <1>3, <1>5, AppendIsConcat
  <2>6. held \o between[k] \in Seq(1 .. Lines) BY <1>3, <2>3, ConcatProperties
  <2>7. Append(held \o between[k], x) = (held \o between[k]) \o <<x>> BY <2>6, AppendIsConcat
  <2>8. (held \o between[k]) \o <<x>> = held \o (between[k] \o <<x>>)
    <3>1. held \in Seq(1 .. Lines) /\ between[k] \in Seq(1 .. Lines) /\ <<x>> \in Seq(1 .. Lines)
      BY <1>3, <2>3, <2>4
    <3> DEFINE b == between[k]
               e == <<x>>
    <3> HIDE DEF b, e
    <3>2. held \in Seq(1 .. Lines) /\ b \in Seq(1 .. Lines) /\ e \in Seq(1 .. Lines) BY <3>1 DEF b, e
    <3>3. (held \o b) \o e = held \o (b \o e) BY <3>2, ConcatAssociative
    <3> QED BY <3>3 DEF b, e
  <2> QED BY <2>2, <2>5, <2>7, <2>8
<1> QED BY <1>5, <1>7, <1>8, <1>9, <1>10

LEMMA ReaderKeeps ==
  ASSUME PipeInv, Reader
  PROVE  PipeInv'
<1>1. PipeShape /\ LineShape /\ Drying /\ AllThere BY DEF PipeInv
<1>2. functions \in Nat /\ functions >= 2 /\ 1 \in Functions /\ 1 < functions BY <1>1, AtShape DEF Functions
<1>3. /\ function[1] = "running" /\ line[1] = 0 /\ LinesBefore(1) = unread /\ AtFunction(1) = unread
      /\ UNCHANGED <<functions, line, stops, made, written, filtered, maker>>
  BY <1>1, <1>2, AtShape DEF Reader, LineShape, LinesBefore
<1>4. CASE unread = <<>>
  <2>1. /\ "returned" \in FunctionStates /\ Becomes(1, "returned") /\ stops' = stops
        /\ UNCHANGED <<functions, unread, line, between, written, filtered>>
        /\ maker' = maker
    BY <1>4 DEF Reader, FunctionStates
  <2>2. \A j \in 1 .. 1 - 1 : function[j] = "ended" /\ line[j] = 0 /\ LinesBefore(j) = <<>> OBVIOUS
  <2> QED BY <1>2, <1>3, <1>4, <2>1, <2>2, FunctionMoves
<1>5. CASE unread # <<>>
  <2>1. PushLine(1, Head(unread)) /\ unread' = Tail(unread) /\ function' = function BY <1>5 DEF Reader
  <2>2. unread \in Seq(1 .. Lines) BY <1>1 DEF PipeShape
  <2>3. Head(unread) \in 1 .. Lines /\ unread' \in Seq(1 .. Lines)
    BY <1>5, <2>1, <2>2, HeadTailProperties
  <2>4. /\ between' \in [1 .. MaxFunctions -> Seq(1 .. Lines)]
        /\ AtFunction(1 + 1)' = Append(AtFunction(1 + 1), Head(unread))
        /\ \A j \in Functions : j # 1 /\ j # 1 + 1 => LinesBefore(j)' = LinesBefore(j)
        /\ \A j \in 1 .. functions + 1 : j # 1 /\ j # 1 + 1 => AtFunction(j)' = AtFunction(j)
    BY <1>1, <1>2, <1>3, <2>1, <2>3, PushedBehind
  <2>5. PipeShape' BY <1>1, <1>3, <2>1, <2>3, <2>4 DEF PipeShape
  <2>6. AtFunction(1)' = Tail(AtFunction(1))
    <3>1. AtFunction(1)' = (IF line'[1] = 0 THEN <<>> ELSE <<line'[1]>>) \o unread'
      BY <1>2, <1>3 DEF AtFunction
    <3>2. <<>> \o unread' = unread' BY <2>3, ConcatEmptySeq
    <3> QED BY <1>3, <2>1, <3>1, <3>2
  <2>7. AllThere' BY <1>1, <1>2, <1>3, <1>5, <2>4, <2>5, <2>6, MovedIsThere
  <2> QED BY <1>2, <1>3, <2>1, <2>4, <2>5, <2>7, LinesMove
<1> QED BY <1>4, <1>5

LEMMA WriterKeeps ==
  ASSUME PipeInv, Writer
  PROVE  PipeInv'
<1>1. PipeShape /\ LineShape /\ Drying /\ AllThere BY DEF PipeInv
<1>0. PICK k \in Functions : k = functions BY <1>1, AtShape DEF Functions
<1>2. /\ functions \in Nat /\ functions >= 2 /\ k \in Functions /\ k # 1 /\ functions <= MaxFunctions
      /\ MaxFunctions \in Nat /\ Functions' = Functions /\ k \in 1 .. MaxFunctions
  BY <1>1, <1>0, AtShape DEF Functions, Writer
<1>3. /\ line[k] # 0 /\ written' = Append(written, line[k]) /\ line' = [line EXCEPT ![k] = 0]
      /\ UNCHANGED <<functions, function, unread, between, stops, filtered, maker>>
  BY <1>0 DEF Writer
<1>4. function[k] = "running" BY <1>1, <1>2, <1>3 DEF LineShape
<1>5. /\ line[k] \in 1 .. Lines /\ AtFunction(k) # <<>> /\ Head(AtFunction(k)) = line[k]
      /\ Tail(AtFunction(k)) = LinesBefore(k) /\ AtFunction(k + 1) = written /\ LinesBefore(k) \in Seq(1 .. Lines)
  BY <1>1, <1>2, <1>3, <1>0, AtShape
<1>6. line' \in [1 .. MaxFunctions -> 0 .. Lines] /\ line'[k] = 0
      /\ \A j \in Functions : j # k => line'[j] = line[j]
  BY <1>1, <1>2, <1>3, PipelineAssumption DEF PipeShape, Functions
<1>7. \A j \in Functions : LinesBefore(j)' = LinesBefore(j) BY <1>3 DEF LinesBefore
<1>8. PipeShape'
  <2>1. written' \in Seq(1 .. Lines) BY <1>1, <1>3, <1>5, AppendProperties DEF PipeShape
  <2> QED BY <1>1, <1>3, <1>6, <2>1 DEF PipeShape
<1>9. AtFunction(k)' = Tail(AtFunction(k))
  <2>1. AtFunction(k)' = <<>> \o LinesBefore(k)' 
    <3>1. ~ (k > functions') BY <1>2, <1>3, <1>0
    <3> QED BY <1>3, <1>6, <3>1 DEF AtFunction, LinesBefore
  <2>2. <<>> \o LinesBefore(k) = LinesBefore(k) BY <1>5, ConcatEmptySeq, Zenon
  <2> QED BY <1>2, <1>5, <1>7, <2>1, <2>2
<1>10. AtFunction(k + 1)' = Append(AtFunction(k + 1), Head(AtFunction(k)))
  <2>1. k + 1 > functions BY <1>2, <1>0
  <2> QED BY <1>3, <1>5, <2>1 DEF AtFunction
<1>11. \A j \in 1 .. functions + 1 : j # k /\ j # k + 1 => AtFunction(j)' = AtFunction(j)
  <2> SUFFICES ASSUME NEW j \in 1 .. functions + 1, j # k, j # k + 1
               PROVE  AtFunction(j)' = AtFunction(j)
    OBVIOUS
  <2>1. j \in Functions /\ ~ (j > functions) BY <1>2, <1>0 DEF Functions
  <2>2. LinesBefore(j)' = LinesBefore(j) /\ line'[j] = line[j] BY <1>6, <1>7, <2>1
  <2>3. functions' = functions BY <1>3
  <2> QED BY <2>1, <2>2, <2>3 DEF AtFunction, LinesBefore
<1> QED BY <1>1, <1>2, <1>3, <1>4, <1>5, <1>6, <1>7, <1>8, <1>9, <1>10, <1>11, MovedIsThere, LinesMove

LEMMA FilterKeeps ==
  ASSUME PipeInv, NEW k \in Functions, Filter(k)
  PROVE  PipeInv'
<1>1. PipeShape /\ LineShape /\ Drying /\ AllThere BY DEF PipeInv
<1>2. /\ functions \in Nat /\ functions >= 2 /\ k # 1 /\ functions <= MaxFunctions
      /\ MaxFunctions \in Nat /\ Functions' = Functions /\ k \in 1 .. MaxFunctions /\ k < functions
  BY <1>1, AtShape DEF Functions, Filter
<1>3. /\ line[k] # 0 /\ line' = [line EXCEPT ![k] = 0]
      /\ UNCHANGED <<functions, function, unread, stops, written, maker>>
  BY DEF Filter
<1>4. function[k] = "running" BY <1>1, <1>3 DEF LineShape
<1>5. /\ line[k] \in 1 .. Lines /\ AtFunction(k) # <<>> /\ Head(AtFunction(k)) = line[k]
      /\ Tail(AtFunction(k)) = LinesBefore(k) /\ LinesBefore(k) \in Seq(1 .. Lines)
  BY <1>1, <1>3, AtShape
<1>6. /\ line' \in [1 .. MaxFunctions -> 0 .. Lines] /\ line'[k] = 0
      /\ \A j \in Functions : j # k => line'[j] = line[j]
  BY <1>1, <1>2, <1>3, PipelineAssumption DEF PipeShape, Functions
<1>7. AtFunction(k)' = <<>> \o LinesBefore(k)'
  <2>1. ~ (k > functions') BY <1>2, <1>3
  <2> QED BY <1>6, <2>1 DEF AtFunction, LinesBefore
<1>8. CASE PushLine(k, line[k]) /\ UNCHANGED filtered
  <2>1. /\ between' \in [1 .. MaxFunctions -> Seq(1 .. Lines)]
        /\ AtFunction(k + 1)' = Append(AtFunction(k + 1), line[k])
        /\ LinesBefore(k)' = LinesBefore(k)
        /\ \A j \in Functions : j # k /\ j # k + 1 => LinesBefore(j)' = LinesBefore(j)
        /\ \A j \in 1 .. functions + 1 : j # k /\ j # k + 1 => AtFunction(j)' = AtFunction(j)
    BY <1>1, <1>2, <1>3, <1>5, <1>6, <1>8, PushedBehind
  <2>2. PipeShape' BY <1>1, <1>3, <1>6, <1>8, <2>1 DEF PipeShape
  <2>3. AtFunction(k)' = Tail(AtFunction(k)) BY <1>5, <1>7, <2>1, ConcatEmptySeq
  <2>4. AllThere' BY <1>1, <1>3, <1>5, <1>8, <2>1, <2>2, <2>3, MovedIsThere
  <2> QED BY <1>2, <1>3, <1>4, <1>6, <2>1, <2>2, <2>4, LinesMove
<1>9. CASE filtered' = filtered \cup {line[k]} /\ UNCHANGED <<between, popping>>
  <2>1. \A j \in Functions : LinesBefore(j)' = LinesBefore(j) BY <1>3, <1>9 DEF LinesBefore
  <2>2. PipeShape' BY <1>1, <1>3, <1>5, <1>6, <1>9 DEF PipeShape
  <2>3. AtFunction(k)' = Tail(AtFunction(k)) BY <1>5, <1>7, <2>1, ConcatEmptySeq
  <2>4. \A j \in 1 .. functions + 1 : j # k => AtFunction(j)' = AtFunction(j)
    <3> SUFFICES ASSUME NEW j \in 1 .. functions + 1, j # k PROVE AtFunction(j)' = AtFunction(j) OBVIOUS
    <3>1. CASE j > functions BY <1>3, <3>1 DEF AtFunction
    <3>2. CASE ~ (j > functions)
      <4>1. j \in Functions BY <1>2, <3>2 DEF Functions
      <4>2. LinesBefore(j)' = LinesBefore(j) /\ line'[j] = line[j] BY <1>6, <2>1, <4>1
      <4>3. functions' = functions BY <1>3
      <4> QED BY <3>2, <4>2, <4>3 DEF AtFunction, LinesBefore
    <3> QED BY <3>1, <3>2
  <2>5. AllThere' BY <1>1, <1>3, <1>9, <2>2, <2>3, <2>4, TakenIsThere
  <2> QED BY <1>2, <1>3, <1>4, <1>6, <2>1, <2>2, <2>5, LinesMove
<1> QED BY <1>8, <1>9 DEF Filter

LEMMA PopsKeep ==
  ASSUME PipeInv, NEW k \in Functions, Pop(k)
  PROVE  PipeInv'
<1>1. PipeShape /\ LineShape /\ Drying /\ AllThere BY DEF PipeInv
<1>2. /\ functions \in Nat /\ k \in Nat /\ k > 1 /\ functions <= MaxFunctions /\ MaxFunctions \in Nat
      /\ k \in 1 .. MaxFunctions /\ k - 1 \in Functions /\ k - 1 \in 1 .. MaxFunctions
      /\ Functions' = Functions
  BY <1>1, AtShape DEF Functions, Pop
<1>3. /\ function[k] = "running" /\ line[k] = 0
      /\ UNCHANGED <<functions, unread, stops, written, filtered, maker>>
  BY DEF Pop
<1>4. LinesBefore(k) = between[k - 1] /\ AtFunction(k) = between[k - 1] /\ between[k - 1] \in Seq(1 .. Lines)
  <2>1. k # 1 BY <1>2
  <2>2. LinesBefore(k) = between[k - 1] BY <2>1 DEF LinesBefore
  <2>3. AtFunction(k) = LinesBefore(k) BY <1>1, <1>3, AtShape
  <2> QED BY <1>1, <1>2, <2>2, <2>3 DEF PipeShape
<1>5. CASE NoMore(k - 1) /\ Becomes(k, "returned") /\ UNCHANGED <<line, between, popping>>
  <2>1. LinesBefore(k) = <<>> /\ k - 1 \in stops BY <1>4, <1>5 DEF NoMore
  <2>2. function[k - 1] = "ended" BY <1>1, <1>2, <2>1 DEF LineShape
  <2>3. \A j \in 1 .. k - 1 : function[j] = "ended" /\ line[j] = 0 /\ LinesBefore(j) = <<>>
    <3>1. \A j \in 1 .. k - 1 : j = k - 1 \/ j \in 1 .. (k - 1) - 1 BY <1>2
    <3> QED BY <1>1, <1>2, <2>2, <3>1 DEF Drying
  <2>4. "returned" \in FunctionStates /\ stops' = stops /\ maker' = maker BY <1>3 DEF FunctionStates
  <2> QED BY <1>3, <1>5, <2>1, <2>3, <2>4, FunctionMoves
<1>6. CASE /\ between[k - 1] # <<>> /\ UNCHANGED <<function, popping>>
           /\ line' = [line EXCEPT ![k] = Head(between[k - 1])]
           /\ between' = [between EXCEPT ![k - 1] = Tail(@)]
  <2> DEFINE q == between[k - 1]
  <2>1. Head(q) \in 1 .. Lines /\ Tail(q) \in Seq(1 .. Lines) /\ q = <<Head(q)>> \o Tail(q)
    <3>1. q \in Seq(1 .. Lines) /\ q # <<>> BY <1>4, <1>6
    <3> HIDE DEF q
    <3> QED BY <3>1, HeadAndTail
  <2>2. /\ line' \in [1 .. MaxFunctions -> 0 .. Lines] /\ line'[k] = Head(q)
        /\ \A j \in 1 .. MaxFunctions : j # k => line'[j] = line[j]
    BY <1>1, <1>2, <1>6, <2>1 DEF PipeShape
  <2>3. /\ between' \in [1 .. MaxFunctions -> Seq(1 .. Lines)] /\ between'[k - 1] = Tail(q)
        /\ \A j \in 1 .. MaxFunctions : j # k - 1 => between'[j] = between[j]
    BY <1>1, <1>2, <1>6, <2>1 DEF PipeShape
  <2>4. PipeShape' BY <1>1, <1>3, <1>6, <2>2, <2>3 DEF PipeShape
  <2>5. \A j \in Functions : j # k => LinesBefore(j)' = LinesBefore(j) /\ line'[j] = line[j]
    <3> SUFFICES ASSUME NEW j \in Functions, j # k PROVE LinesBefore(j)' = LinesBefore(j) /\ line'[j] = line[j]
      OBVIOUS
    <3>1. j \in 1 .. MaxFunctions BY <1>2 DEF Functions
    <3>2. CASE j = 1 BY <1>3, <2>2, <3>1, <3>2 DEF LinesBefore
    <3>3. CASE j # 1
      <4>1. j - 1 \in 1 .. MaxFunctions /\ j - 1 # k - 1 BY <1>2, <3>3 DEF Functions
      <4> QED BY <2>2, <2>3, <3>1, <3>3, <4>1 DEF LinesBefore
    <3> QED BY <3>2, <3>3
  <2>6. AtFunction(k)' = AtFunction(k)
    <3>1. /\ ~ (k > functions') /\ k # 1 /\ line'[k] # 0 BY <1>2, <1>3, <2>1, <2>2 DEF Functions
    <3>2. AtFunction(k)' = <<Head(q)>> \o Tail(q) BY <2>2, <2>3, <3>1 DEF AtFunction
    <3> QED BY <1>4, <2>1, <3>2
  <2>7. \A j \in 1 .. functions + 1 : AtFunction(j)' = AtFunction(j)
    <3> SUFFICES ASSUME NEW j \in 1 .. functions + 1, j # k PROVE AtFunction(j)' = AtFunction(j)
      BY <2>6
    <3>1. CASE j > functions BY <1>3, <3>1 DEF AtFunction
    <3>2. CASE ~ (j > functions)
      <4>1. j \in Functions BY <1>2, <3>2 DEF Functions
      <4>2. LinesBefore(j)' = LinesBefore(j) /\ line'[j] = line[j] BY <2>5, <4>1
      <4> QED BY <1>3, <3>2, <4>2 DEF AtFunction, LinesBefore
    <3> QED BY <3>1, <3>2
  <2>8. AllThere' BY <1>1, <1>3, <2>4, <2>7, SameIsThere
  <2> QED BY <1>2, <1>3, <1>6, <2>4, <2>5, <2>8, LinesMove
<1>7. CASE UNCHANGED <<function, line, between>>
  <2>1. /\ \A j \in 1 .. functions + 1 : AtFunction(j)' = AtFunction(j)
        /\ \A j \in Functions : LinesBefore(j)' = LinesBefore(j) /\ line'[j] = line[j]
    BY <1>3, <1>7, StaysAsItIs
  <2>2. PipeShape' BY <1>1, <1>3, <1>7 DEF PipeShape
  <2>3. AllThere' BY <1>1, <1>3, <2>1, <2>2, SameIsThere
  <2> QED BY <1>2, <1>3, <1>7, <2>1, <2>2, <2>3, LinesMove
<1> QED BY <1>5, <1>6, <1>7 DEF Pop

LEMMA PipeStepKeeps == PipeInv /\ [PipeNext]_pipeVars => PipeInv'
<1> SUFFICES ASSUME PipeInv, [PipeNext]_pipeVars PROVE PipeInv' OBVIOUS
<1>1. 1 \in Functions /\ functions \in Functions BY AtShape DEF PipeInv, Functions
<1>2. CASE AddThread \/ AwaitFuture \/ JoinThreads \/ UNCHANGED pipeVars BY <1>2, MainKeeps
<1>3. CASE LaunchFirst \/ LaunchLast BY <1>1, <1>3, FunctionLaunched DEF LaunchFirst, LaunchLast
<1>4. ASSUME NEW k \in Functions, LaunchBetween(k) PROVE PipeInv'
  BY <1>4, FunctionLaunched DEF LaunchBetween
<1> QED BY <1>2, <1>3, <1>4, ReaderKeeps, WriterKeeps, PopsKeep, RunsKeep, FilterKeeps, StopsKeep
  DEF PipeNext

\* Every line that was read, and that no function kept, is written or on its way
\* to the writer, once and in the order of the input, whatever the number of
\* functions and of lines and whichever of them run on a pool, and nothing is on
\* its way any more when the future is ready (pipeline.cpp:42, 74-75, 161-173).
THEOREM LinesStayInOrder == PipeSpec => []LinesInOrder
<1>1. PipeSpec => []PipeInv BY PipeStarts, PipeStepKeeps, PTL DEF PipeSpec
<1> QED BY <1>1, PipeInvImplies, PTL

\* What is stopped, waits or is in the bag is a function, and so is the one whose
\* thread is not in it yet.
OfFunctions ==
  /\ stops \subseteq Functions /\ popping \subseteq Functions /\ bag \subseteq Functions
  /\ made \in 0 .. functions /\ maker \in {"launching", "waiting", "leaving", "left"}

LEMMA OfFunctionsKept ==
  ASSUME PipeInv, OfFunctions, [PipeNext]_pipeVars
  PROVE  OfFunctions'
<1>0. functions \in Nat /\ functions >= 2 BY DEF PipeInv, PipeShape
<1>1. functions' = functions
  BY DEF PipeNext, pipeVars, AddThread, AwaitFuture, JoinThreads, Reader, Writer, LaunchFirst, LaunchLast,
     LaunchBetween, LaunchNext, Pop, RunPosted, Filter, StopQueue
<1>2. Functions' = Functions BY <1>1 DEF Functions
<1>3. ASSUME UNCHANGED <<stops, bag, made, maker>>, popping' \subseteq popping PROVE OfFunctions'
  BY <1>1, <1>2, <1>3 DEF OfFunctions
<1>4. CASE AddThread
  <2>1. made # 0 /\ bag' = bag \cup {made} /\ made' = 0 /\ UNCHANGED <<stops, popping, maker>>
    BY <1>4 DEF AddThread
  <2>2. made \in Functions BY <1>0, <2>1 DEF OfFunctions, Functions
  <2> QED BY <1>0, <1>1, <1>2, <2>1, <2>2 DEF OfFunctions
<1>5. CASE AwaitFuture \/ JoinThreads
  <2>1. UNCHANGED <<stops, popping, bag, made>> /\ maker' \in {"waiting", "leaving", "left"}
    BY <1>5 DEF AwaitFuture, JoinThreads
  <2> QED BY <1>1, <1>2, <2>1 DEF OfFunctions
<1>6. ASSUME NEW k \in Functions, LaunchNext(k) PROVE OfFunctions'
  <2>1. UNCHANGED <<stops, popping, bag, maker>> /\ made' \in {made, k}
    BY <1>6 DEF LaunchNext, PostFunctionOn
  <2>2. made' \in 0 .. functions BY <1>0, <2>1 DEF OfFunctions, Functions
  <2> QED BY <1>1, <1>2, <2>1, <2>2 DEF OfFunctions
<1>7. 1 \in Functions /\ functions \in Functions BY <1>0 DEF Functions
<1>8. CASE Reader \/ Writer BY <1>3, <1>8 DEF Reader, Writer, PushLine
<1>9. ASSUME NEW k \in Functions, RunPosted(k) \/ Filter(k) PROVE OfFunctions'
  BY <1>3, <1>9 DEF RunPosted, Filter, PushLine
<1>10. ASSUME NEW k \in Functions, Pop(k) PROVE OfFunctions'
  <2>1. UNCHANGED <<stops, bag, made, maker>> /\ popping' \subseteq popping \cup {k} BY <1>10 DEF Pop
  <2> QED BY <1>1, <1>2, <2>1 DEF OfFunctions
<1>11. ASSUME NEW k \in Functions, StopQueue(k) PROVE OfFunctions'
  <2>1. UNCHANGED <<bag, made, maker>> /\ popping' \subseteq popping /\ stops' = stops \cup {k}
    BY <1>11 DEF StopQueue
  <2> QED BY <1>1, <1>2, <2>1 DEF OfFunctions
<1>12. CASE UNCHANGED pipeVars BY <1>3, <1>12 DEF pipeVars
<1> QED BY <1>4, <1>5, <1>6, <1>7, <1>8, <1>9, <1>10, <1>11, <1>12
        DEF PipeNext, LaunchFirst, LaunchLast, LaunchBetween

LEMMA PipeTypes == PipeSpec => []PipeTypeOK
<1>1. PipeStart(2 .. MaxFunctions) => OfFunctions
  BY PipelineAssumption DEF PipeStart, OfFunctions, Functions
<1>2. PipeInv /\ OfFunctions /\ [PipeNext]_pipeVars => OfFunctions' BY OfFunctionsKept
<1>3. PipeInv /\ OfFunctions => PipeTypeOK
  <2> SUFFICES ASSUME PipeInv, OfFunctions PROVE PipeTypeOK OBVIOUS
  <2>1. made \in 0 .. MaxFunctions BY PipelineAssumption DEF PipeInv, PipeShape, OfFunctions
  <2> QED BY <2>1 DEF PipeInv, PipeShape, OfFunctions, PipeTypeOK, FunctionStates
<1> QED BY <1>1, <1>2, <1>3, PipeStarts, PipeStepKeeps, PTL DEF PipeSpec

----------------------------------------------------------------------------
(* actor: what is true of its ring.                                        *)

Mails ==
  [kind : {"int"}, value : Nat, from : Addresses] \cup [kind : {"address"}, value : Addresses, from : {Receiver}]

ActorShape ==
  /\ strands \in [Addresses -> Seq(Mails)] /\ handling \in [Addresses -> Mails \cup {Nothing}]
  /\ loop \in [Addresses -> [index : Nat, end : Nat]] /\ handlers \in [Addresses -> Seq(Handles)]
  /\ nextMember \in [Members -> Addresses] /\ caller \in [Members -> {Receiver}]
  /\ moved \subseteq Addresses /\ received \in Nat /\ sent \in 0 .. 2 * Ring /\ waits \in 0 .. Ring
  /\ destroyed \in BOOLEAN

Ints(a) == \A i \in 1 .. Len(strands[a]) : strands[a][i].kind = "int"
Fresh == <<"init_handler">>
BothHandlers == <<"init_handler", "token_handler">>

\* What main sends a member: its neighbour's address, and later a token.
Addressed(m) == sent > Ring - m
Given(m)     == sent >= Ring + m

Unaddressed(m) == ~Addressed(m) /\ strands[m] = <<>> /\ handling[m] = Nothing /\ handlers[m] = Fresh
Waiting(m) ==
  /\ Addressed(m) /\ handling[m] = Nothing /\ handlers[m] = Fresh
  /\ strands[m] # <<>> /\ strands[m][1].kind = "address"
  /\ \A i \in 2 .. Len(strands[m]) : strands[m][i].kind = "int"
  /\ Given(m) => Len(strands[m]) >= 2
Learning(m) ==
  /\ Addressed(m) /\ handling[m].kind = "address" /\ Ints(m)
  /\ Given(m) => strands[m] # <<>>
  /\ \/ handlers[m] = Fresh /\ loop[m] = [index |-> 1, end |-> 1]
     \/ handlers[m] = BothHandlers /\ loop[m] = [index |-> 2, end |-> 1]
Passing(m) ==
  /\ Addressed(m) /\ handlers[m] = BothHandlers /\ Ints(m)
  /\ \/ handling[m] = Nothing
     \/ handling[m].kind = "int" /\ loop[m].end = 2 /\ loop[m].index \in 1 .. 3

MemberKept(m) == Unaddressed(m) \/ Waiting(m) \/ Learning(m) \/ Passing(m)
ReceiverKept ==
  /\ handlers[Receiver] = <<"message_handler">> /\ Ints(Receiver)
  /\ \/ handling[Receiver] = Nothing
     \/ handling[Receiver].kind = "int" /\ loop[Receiver].end = 1 /\ loop[Receiver].index \in 1 .. 2

Sum == Cardinality(TokensIn(strands)) + Cardinality(AtHand) + received + waits = (IF sent < Ring THEN 0 ELSE sent - Ring)

ActorInv ==
  /\ ActorShape /\ IsFiniteSet(TokensIn(strands)) /\ Sum /\ wild = FALSE
  /\ (\A m \in Members : MemberKept(m)) /\ ReceiverKept
  /\ \A a \in moved : handling[a] = Nothing \/ loop[a].index > loop[a].end
  /\ waits > 0 => sent = 2 * Ring
  /\ destroyed => waits = Ring

----------------------------------------------------------------------------
(* Counting tokens.                                                        *)

LEMMA MailsAre ==
  /\ \A mail \in Mails : mail.kind \in {"int", "address"} /\ mail # Nothing
  /\ \A mail \in Mails : mail.kind = "address" => mail.value \in Addresses /\ mail.from = Receiver
  /\ \A mail \in Mails : mail.kind = "int" => mail.value \in Nat
  /\ \A n \in Nat, a \in Addresses : [kind |-> "int", value |-> n, from |-> a] \in Mails
  /\ \A a \in Addresses : [kind |-> "address", value |-> a, from |-> Receiver] \in Mails
  /\ Nothing.kind = "none"
BY DEF Mails, Nothing

LEMMA AddressesAre ==
  /\ Ring \in Nat /\ Members = 1 .. Ring /\ Receiver = 0 /\ Receiver \notin Members
  /\ Addresses = 0 .. Ring /\ IsFiniteSet(Addresses)
<1>1. Addresses = 0 .. Ring BY ActorsAssumption DEF Addresses, Members, Receiver
<1>2. IsFiniteSet(0 .. Ring) BY ActorsAssumption, FS_Interval
<1> QED BY <1>1, <1>2, ActorsAssumption DEF Members, Receiver

LEMMA TokensAre ==
  ASSUME NEW q \in [Addresses -> Seq(Mails)]
  PROVE  /\ \A a \in Addresses : \A i \in 1 .. Len(q[a]) : q[a][i].kind = "int" => <<a, i>> \in TokensIn(q)
         /\ \A p \in TokensIn(q) : /\ p = <<p[1], p[2]>> /\ p[1] \in Addresses /\ p[2] \in 1 .. Len(q[p[1]])
                                   /\ q[p[1]][p[2]].kind = "int"
<1>1. ASSUME NEW a \in Addresses, NEW i \in 1 .. Len(q[a]), q[a][i].kind = "int"
      PROVE  <<a, i>> \in TokensIn(q)
  <2>1. <<a, i>> \in {a} \X (1 .. Len(q[a])) OBVIOUS
  <2>2. <<a, i>> \in UNION {{b} \X (1 .. Len(q[b])) : b \in Addresses} BY <2>1
  <2> QED BY <1>1, <2>2 DEF TokensIn
<1>2. ASSUME NEW p \in TokensIn(q)
      PROVE  /\ p = <<p[1], p[2]>> /\ p[1] \in Addresses /\ p[2] \in 1 .. Len(q[p[1]])
             /\ q[p[1]][p[2]].kind = "int"
  <2>1. p \in UNION {{b} \X (1 .. Len(q[b])) : b \in Addresses} /\ q[p[1]][p[2]].kind = "int"
    BY DEF TokensIn
  <2>2. PICK b \in Addresses : p \in {b} \X (1 .. Len(q[b])) BY <2>1
  <2> QED BY <2>1, <2>2
<1> QED BY <1>1, <1>2

\* A message that is put at the end of a strand's queue.
PutInto(q, r, to, mail) ==
  /\ r \in [Addresses -> Seq(Mails)]
  /\ \A b \in Addresses : b # to => r[b] = q[b]
  /\ r[to] = Append(q[to], mail) /\ Len(r[to]) = Len(q[to]) + 1 /\ r[to][Len(q[to]) + 1] = mail
  /\ \A i \in 1 .. Len(q[to]) : r[to][i] = q[to][i]
  /\ IsFiniteSet(TokensIn(r))
  /\ Cardinality(TokensIn(r)) = Cardinality(TokensIn(q)) + (IF mail.kind = "int" THEN 1 ELSE 0)
LEMMA AppendCounts ==
  ASSUME NEW q \in [Addresses -> Seq(Mails)], IsFiniteSet(TokensIn(q)),
         NEW to \in Addresses, NEW mail \in Mails,
         NEW r, r = [q EXCEPT ![to] = Append(@, mail)]
  PROVE  PutInto(q, r, to, mail)
<1>1. /\ q[to] \in Seq(Mails) /\ Len(q[to]) \in Nat
      /\ Append(q[to], mail) \in Seq(Mails) /\ Len(Append(q[to], mail)) = Len(q[to]) + 1
      /\ Append(q[to], mail)[Len(q[to]) + 1] = mail
      /\ \A i \in 1 .. Len(q[to]) : Append(q[to], mail)[i] = q[to][i]
  <2>1. q[to] \in Seq(Mails) OBVIOUS
  <2> QED BY <2>1, AppendProperties
<1>2. /\ r \in [Addresses -> Seq(Mails)] /\ r[to] = Append(q[to], mail)
      /\ \A b \in Addresses : b # to => r[b] = q[b]
  BY <1>1
<1>3. /\ Len(r[to]) = Len(q[to]) + 1 /\ r[to][Len(q[to]) + 1] = mail
      /\ \A i \in 1 .. Len(q[to]) : r[to][i] = q[to][i]
  BY <1>1, <1>2
<1> DEFINE new == <<to, Len(q[to]) + 1>>
<1>4. new \notin TokensIn(q)
  <2> SUFFICES ASSUME new \in TokensIn(q) PROVE FALSE OBVIOUS
  <2>1. new[2] \in 1 .. Len(q[new[1]]) BY TokensAre
  <2>2. Len(q[to]) + 1 \in 1 .. Len(q[to]) BY <2>1
  <2> QED BY <1>1, <2>2
<1>5. TokensIn(r) = IF mail.kind = "int" THEN TokensIn(q) \cup {new} ELSE TokensIn(q)
  <2>1. ASSUME NEW p \in TokensIn(r) PROVE p \in TokensIn(q) \/ (mail.kind = "int" /\ p = new)
    <3> DEFINE b == p[1]
               i == p[2]
    <3>1. p = <<b, i>> /\ b \in Addresses /\ i \in 1 .. Len(r[b]) /\ r[b][i].kind = "int"
      BY <1>2, TokensAre
    <3> HIDE DEF b, i
    <3>2. CASE b # to
      <4>1. i \in 1 .. Len(q[b]) /\ q[b][i].kind = "int" BY <1>2, <3>1, <3>2
      <4> QED BY <3>1, <4>1, TokensAre
    <3>3. CASE b = to /\ i = Len(q[to]) + 1 BY <1>3, <3>1, <3>3
    <3>4. CASE b = to /\ i # Len(q[to]) + 1
      <4>1. i \in 1 .. Len(q[to]) BY <1>1, <1>3, <3>1, <3>4
      <4>2. q[to][i].kind = "int" BY <1>3, <3>1, <3>4, <4>1
      <4> QED BY <3>1, <3>4, <4>1, <4>2, TokensAre
    <3> QED BY <3>2, <3>3, <3>4
  <2>2. ASSUME NEW p \in TokensIn(q) PROVE p \in TokensIn(r)
    <3> DEFINE b == p[1]
               i == p[2]
    <3>1. p = <<b, i>> /\ b \in Addresses /\ i \in 1 .. Len(q[b]) /\ q[b][i].kind = "int" BY TokensAre
    <3> HIDE DEF b, i
    <3>2. i \in 1 .. Len(r[b]) /\ r[b][i].kind = "int"
      <4>1. CASE b # to BY <1>2, <3>1, <4>1
      <4>2. CASE b = to BY <1>1, <1>3, <3>1, <4>2
      <4> QED BY <4>1, <4>2
    <3> QED BY <1>2, <3>1, <3>2, TokensAre
  <2>3. mail.kind = "int" => new \in TokensIn(r)
    <3>1. Len(q[to]) + 1 \in 1 .. Len(r[to]) BY <1>1, <1>3
    <3>2. mail.kind = "int" => r[to][Len(q[to]) + 1].kind = "int" BY <1>3
    <3>3. mail.kind = "int" => <<to, Len(q[to]) + 1>> \in TokensIn(r) BY <1>2, <3>1, <3>2, TokensAre
    <3> QED BY <3>3
  <2> QED BY <2>1, <2>2, <2>3
<1> HIDE DEF new
<1>6. IsFiniteSet(TokensIn(q) \cup {new}) /\ Cardinality(TokensIn(q) \cup {new}) = Cardinality(TokensIn(q)) + 1
  BY <1>4, FS_AddElement
<1>7. Cardinality(TokensIn(q)) \in Nat BY FS_CardinalityType
<1> QED BY <1>2, <1>3, <1>5, <1>6, <1>7 DEF PutInto

\* The first message of a strand's queue that is taken out.
TakenFrom(q, r, a) ==
  /\ r \in [Addresses -> Seq(Mails)] /\ Head(q[a]) = q[a][1] /\ Head(q[a]) \in Mails
  /\ \A b \in Addresses : b # a => r[b] = q[b]
  /\ Len(q[a]) \in Nat /\ Len(q[a]) > 0 /\ Len(r[a]) = Len(q[a]) - 1
  /\ \A i \in 1 .. Len(r[a]) : r[a][i] = q[a][i + 1] /\ i + 1 \in 2 .. Len(q[a])
  /\ IsFiniteSet(TokensIn(r))
  /\ Cardinality(TokensIn(r)) =
       Cardinality(TokensIn(q)) - (IF Head(q[a]).kind = "int" THEN 1 ELSE 0)
LEMMA TailCounts ==
  ASSUME NEW q \in [Addresses -> Seq(Mails)], IsFiniteSet(TokensIn(q)),
         NEW a \in Addresses, q[a] # <<>>, NEW r, r = [q EXCEPT ![a] = Tail(@)]
  PROVE  TakenFrom(q, r, a)
<1>1. /\ q[a] \in Seq(Mails) /\ Len(q[a]) \in Nat /\ Len(q[a]) > 0
      /\ Head(q[a]) = q[a][1] /\ Head(q[a]) \in Mails
      /\ Tail(q[a]) \in Seq(Mails) /\ Len(Tail(q[a])) = Len(q[a]) - 1
      /\ \A i \in 1 .. Len(Tail(q[a])) : Tail(q[a])[i] = q[a][i + 1]
  <2>1. q[a] \in Seq(Mails) OBVIOUS
  <2> QED BY <2>1, HeadTailProperties
<1>2. /\ r \in [Addresses -> Seq(Mails)] /\ r[a] = Tail(q[a])
      /\ \A b \in Addresses : b # a => r[b] = q[b]
  BY <1>1
<1>3. /\ Len(r[a]) = Len(q[a]) - 1
      /\ \A i \in 1 .. Len(r[a]) : r[a][i] = q[a][i + 1] /\ i + 1 \in 2 .. Len(q[a])
  BY <1>1, <1>2
<1> DEFINE first == <<a, 1>>
           rest == TokensIn(q) \ {first}
           f == [p \in rest |-> <<p[1], IF p[1] = a THEN p[2] - 1 ELSE p[2]>>]
<1>4. f \in [rest -> TokensIn(r)]
  <2> SUFFICES ASSUME NEW p \in rest
               PROVE  <<p[1], IF p[1] = a THEN p[2] - 1 ELSE p[2]>> \in TokensIn(r)
    OBVIOUS
  <2> DEFINE b == p[1]
             i == p[2]
  <2>1. p = <<b, i>> /\ b \in Addresses /\ i \in 1 .. Len(q[b]) /\ q[b][i].kind = "int" /\ p # first
    BY TokensAre
  <2> HIDE DEF b, i
  <2>2. CASE b = a
    <3>1. i # 1 BY <2>1, <2>2
    <3>2. i - 1 \in 1 .. Len(r[a]) /\ (i - 1) + 1 = i BY <1>1, <1>3, <2>1, <2>2, <3>1
    <3>3. r[a][i - 1].kind = "int" BY <1>3, <2>1, <2>2, <3>2
    <3>4. <<a, i - 1>> \in TokensIn(r) BY <1>2, <3>2, <3>3, TokensAre
    <3> QED BY <2>2, <3>4 DEF b, i
  <2>3. CASE b # a
    <3>1. i \in 1 .. Len(r[b]) /\ r[b][i].kind = "int" BY <1>2, <2>1, <2>3
    <3>2. <<b, i>> \in TokensIn(r) BY <1>2, <2>1, <3>1, TokensAre
    <3> QED BY <2>3, <3>2 DEF b, i
  <2> QED BY <2>2, <2>3
<1>5. ASSUME NEW p \in rest, NEW o \in rest, f[p] = f[o] PROVE p = o
  <2>1. /\ p = <<p[1], p[2]>> /\ o = <<o[1], o[2]>> /\ p[2] \in Nat /\ o[2] \in Nat
    BY TokensAre
  <2>2. /\ p[1] = o[1]
        /\ (IF p[1] = a THEN p[2] - 1 ELSE p[2]) = (IF o[1] = a THEN o[2] - 1 ELSE o[2])
    BY <1>5
  <2>3. p[2] = o[2] BY <2>1, <2>2
  <2> QED BY <2>1, <2>2, <2>3
<1>6. ASSUME NEW p \in TokensIn(r) PROVE \E o \in rest : f[o] = p
  <2> DEFINE b == p[1]
             i == p[2]
  <2>1. p = <<b, i>> /\ b \in Addresses /\ i \in 1 .. Len(r[b]) /\ r[b][i].kind = "int"
    BY <1>2, TokensAre
  <2> HIDE DEF b, i
  <2>2. CASE b = a
    <3>1. i + 1 \in 2 .. Len(q[a]) /\ q[a][i + 1].kind = "int" BY <1>3, <2>1, <2>2
    <3>2. i + 1 \in 1 .. Len(q[a]) /\ i + 1 # 1 /\ (i + 1) - 1 = i BY <2>1, <3>1
    <3>3. <<a, i + 1>> \in TokensIn(q) BY <3>1, <3>2, TokensAre
    <3>4. <<a, i + 1>> \in rest BY <3>2, <3>3
    <3>5. f[<<a, i + 1>>] = <<a, i>> BY <3>2, <3>4
    <3> QED BY <2>1, <2>2, <3>4, <3>5
  <2>3. CASE b # a
    <3>1. i \in 1 .. Len(q[b]) /\ q[b][i].kind = "int" BY <1>2, <2>1, <2>3
    <3>2. <<b, i>> \in rest BY <2>1, <2>3, <3>1, TokensAre
    <3>3. f[<<b, i>>] = <<b, i>> BY <2>3, <3>2
    <3> QED BY <2>1, <3>2, <3>3
  <2> QED BY <2>2, <2>3
<1>7. IsFiniteSet(rest) /\ Cardinality(rest) = IF first \in TokensIn(q) THEN Cardinality(TokensIn(q)) - 1
                                               ELSE Cardinality(TokensIn(q))
  BY FS_RemoveElement
<1>8. first \in TokensIn(q) <=> Head(q[a]).kind = "int"
  <2>1. 1 \in 1 .. Len(q[a]) BY <1>1
  <2>2. ASSUME first \in TokensIn(q) PROVE Head(q[a]).kind = "int"
    <3>1. q[first[1]][first[2]].kind = "int" BY <2>2, TokensAre
    <3> QED BY <1>1, <3>1
  <2> QED BY <1>1, <2>1, <2>2, TokensAre
<1>9. f \in Bijection(rest, TokensIn(r))
  <2> HIDE DEF f, rest
  <2> QED BY <1>4, <1>5, <1>6 DEF Bijection, Injection, Surjection, IsInjective
<1>10. ExistsBijection(rest, TokensIn(r)) BY <1>9 DEF ExistsBijection
<1>11. IsFiniteSet(TokensIn(r)) /\ Cardinality(TokensIn(r)) = Cardinality(rest)
  <2>1. IsFiniteSet(rest) BY <1>7
  <2> HIDE DEF f, rest
  <2> QED BY <1>10, <2>1, FS_Bijection
<1>12. Cardinality(TokensIn(q)) \in Nat BY FS_CardinalityType
<1> QED BY <1>1, <1>2, <1>3, <1>7, <1>8, <1>11, <1>12 DEF TakenFrom

\* The loop that has a token for its handler.
LEMMA HandsCount ==
  /\ IsFiniteSet(AtHand) /\ Cardinality(AtHand) \in Nat
  /\ \A a \in AtHand : IsFiniteSet(AtHand \ {a}) /\ Cardinality(AtHand \ {a}) = Cardinality(AtHand) - 1
  /\ \A a \in Addresses \ AtHand :
       IsFiniteSet(AtHand \cup {a}) /\ Cardinality(AtHand \cup {a}) = Cardinality(AtHand) + 1
<1>1. IsFiniteSet(AtHand)
  <2>1. AtHand \in SUBSET Addresses BY DEF AtHand
  <2> QED BY <2>1, AddressesAre, FS_Subset
<1> QED BY <1>1, FS_CardinalityType, FS_AddElement, FS_RemoveElement

----------------------------------------------------------------------------
(* The actors.                                                             *)

LEMMA ActorsBegin == ActorInit => ActorInv
<1> SUFFICES ASSUME ActorInit PROVE ActorInv OBVIOUS
<1>1. /\ Ring \in Nat /\ Members = 1 .. Ring /\ Addresses = 0 .. Ring /\ Receiver = 0 /\ Receiver \in Addresses
      /\ Members \subseteq Addresses
  BY AddressesAre
<1>2. <<>> \in Seq(Mails) /\ Len(<<>>) = 0 BY EmptySeq
<1>3. /\ \A a \in Addresses : strands[a] = <<>> /\ handling[a] = Nothing
      /\ \A m \in Members : handlers[m] = Fresh
      /\ handlers[Receiver] = <<"message_handler">>
      /\ sent = 0 /\ waits = 0 /\ received = 0 /\ moved = {} /\ wild = FALSE /\ destroyed = FALSE
  BY <1>1 DEF ActorInit, Fresh
<1>4. ActorShape
  <2>1. strands \in [Addresses -> Seq(Mails)] BY <1>2 DEF ActorInit
  <2>2. handlers \in [Addresses -> Seq(Handles)]
    <3>1. <<"message_handler">> \in Seq(Handles) /\ <<"init_handler">> \in Seq(Handles) BY DEF Handles
    <3> QED BY <3>1 DEF ActorInit
  <2>3. /\ handling \in [Addresses -> Mails \cup {Nothing}] /\ loop \in [Addresses -> [index : Nat, end : Nat]]
        /\ nextMember \in [Members -> Addresses] /\ caller \in [Members -> {Receiver}]
    BY <1>1 DEF ActorInit
  <2>7. moved \subseteq Addresses /\ received \in Nat /\ sent \in 0 .. 2 * Ring /\ waits \in 0 .. Ring /\ destroyed \in BOOLEAN
    <3>1. 0 \in 0 .. Ring /\ 0 \in 0 .. 2 * Ring BY ActorsAssumption
    <3> QED BY <1>3, <3>1
  <2> QED BY <2>1, <2>2, <2>3, <2>7 DEF ActorShape
<1>5. TokensIn(strands) = {}
  <2> SUFFICES ASSUME NEW p \in TokensIn(strands) PROVE FALSE OBVIOUS
  <2>1. p[1] \in Addresses /\ p[2] \in 1 .. Len(strands[p[1]]) BY <1>4, TokensAre DEF ActorShape
  <2> QED BY <1>2, <1>3, <2>1
<1>6. AtHand = {} BY <1>3 DEF AtHand, Nothing
<1>7. Sum /\ IsFiniteSet(TokensIn(strands)) BY <1>1, <1>3, <1>5, <1>6, FS_EmptySet DEF Sum
<1>8. \A m \in Members : MemberKept(m)
  BY <1>1, <1>3 DEF MemberKept, Unaddressed, Addressed
<1>9. ReceiverKept BY <1>1, <1>2, <1>3 DEF ReceiverKept, Ints
<1> QED BY <1>3, <1>4, <1>7, <1>8, <1>9 DEF ActorInv

\* When main has left there is no token any more, and every member has had its own.
LEMMA NothingLeft ==
  ASSUME ActorInv, waits = Ring
  PROVE  TokensIn(strands) = {} /\ AtHand = {} /\ sent = 2 * Ring /\ received = 0
<1>1. Ring \in Nat /\ sent \in 0 .. 2 * Ring /\ received \in Nat /\ IsFiniteSet(TokensIn(strands)) /\ Sum
  BY AddressesAre DEF ActorInv, ActorShape
<1>2. Cardinality(TokensIn(strands)) \in Nat /\ Cardinality(AtHand) \in Nat /\ IsFiniteSet(AtHand)
  BY <1>1, FS_CardinalityType, HandsCount
<1>3. /\ Cardinality(TokensIn(strands)) = 0 /\ Cardinality(AtHand) = 0 /\ received = 0 /\ sent = 2 * Ring
  BY <1>1, <1>2 DEF Sum
<1> QED BY <1>1, <1>2, <1>3, FS_EmptySet

LEMMA ReadsAlive ==
  ASSUME ActorInv, NEW a \in Addresses, More(a), Reads(a)
  PROVE  ~ destroyed /\ wild' = FALSE
<1>1. /\ Ring \in Nat /\ Members = 1 .. Ring /\ Addresses = 0 .. Ring /\ Receiver = 0
      /\ a \in Members \/ a = Receiver
  BY AddressesAre
<1>2. ActorShape BY DEF ActorInv
<1>3. /\ handling[a] # Nothing /\ loop[a].index <= loop[a].end /\ loop[a].index \in Nat /\ loop[a].end \in Nat
  BY <1>2 DEF More, LoopEnd, ActorShape
<1>4. a \notin moved
  <2> SUFFICES ASSUME a \in moved PROVE FALSE OBVIOUS
  <2>1. loop[a].index > loop[a].end BY <1>3 DEF ActorInv
  <2> QED BY <1>3, <2>1
<1>5. ASSUME destroyed PROVE FALSE
  <2>1. TokensIn(strands) = {} /\ AtHand = {} /\ sent = 2 * Ring BY <1>5, NothingLeft DEF ActorInv
  <2>2. CASE a \in Members
    <3>1. MemberKept(a) /\ Addressed(a) /\ Given(a)
      BY <1>1, <2>1, <2>2 DEF ActorInv, Addressed, Given
    <3>2. ~ Unaddressed(a) /\ ~ Waiting(a) BY <1>3 DEF Unaddressed, Waiting
    <3>3. CASE Learning(a)
      <4>1. strands[a] # <<>> /\ strands[a] \in Seq(Mails) BY <1>2, <3>1, <3>3 DEF Learning, ActorShape
      <4>2. 1 \in 1 .. Len(strands[a]) BY <4>1, EmptySeq
      <4>3. strands[a][1].kind = "int" BY <3>3, <4>2 DEF Learning, Ints
      <4>4. <<a, 1>> \in TokensIn(strands) BY <1>2, <4>2, <4>3, TokensAre DEF ActorShape
      <4> QED BY <2>1, <4>4
    <3>4. CASE Passing(a)
      <4>1. handling[a].kind = "int" /\ loop[a].end = 2 /\ handlers[a] = BothHandlers BY <1>3, <3>4 DEF Passing
      <4>2. Len(handlers[a]) = 2 BY <4>1 DEF BothHandlers
      <4>3. a \in AtHand BY <1>3, <4>1, <4>2 DEF AtHand
      <4> QED BY <2>1, <4>3
    <3> QED BY <3>1, <3>2, <3>3, <3>4 DEF MemberKept
  <2>3. CASE a = Receiver
    <3>1. handling[a].kind = "int" /\ loop[a].end = 1 /\ handlers[a] = <<"message_handler">>
      BY <1>3, <2>3 DEF ActorInv, ReceiverKept
    <3>2. Len(handlers[a]) = 1 BY <3>1
    <3>3. a \in AtHand BY <1>3, <3>1, <3>2 DEF AtHand
    <3> QED BY <2>1, <3>3
  <2> QED BY <1>1, <2>2, <2>3
<1> QED BY <1>4, <1>5 DEF Reads, ActorInv

\* What an actor is not concerned by, or is sent a token by.
SentToken(b) == \E mail \in Mails : mail.kind = "int" /\ strands'[b] = Append(strands[b], mail)

LEMMA IntsGrow ==
  ASSUME ActorShape, NEW b \in Addresses, SentToken(b)
  PROVE  /\ Len(strands'[b]) = Len(strands[b]) + 1 /\ Len(strands[b]) \in Nat
         /\ strands'[b][Len(strands[b]) + 1].kind = "int"
         /\ \A i \in 1 .. Len(strands[b]) : strands'[b][i] = strands[b][i]
         /\ strands'[b] # <<>>
         /\ Ints(b) => Ints(b)'
<1>1. PICK mail \in Mails : mail.kind = "int" /\ strands'[b] = Append(strands[b], mail) BY DEF SentToken
<1>2. strands[b] \in Seq(Mails) BY DEF ActorShape
<1>3. /\ Len(strands[b]) \in Nat /\ Len(strands'[b]) = Len(strands[b]) + 1
      /\ strands'[b][Len(strands[b]) + 1] = mail
      /\ \A i \in 1 .. Len(strands[b]) : strands'[b][i] = strands[b][i]
  BY <1>1, <1>2, AppendProperties
<1>4. strands'[b] # <<>> BY <1>3, EmptySeq
<1>5. ASSUME Ints(b) PROVE Ints(b)'
  <2> SUFFICES ASSUME NEW i \in 1 .. Len(strands'[b]) PROVE strands'[b][i].kind = "int" BY DEF Ints
  <2>1. CASE i = Len(strands[b]) + 1 BY <1>1, <1>3, <2>1
  <2>2. CASE i # Len(strands[b]) + 1
    <3>1. i \in 1 .. Len(strands[b]) BY <1>3, <2>2
    <3> QED BY <1>3, <1>5, <3>1 DEF Ints
  <2> QED BY <2>1, <2>2
<1> QED BY <1>1, <1>3, <1>4, <1>5

LEMMA OthersKept ==
  ASSUME ActorShape, NEW b \in Members, MemberKept(b),
         handling'[b] = handling[b], handlers'[b] = handlers[b], loop'[b] = loop[b],
         Addressed(b)' = Addressed(b),
         \/ strands'[b] = strands[b] /\ Given(b)' = Given(b)
         \/ SentToken(b) /\ Addressed(b)
  PROVE  MemberKept(b)'
<1>0. b \in Addresses BY AddressesAre
<1>1. CASE strands'[b] = strands[b] /\ Given(b)' = Given(b)
  <2>1. Ints(b)' = Ints(b) BY <1>1 DEF Ints
  <2>2. Unaddressed(b) => Unaddressed(b)' BY <1>1 DEF Unaddressed
  <2>3. Waiting(b) => Waiting(b)' BY <1>1 DEF Waiting
  <2>4. Learning(b) => Learning(b)' BY <1>1, <2>1 DEF Learning
  <2>5. Passing(b) => Passing(b)' BY <1>1, <2>1 DEF Passing
  <2> QED BY <2>2, <2>3, <2>4, <2>5 DEF MemberKept
<1>2. CASE SentToken(b) /\ Addressed(b)
  <2>0. /\ Len(strands'[b]) = Len(strands[b]) + 1 /\ Len(strands[b]) \in Nat
        /\ strands'[b][Len(strands[b]) + 1].kind = "int"
        /\ \A i \in 1 .. Len(strands[b]) : strands'[b][i] = strands[b][i]
        /\ strands'[b] # <<>>
        /\ Ints(b) => Ints(b)'
    BY <1>0, <1>2, IntsGrow
  <2>1. ~ Unaddressed(b) BY <1>2 DEF Unaddressed
  <2>2. ASSUME Waiting(b) PROVE Waiting(b)'
    <3>1. strands[b] # <<>> /\ strands[b] \in Seq(Mails) BY <1>0, <2>2 DEF Waiting, ActorShape
    <3>2. Len(strands[b]) >= 1 /\ 1 \in 1 .. Len(strands[b]) BY <2>0, <3>1, EmptySeq
    <3>3. strands'[b][1].kind = "address" BY <2>0, <2>2, <3>2 DEF Waiting
    <3>4. ASSUME NEW i \in 2 .. Len(strands'[b]) PROVE strands'[b][i].kind = "int"
      <4>1. CASE i = Len(strands[b]) + 1 BY <2>0, <4>1
      <4>2. CASE i # Len(strands[b]) + 1
        <5>1. i \in 2 .. Len(strands[b]) /\ i \in 1 .. Len(strands[b]) BY <2>0, <4>2
        <5> QED BY <2>0, <2>2, <5>1 DEF Waiting
      <4> QED BY <4>1, <4>2
    <3>5. Len(strands'[b]) >= 2 BY <2>0, <3>2
    <3> QED BY <2>0, <2>2, <3>3, <3>4, <3>5 DEF Waiting
  <2>3. Learning(b) => Learning(b)' BY <2>0 DEF Learning
  <2>4. Passing(b) => Passing(b)' BY <2>0 DEF Passing
  <2> QED BY <2>1, <2>2, <2>3, <2>4 DEF MemberKept
<1> QED BY <1>1, <1>2

LEMMA ReceiverStays ==
  ASSUME ActorShape, ReceiverKept, handlers'[Receiver] = handlers[Receiver],
         handling'[Receiver] = handling[Receiver], loop'[Receiver] = loop[Receiver],
         strands'[Receiver] = strands[Receiver] \/ SentToken(Receiver)
  PROVE  ReceiverKept'
<1>1. Receiver \in Addresses BY AddressesAre
<1>2. Ints(Receiver)'
  <2>1. CASE strands'[Receiver] = strands[Receiver] BY <2>1 DEF ReceiverKept, Ints
  <2>2. CASE SentToken(Receiver) BY <1>1, <2>2, IntsGrow DEF ReceiverKept
  <2> QED BY <2>1, <2>2
<1> QED BY <1>2 DEF ReceiverKept

LEMMA HandlerCalled ==
  ASSUME ActorInv, NEW a \in Addresses, CallHandler(a)
  PROVE  ActorInv'
<1>0. ActorShape /\ Sum /\ IsFiniteSet(TokensIn(strands)) BY DEF ActorInv
<1>1. /\ Ring \in Nat /\ Members = 1 .. Ring /\ Addresses = 0 .. Ring /\ Receiver = 0
      /\ a \in Members \/ a = Receiver
      /\ Members \subseteq Addresses /\ Receiver \notin Members /\ Receiver \in Addresses
  BY AddressesAre
<1>2. /\ handling[a] = Nothing /\ strands[a] # <<>>
      /\ strands' = [strands EXCEPT ![a] = Tail(@)]
      /\ UNCHANGED <<handlers, nextMember, caller, received, sent, waits, destroyed, wild>>
      /\ moved' = moved \ {a}
  BY DEF CallHandler
<1> DEFINE h == Head(strands[a])
<1>3. /\ strands' \in [Addresses -> Seq(Mails)] /\ h = strands[a][1] /\ h \in Mails
      /\ \A b \in Addresses : b # a => strands'[b] = strands[b]
      /\ Len(strands[a]) \in Nat /\ Len(strands[a]) > 0 /\ Len(strands'[a]) = Len(strands[a]) - 1
      /\ \A i \in 1 .. Len(strands'[a]) :
           strands'[a][i] = strands[a][i + 1] /\ i + 1 \in 2 .. Len(strands[a])
      /\ IsFiniteSet(TokensIn(strands'))
      /\ Cardinality(TokensIn(strands')) =
           Cardinality(TokensIn(strands)) - (IF h.kind = "int" THEN 1 ELSE 0)
  <2> DEFINE q == strands
             r == strands'
  <2>1. q \in [Addresses -> Seq(Mails)] /\ IsFiniteSet(TokensIn(q)) /\ q[a] # <<>> BY <1>0, <1>2 DEF ActorShape
  <2>2. r = [q EXCEPT ![a] = Tail(@)] BY <1>2
  <2> HIDE DEF q, r
  <2>3. TakenFrom(q, r, a) BY <2>1, <2>2, TailCounts
  <2> QED BY <2>3 DEF q, r, TakenFrom
<1>4. /\ handling' \in [Addresses -> Mails \cup {Nothing}] /\ handling'[a] = h
      /\ \A b \in Addresses : b # a => handling'[b] = handling[b]
  <2>1. handling' = [handling EXCEPT ![a] = h] BY DEF CallHandler
  <2> HIDE DEF h
  <2> QED BY <1>0, <1>3, <2>1 DEF ActorShape
<1>5. /\ loop' \in [Addresses -> [index : Nat, end : Nat]]
      /\ loop'[a] = [index |-> 1, end |-> Len(handlers[a])]
      /\ \A b \in Addresses : b # a => loop'[b] = loop[b]
  <2>1. Len(handlers[a]) \in Nat BY <1>0, LenProperties DEF ActorShape
  <2>2. loop' = [loop EXCEPT ![a] = [index |-> 1, end |-> Len(handlers[a])]] BY DEF CallHandler
  <2> QED BY <1>0, <2>1, <2>2 DEF ActorShape
<1> HIDE DEF h
<1>6. /\ Nothing.kind = "none" /\ h.kind \in {"int", "address"} /\ h # Nothing
      /\ 1 \in 1 .. Len(strands[a])
  BY <1>3, MailsAre
<1>7. ActorShape' BY <1>0, <1>2, <1>3, <1>4, <1>5 DEF ActorShape
<1>8. /\ \A m \in Members : m # a => MemberKept(m)'
      /\ a # Receiver => ReceiverKept'
  <2>1. ASSUME NEW m \in Members, m # a PROVE MemberKept(m)'
    <3>1. m \in Addresses /\ MemberKept(m) BY <1>1 DEF ActorInv
    <3>2. Addressed(m)' = Addressed(m) /\ Given(m)' = Given(m) BY <1>2 DEF Addressed, Given
    <3> QED BY <1>0, <1>2, <1>3, <1>4, <1>5, <2>1, <3>1, <3>2, OthersKept
  <2>2. a # Receiver => ReceiverKept'
    BY <1>0, <1>1, <1>2, <1>3, <1>4, <1>5, ReceiverStays DEF ActorInv
  <2> QED BY <2>1, <2>2
<1>11. \A b \in moved' : handling'[b] = Nothing \/ loop'[b].index > loop'[b].end
  <2> SUFFICES ASSUME NEW b \in moved' PROVE handling'[b] = Nothing \/ loop'[b].index > loop'[b].end
    OBVIOUS
  <2>1. b \in moved /\ b # a /\ b \in Addresses BY <1>0, <1>2 DEF ActorShape
  <2> QED BY <1>4, <1>5, <2>1 DEF ActorInv
\* What it has in hand it will count, if it is a token, which then leaves the strand.
<1>9. CASE a \in Members
  <2>1. MemberKept(a) /\ ~ Unaddressed(a) /\ ~ Learning(a)
    BY <1>2, <1>6, <1>9 DEF ActorInv, Unaddressed, Learning
  <2>2. CASE Waiting(a)
    <3>1. h.kind = "address" /\ handlers[a] = Fresh /\ Len(Fresh) = 1 BY <1>3, <2>2 DEF Waiting, Fresh
    <3>2. Ints(a)' BY <1>3, <2>2 DEF Ints, Waiting
    <3>3. Given(a)' => strands'[a] # <<>>
      <4>1. Given(a)' => Len(strands[a]) >= 2 BY <1>2, <2>2 DEF Given, Waiting
      <4>2. Given(a)' => Len(strands'[a]) >= 1 BY <1>3, <4>1
      <4> QED BY <4>2, EmptySeq
    <3>4. Learning(a)' BY <1>2, <1>4, <1>5, <2>2, <3>1, <3>2, <3>3 DEF Learning, Waiting, Addressed
    <3>5. AtHand' = AtHand
      <4>1. \A b \in Addresses : b # a => (b \in AtHand' <=> b \in AtHand) BY <1>2, <1>4, <1>5 DEF AtHand
      <4>2. a \notin AtHand /\ a \notin AtHand' BY <1>2, <1>4, <1>6, <3>1 DEF AtHand
      <4>3. AtHand \subseteq Addresses /\ AtHand' \subseteq Addresses BY DEF AtHand
      <4> QED BY <4>1, <4>2, <4>3
    <3>6. Sum' BY <1>0, <1>2, <1>3, <3>1, <3>5, FS_CardinalityType DEF Sum
    <3>7. \A m \in Members : MemberKept(m)' BY <1>8, <3>4 DEF MemberKept
    <3>8. ReceiverKept' BY <1>1, <1>8, <1>9
    <3> QED BY <1>2, <1>3, <1>7, <1>11, <3>6, <3>7, <3>8 DEF ActorInv
  <2>3. CASE Passing(a)
    <3>1. h.kind = "int" /\ handlers[a] = BothHandlers /\ Len(BothHandlers) = 2
      BY <1>3, <1>6, <2>3 DEF Passing, BothHandlers, Ints
    <3>2. Ints(a)'
      <4>1. \A i \in 2 .. Len(strands[a]) : i \in 1 .. Len(strands[a]) OBVIOUS
      <4> QED BY <1>3, <2>3, <4>1 DEF Ints, Passing
    <3>3. Passing(a)' BY <1>2, <1>4, <1>5, <2>3, <3>1, <3>2 DEF Passing, Addressed
    <3>4. a \notin AtHand /\ AtHand' = AtHand \cup {a}
      <4>1. \A b \in Addresses : b # a => (b \in AtHand' <=> b \in AtHand) BY <1>2, <1>4, <1>5 DEF AtHand
      <4>0. handling'[a].kind = "int" /\ loop'[a].index = 1 /\ Len(handlers'[a]) = 2
        BY <1>2, <1>4, <1>5, <3>1
      <4>4. a \notin AtHand BY <1>2, <1>6 DEF AtHand
      <4>5. 1 <= 2 OBVIOUS
      <4>2. a \in AtHand' BY <4>0, <4>5 DEF AtHand
      <4>3. AtHand \subseteq Addresses /\ AtHand' \subseteq Addresses BY DEF AtHand
      <4> QED BY <4>1, <4>2, <4>3, <4>4
    <3>5. Cardinality(AtHand') = Cardinality(AtHand) + 1 /\ Cardinality(AtHand) \in Nat
      BY <3>4, HandsCount
    <3>6. Sum' BY <1>0, <1>2, <1>3, <3>1, <3>5, FS_CardinalityType DEF Sum
    <3>7. \A m \in Members : MemberKept(m)' BY <1>8, <3>3 DEF MemberKept
    <3>8. ReceiverKept' BY <1>1, <1>8, <1>9
    <3> QED BY <1>2, <1>3, <1>7, <1>11, <3>6, <3>7, <3>8 DEF ActorInv
  <2> QED BY <2>1, <2>2, <2>3 DEF MemberKept
<1>10. CASE a = Receiver
  <2>1. ReceiverKept BY DEF ActorInv
  <2>2. h.kind = "int" /\ handlers[a] = <<"message_handler">> /\ Len(handlers[a]) = 1
    BY <1>3, <1>6, <1>10, <2>1 DEF ReceiverKept, Ints
  <2>3. Ints(Receiver)'
    <3>1. \A i \in 2 .. Len(strands[a]) : i \in 1 .. Len(strands[a]) OBVIOUS
    <3> QED BY <1>3, <1>10, <2>1, <3>1 DEF Ints, ReceiverKept
  <2>4. ReceiverKept' BY <1>2, <1>4, <1>5, <1>10, <2>2, <2>3 DEF ReceiverKept
  <2>5. a \notin AtHand /\ AtHand' = AtHand \cup {a}
    <3>1. \A b \in Addresses : b # a => (b \in AtHand' <=> b \in AtHand) BY <1>2, <1>4, <1>5 DEF AtHand
    <3>0. handling'[a].kind = "int" /\ loop'[a].index = 1 /\ Len(handlers'[a]) = 1
      BY <1>2, <1>4, <1>5, <2>2
    <3>4. a \notin AtHand BY <1>2, <1>6 DEF AtHand
    <3>5. 1 <= 1 OBVIOUS
    <3>2. a \in AtHand' BY <3>0, <3>5 DEF AtHand
    <3>3. AtHand \subseteq Addresses /\ AtHand' \subseteq Addresses BY DEF AtHand
    <3> QED BY <3>1, <3>2, <3>3, <3>4
  <2>6. Cardinality(AtHand') = Cardinality(AtHand) + 1 /\ Cardinality(AtHand) \in Nat
    BY <2>5, HandsCount
  <2>7. Sum' BY <1>0, <1>2, <1>3, <2>2, <2>6, FS_CardinalityType DEF Sum
  <2>8. \A m \in Members : MemberKept(m)' BY <1>1, <1>8, <1>10
  <2> QED BY <1>2, <1>3, <1>7, <1>11, <2>4, <2>7, <2>8 DEF ActorInv
<1> QED BY <1>1, <1>9, <1>10

\* What the loop of an actor does to what it has in hand.
LEMMA LoopMoves ==
  ASSUME ActorInv, NEW a \in Addresses, handling[a] # Nothing,
         handling' = handling \/ handling' = [handling EXCEPT ![a] = Nothing],
         loop' = loop \/ loop' = [loop EXCEPT ![a].index = @ + 1],
         \A b \in Addresses : b # a => handlers'[b] = handlers[b]
  PROVE  /\ handling' \in [Addresses -> Mails \cup {Nothing}]
         /\ loop' \in [Addresses -> [index : Nat, end : Nat]]
         /\ \A b \in Addresses : b # a => handling'[b] = handling[b] /\ loop'[b] = loop[b]
         /\ handling' = handling => handling'[a] = handling[a]
         /\ handling' = [handling EXCEPT ![a] = Nothing] => handling'[a] = Nothing
         /\ loop' = [loop EXCEPT ![a].index = @ + 1] =>
              /\ loop'[a].index = loop[a].index + 1 /\ loop'[a].end = loop[a].end
              /\ loop'[a] = [index |-> loop[a].index + 1, end |-> loop[a].end]
         /\ AtHand' \ {a} = AtHand \ {a} /\ AtHand' \subseteq Addresses /\ AtHand \subseteq Addresses
         /\ a \in moved => loop[a].index > loop[a].end
         /\ loop[a].index \in Nat /\ loop[a].end \in Nat
<1>1. /\ handling \in [Addresses -> Mails \cup {Nothing}] /\ loop \in [Addresses -> [index : Nat, end : Nat]]
  BY DEF ActorInv, ActorShape
<1>2. handling' \in [Addresses -> Mails \cup {Nothing}] /\ loop' \in [Addresses -> [index : Nat, end : Nat]] BY <1>1
<1>3. \A b \in Addresses : b # a => handling'[b] = handling[b] /\ loop'[b] = loop[b] BY <1>1
<1>4. AtHand' \ {a} = AtHand \ {a} BY <1>3 DEF AtHand
<1>5. loop' = [loop EXCEPT ![a].index = @ + 1] =>
        /\ loop'[a].index = loop[a].index + 1 /\ loop'[a].end = loop[a].end
        /\ loop'[a] = [index |-> loop[a].index + 1, end |-> loop[a].end]
  BY <1>1
<1>6. AtHand' \subseteq Addresses /\ AtHand \subseteq Addresses BY DEF AtHand
<1>7. a \in moved => loop[a].index > loop[a].end BY DEF ActorInv
<1> QED BY <1>1, <1>2, <1>3, <1>4, <1>5, <1>6, <1>7

LEMMA SkipKeeps ==
  ASSUME ActorInv, NEW a \in Members, SkipHandler(a)
  PROVE  ActorInv'
<1>0. ActorShape /\ Sum BY DEF ActorInv
<1>1. a \in Addresses /\ Members \subseteq Addresses /\ Receiver \notin Members /\ a # Receiver BY AddressesAre
<1>2. /\ UNCHANGED <<strands, handling, handlers, moved, nextMember, caller, received, sent, waits, destroyed>>
      /\ More(a) /\ handling[a] # Nothing /\ loop[a].index <= loop[a].end
      /\ loop' = [loop EXCEPT ![a].index = @ + 1] /\ ~ Matches(a) /\ Reads(a)
  BY DEF SkipHandler, More, LoopEnd, Advance
<1>3. /\ loop' \in [Addresses -> [index : Nat, end : Nat]]
      /\ \A b \in Addresses : b # a => handling'[b] = handling[b] /\ loop'[b] = loop[b]
      /\ loop'[a].index = loop[a].index + 1 /\ loop'[a].end = loop[a].end
      /\ AtHand' \ {a} = AtHand \ {a} /\ AtHand' \subseteq Addresses /\ AtHand \subseteq Addresses
      /\ loop[a].index \in Nat /\ loop[a].end \in Nat
      /\ a \notin moved
  <2>1. \A b \in Addresses : b # a => handlers'[b] = handlers[b] BY <1>2
  <2>2. /\ loop' \in [Addresses -> [index : Nat, end : Nat]]
        /\ \A b \in Addresses : b # a => handling'[b] = handling[b] /\ loop'[b] = loop[b]
        /\ loop'[a].index = loop[a].index + 1 /\ loop'[a].end = loop[a].end
        /\ AtHand' \ {a} = AtHand \ {a} /\ AtHand' \subseteq Addresses /\ AtHand \subseteq Addresses
        /\ loop[a].index \in Nat /\ loop[a].end \in Nat
        /\ a \in moved => loop[a].index > loop[a].end
    BY <1>1, <1>2, <2>1, LoopMoves
  <2>3. a \notin moved BY <1>2, <2>2
  <2> QED BY <2>2, <2>3
<1>4. wild' = FALSE BY <1>1, <1>2, ReadsAlive
<1>5. ActorShape' BY <1>0, <1>2, <1>3 DEF ActorShape
<1>6. MemberKept(a) BY DEF ActorInv
<1>7. /\ handling[a].kind = "int" /\ loop[a].end = 2 /\ loop[a].index = 1 /\ handlers[a] = BothHandlers /\ Passing(a)
  <2>1. ~ Unaddressed(a) /\ ~ Waiting(a) BY <1>2 DEF Unaddressed, Waiting
  <2>2. ~ Learning(a)
    <3> SUFFICES ASSUME Learning(a) PROVE FALSE OBVIOUS
    <3>1. loop[a] # [index |-> 2, end |-> 1] BY <1>2
    <3>2. handlers[a] = Fresh /\ loop[a].index = 1 /\ handling[a].kind = "address" BY <3>1 DEF Learning
    <3>3. handlers[a][loop[a].index] = "init_handler" BY <3>2 DEF Fresh
    <3> QED BY <1>2, <3>2, <3>3 DEF Matches, MessageId, MessageOf
  <2>3. Passing(a) BY <1>6, <2>1, <2>2 DEF MemberKept
  <2>4. /\ handling[a].kind = "int" /\ loop[a].end = 2 /\ loop[a].index \in 1 .. 3 /\ handlers[a] = BothHandlers
    BY <1>2, <2>3 DEF Passing
  <2>5. loop[a].index # 2
    <3> SUFFICES ASSUME loop[a].index = 2 PROVE FALSE OBVIOUS
    <3>1. handlers[a][loop[a].index] = "token_handler" BY <2>4 DEF BothHandlers
    <3> QED BY <1>2, <2>4, <3>1 DEF Matches, MessageId, MessageOf
  <2>6. loop[a].index = 1 BY <1>2, <1>3, <2>4, <2>5
  <2> QED BY <2>3, <2>4, <2>6
<1>8. AtHand' = AtHand
  <2>1. Len(BothHandlers) = 2 /\ 1 <= 2 /\ 2 <= 2 BY DEF BothHandlers
  <2>2. a \in AtHand BY <1>1, <1>7, <2>1 DEF AtHand
  <2>3. handling'[a].kind = "int" /\ loop'[a].index = 2 /\ Len(handlers'[a]) = 2 BY <1>2, <1>3, <1>7, <2>1
  <2>4. a \in AtHand' BY <1>1, <2>1, <2>3 DEF AtHand
  <2>5. \A b : b \in AtHand' <=> b \in AtHand
    <3> SUFFICES ASSUME NEW b PROVE b \in AtHand' <=> b \in AtHand OBVIOUS
    <3>1. b # a => (b \in AtHand' \ {a} <=> b \in AtHand \ {a}) BY <1>3
    <3> QED BY <2>2, <2>4, <3>1
  <2> QED BY <2>5
<1>9. Sum' BY <1>0, <1>2, <1>8 DEF Sum
<1>10. Passing(a)' BY <1>2, <1>3, <1>7 DEF Passing, Addressed, Ints
<1>11. \A m \in Members : MemberKept(m)'
  <2> SUFFICES ASSUME NEW m \in Members, m # a PROVE MemberKept(m)' BY <1>10 DEF MemberKept
  <2>1. MemberKept(m) /\ m \in Addresses BY <1>1 DEF ActorInv
  <2>2. Addressed(m)' = Addressed(m) /\ Given(m)' = Given(m) BY <1>2 DEF Addressed, Given
  <2> QED BY <1>0, <1>2, <1>3, <2>1, <2>2, OthersKept
<1>12. ReceiverKept'
  <2>1. Receiver \in Addresses BY AddressesAre
  <2> QED BY <1>0, <1>1, <1>2, <1>3, <2>1, ReceiverStays DEF ActorInv
<1>13. \A b \in moved' : handling'[b] = Nothing \/ loop'[b].index > loop'[b].end
  <2> SUFFICES ASSUME NEW b \in moved' PROVE handling'[b] = Nothing \/ loop'[b].index > loop'[b].end
    OBVIOUS
  <2>1. b \in moved /\ b # a /\ b \in Addresses BY <1>0, <1>2, <1>3 DEF ActorShape
  <2> QED BY <1>3, <2>1 DEF ActorInv
<1> QED BY <1>2, <1>4, <1>5, <1>9, <1>11, <1>12, <1>13 DEF ActorInv

LEMMA EndLoopKeeps ==
  ASSUME ActorInv, NEW a \in Addresses, EndLoop(a)
  PROVE  ActorInv'
<1>0. ActorShape /\ Sum BY DEF ActorInv
<1>1. /\ Members \subseteq Addresses /\ Receiver \notin Members /\ Receiver \in Addresses
      /\ a \in Members \/ a = Receiver
  BY AddressesAre
<1>2. /\ UNCHANGED <<strands, loop, handlers, moved, nextMember, caller, received, sent, waits, destroyed, wild>>
      /\ handling[a] # Nothing /\ ~ (loop[a].index <= loop[a].end)
      /\ handling' = [handling EXCEPT ![a] = Nothing]
  BY DEF EndLoop, More, LoopEnd
<1>3. /\ handling' \in [Addresses -> Mails \cup {Nothing}]
      /\ \A b \in Addresses : b # a => handling'[b] = handling[b] /\ loop'[b] = loop[b]
      /\ handling'[a] = Nothing
      /\ AtHand' \ {a} = AtHand \ {a} /\ AtHand' \subseteq Addresses /\ AtHand \subseteq Addresses
      /\ loop[a].index \in Nat /\ loop[a].end \in Nat
  BY <1>2, LoopMoves
<1>5. ActorShape' BY <1>0, <1>2, <1>3 DEF ActorShape
<1>6. ASSUME a \in Members PROVE a \notin AtHand /\ MemberKept(a)' /\ ReceiverKept'
  <2>1. MemberKept(a) /\ ~ Unaddressed(a) /\ ~ Waiting(a) BY <1>2, <1>6 DEF ActorInv, Unaddressed, Waiting
  <2>2. ASSUME Learning(a) PROVE a \notin AtHand /\ Passing(a)'
    <3>1. loop[a] # [index |-> 1, end |-> 1] BY <1>2
    <3>2. handlers[a] = BothHandlers /\ handling[a].kind = "address" BY <2>2, <3>1 DEF Learning
    <3>3. a \notin AtHand BY <3>2 DEF AtHand
    <3>4. Passing(a)' BY <1>2, <1>3, <2>2, <3>2 DEF Passing, Learning, Addressed, Ints
    <3> QED BY <3>3, <3>4
  <2>3. ASSUME Passing(a) PROVE a \notin AtHand /\ Passing(a)'
    <3>1. handlers[a] = BothHandlers /\ Len(BothHandlers) = 2 /\ loop[a].end = 2 BY <1>2, <2>3 DEF Passing, BothHandlers
    <3>2. ~ (loop[a].index <= Len(handlers[a])) BY <1>2, <3>1
    <3>3. a \notin AtHand BY <3>2 DEF AtHand
    <3>4. Passing(a)' BY <1>2, <1>3, <2>3 DEF Passing, Addressed, Ints
    <3> QED BY <3>3, <3>4
  <2>4. a \notin AtHand /\ Passing(a)' BY <2>1, <2>2, <2>3 DEF MemberKept
  <2>5. ReceiverKept' BY <1>0, <1>1, <1>2, <1>3, <1>6, ReceiverStays DEF ActorInv
  <2> QED BY <2>4, <2>5 DEF MemberKept
<1>7. ASSUME a = Receiver PROVE a \notin AtHand /\ ReceiverKept'
  <2>1. ReceiverKept BY DEF ActorInv
  <2>2. handlers[a] = <<"message_handler">> /\ Len(handlers[a]) = 1 /\ loop[a].end = 1
    BY <1>2, <1>7, <2>1 DEF ReceiverKept
  <2>3. ~ (loop[a].index <= Len(handlers[a])) BY <1>2, <2>2
  <2>4. a \notin AtHand BY <2>3 DEF AtHand
  <2>5. ReceiverKept' BY <1>2, <1>3, <1>7, <2>1 DEF ReceiverKept, Ints
  <2> QED BY <2>4, <2>5
<1>8. a \notin AtHand' BY <1>3 DEF AtHand, Nothing
<1>9. AtHand' = AtHand BY <1>1, <1>3, <1>6, <1>7, <1>8
<1>10. Sum' BY <1>0, <1>2, <1>9 DEF Sum
<1>11. \A m \in Members : MemberKept(m)'
  <2> SUFFICES ASSUME NEW m \in Members, m # a PROVE MemberKept(m)' BY <1>6
  <2>1. MemberKept(m) /\ m \in Addresses BY <1>1 DEF ActorInv
  <2>2. Addressed(m)' = Addressed(m) /\ Given(m)' = Given(m) BY <1>2 DEF Addressed, Given
  <2> QED BY <1>0, <1>2, <1>3, <2>1, <2>2, OthersKept
<1>12. ReceiverKept' BY <1>1, <1>6, <1>7
<1>13. \A b \in moved' : handling'[b] = Nothing \/ loop'[b].index > loop'[b].end
  <2> SUFFICES ASSUME NEW b \in moved' PROVE handling'[b] = Nothing \/ loop'[b].index > loop'[b].end
    OBVIOUS
  <2>1. b \in moved /\ b \in Addresses BY <1>0, <1>2 DEF ActorShape
  <2> QED BY <1>2, <1>3, <2>1 DEF ActorInv
<1> QED BY <1>2, <1>5, <1>10, <1>11, <1>12, <1>13 DEF ActorInv

\* The handler that a member is at, by what it has in hand.
LEMMA MemberAt ==
  ASSUME ActorInv, NEW a \in Members, More(a), Matches(a)
  PROVE  \/ /\ Learning(a) /\ handling[a].kind = "address" /\ handlers[a] = Fresh
            /\ loop[a] = [index |-> 1, end |-> 1] /\ Handler(a) = "init_handler"
         \/ /\ Passing(a) /\ handling[a].kind = "int" /\ handlers[a] = BothHandlers /\ loop[a].end = 2
            /\ loop[a].index = 2 /\ Handler(a) = "token_handler"
<1>1. a \in Addresses /\ MemberKept(a) BY AddressesAre DEF ActorInv
<1>2. handling[a] # Nothing /\ loop[a].index <= loop[a].end BY DEF More, LoopEnd
<1>3. ~ Unaddressed(a) /\ ~ Waiting(a) BY <1>2 DEF Unaddressed, Waiting
<1>4. ASSUME Learning(a)
      PROVE  /\ handling[a].kind = "address" /\ handlers[a] = Fresh
             /\ loop[a] = [index |-> 1, end |-> 1] /\ Handler(a) = "init_handler"
  <2>1. loop[a] # [index |-> 2, end |-> 1] BY <1>2
  <2>2. handlers[a] = Fresh /\ loop[a] = [index |-> 1, end |-> 1] /\ handling[a].kind = "address"
    BY <1>4, <2>1 DEF Learning
  <2> QED BY <2>2 DEF Handler, Fresh
<1>5. ASSUME Passing(a)
      PROVE  /\ handling[a].kind = "int" /\ handlers[a] = BothHandlers /\ loop[a].end = 2
             /\ loop[a].index = 2 /\ Handler(a) = "token_handler"
  <2>1. handling[a].kind = "int" /\ loop[a].end = 2 /\ loop[a].index \in 1 .. 3 /\ handlers[a] = BothHandlers
    BY <1>2, <1>5 DEF Passing
  <2>2. loop[a].index # 1
    <3> SUFFICES ASSUME loop[a].index = 1 PROVE FALSE OBVIOUS
    <3>1. handlers[a][loop[a].index] = "init_handler" BY <2>1 DEF BothHandlers
    <3> QED BY <2>1, <3>1 DEF Matches, MessageId, MessageOf
  <2>3. loop[a].index = 2 BY <1>2, <2>1, <2>2
  <2> QED BY <2>1, <2>3 DEF Handler, BothHandlers
<1> QED BY <1>1, <1>3, <1>4, <1>5 DEF MemberKept

LEMMA HandleAppended ==
  ASSUME NEW h \in Seq(Handles), NEW x \in Handles
  PROVE  /\ Append(h, x) \in Seq(Handles) /\ Len(Append(h, x)) = Len(h) + 1
         /\ Append(h, x)[Len(h) + 1] = x /\ \A i \in 1 .. Len(h) : Append(h, x)[i] = h[i]
OBVIOUS

\* The handler stays, since no message has the type that it is asked for by.
LEMMA StaysRegistered == Deregistered(Registered(Fresh, "token_handler"), "init_handler") = BothHandlers
<1>1. Registered(Fresh, "token_handler") = BothHandlers
  <2>1. /\ Fresh \in Seq(Handles) /\ BothHandlers \in Seq(Handles) /\ "token_handler" \in Handles
        /\ Len(Fresh) = 1 /\ Len(BothHandlers) = 2 /\ Fresh[1] = BothHandlers[1] /\ BothHandlers[2] = "token_handler"
    BY DEF Fresh, BothHandlers, Handles
  <2> DEFINE s == Append(Fresh, "token_handler")
  <2>2. s \in Seq(Handles) /\ Len(s) = 2 /\ s[1] = BothHandlers[1] /\ s[2] = BothHandlers[2]
    <3>1. s \in Seq(Handles) /\ Len(s) = Len(Fresh) + 1 /\ s[Len(Fresh) + 1] = "token_handler"
      BY <2>1, HandleAppended
    <3>2. \A i \in 1 .. Len(Fresh) : s[i] = Fresh[i] BY <2>1, HandleAppended
    <3> HIDE DEF s
    <3>3. Len(s) = 2 /\ s[2] = "token_handler" BY <2>1, <3>1
    <3>4. s[1] = Fresh[1] BY <2>1, <3>2
    <3>5. s[1] = BothHandlers[1] /\ s[2] = BothHandlers[2] BY <2>1, <3>3, <3>4
    <3> QED BY <3>1, <3>3, <3>5
  <2> HIDE DEF s
  <2>3. \A i \in 1 .. 2 : s[i] = BothHandlers[i] BY <2>2
  <2>4. s = BothHandlers BY <2>1, <2>2, <2>3, SeqEqual
  <2> QED BY <2>4 DEF s, Registered
<1>2. \A h, o : MessageId(h) # IdOf(o) BY DEF MessageId, IdOf
<1>3. {i \in 1 .. Len(BothHandlers) : MessageId(BothHandlers[i]) = IdOf("init_handler") /\ BothHandlers[i] = "init_handler"} = {}
  BY <1>2
<1> QED BY <1>1, <1>3 DEF Deregistered

LEMMA InitKeeps ==
  ASSUME ActorInv, NEW a \in Members, InitHandler(a)
  PROVE  ActorInv'
<1>0. ActorShape /\ Sum BY DEF ActorInv
<1>1. a \in Addresses /\ Members \subseteq Addresses /\ Receiver \notin Members /\ a # Receiver /\ Receiver \in Addresses
  BY AddressesAre
<1>2. /\ UNCHANGED <<strands, handling, received, sent, waits, destroyed>>
      /\ More(a) /\ handling[a] # Nothing /\ Matches(a) /\ Handler(a) = "init_handler" /\ Reads(a)
      /\ loop' = [loop EXCEPT ![a].index = @ + 1]
      /\ nextMember' = [nextMember EXCEPT ![a] = handling[a].value]
      /\ caller' = [caller EXCEPT ![a] = handling[a].from]
  BY DEF InitHandler, More, Advance
<1>3. /\ Learning(a) /\ handling[a].kind = "address" /\ handlers[a] = Fresh
      /\ loop[a] = [index |-> 1, end |-> 1]
  BY <1>2, MemberAt
<1>4. handlers' = [handlers EXCEPT ![a] = BothHandlers]
  <2>1. handlers' = [handlers EXCEPT ![a] = Deregistered(Registered(handlers[a], "token_handler"), "init_handler")]
    BY DEF InitHandler
  <2> QED BY <1>3, <2>1, StaysRegistered
<1>5. /\ handlers' \in [Addresses -> Seq(Handles)] /\ handlers'[a] = BothHandlers
      /\ \A b \in Addresses : b # a => handlers'[b] = handlers[b]
  <2>1. BothHandlers \in Seq(Handles) BY DEF BothHandlers, Handles
  <2> QED BY <1>0, <1>1, <1>4, <2>1 DEF ActorShape
<1>6. /\ loop' \in [Addresses -> [index : Nat, end : Nat]]
      /\ \A b \in Addresses : b # a => handling'[b] = handling[b] /\ loop'[b] = loop[b]
      /\ loop'[a] = [index |-> loop[a].index + 1, end |-> loop[a].end]
      /\ AtHand' \ {a} = AtHand \ {a} /\ AtHand' \subseteq Addresses /\ AtHand \subseteq Addresses
  BY <1>1, <1>2, <1>5, LoopMoves
<1>7. loop'[a] = [index |-> 2, end |-> 1]
  <2>1. loop[a].index = 1 /\ loop[a].end = 1 BY <1>3
  <2> QED BY <1>6, <2>1
<1>8. wild' = FALSE BY <1>1, <1>2, ReadsAlive
<1>9. nextMember' \in [Members -> Addresses] /\ caller' \in [Members -> {Receiver}]
  <2>1. handling[a] \in Mails BY <1>0, <1>1, <1>2 DEF ActorShape
  <2>2. handling[a].value \in Addresses /\ handling[a].from = Receiver BY <1>3, <2>1, MailsAre
  <2> QED BY <1>0, <1>2, <2>2 DEF ActorShape
<1>10. moved' \subseteq moved \cup {a} BY DEF InitHandler
<1>11. ActorShape' BY <1>0, <1>1, <1>2, <1>5, <1>6, <1>9, <1>10 DEF ActorShape
<1>12. AtHand' = AtHand
  <2>1. a \notin AtHand /\ a \notin AtHand' BY <1>2, <1>3 DEF AtHand
  <2>2. \A b : b \in AtHand' <=> b \in AtHand
    <3> SUFFICES ASSUME NEW b PROVE b \in AtHand' <=> b \in AtHand OBVIOUS
    <3>1. b # a => (b \in AtHand' \ {a} <=> b \in AtHand \ {a}) BY <1>6
    <3> QED BY <2>1, <3>1
  <2> QED BY <2>2
<1>13. Sum' BY <1>0, <1>2, <1>12 DEF Sum
<1>14. Learning(a)' BY <1>2, <1>3, <1>5, <1>7 DEF Learning, Addressed, Given, Ints
<1>15. \A m \in Members : MemberKept(m)'
  <2> SUFFICES ASSUME NEW m \in Members, m # a PROVE MemberKept(m)' BY <1>14 DEF MemberKept
  <2>1. MemberKept(m) /\ m \in Addresses BY <1>1 DEF ActorInv
  <2>2. Addressed(m)' = Addressed(m) /\ Given(m)' = Given(m) BY <1>2 DEF Addressed, Given
  <2> QED BY <1>0, <1>2, <1>5, <1>6, <2>1, <2>2, OthersKept
<1>16. ReceiverKept' BY <1>0, <1>1, <1>2, <1>5, <1>6, ReceiverStays DEF ActorInv
<1>17. \A b \in moved' : handling'[b] = Nothing \/ loop'[b].index > loop'[b].end
  <2> SUFFICES ASSUME NEW b \in moved' PROVE handling'[b] = Nothing \/ loop'[b].index > loop'[b].end
    OBVIOUS
  <2>1. CASE b = a BY <1>7, <2>1
  <2>2. CASE b # a
    <3>1. b \in moved /\ b \in Addresses BY <1>0, <1>10, <2>2 DEF ActorShape
    <3> QED BY <1>6, <2>2, <3>1 DEF ActorInv
  <2> QED BY <2>1, <2>2
<1> QED BY <1>2, <1>8, <1>11, <1>13, <1>15, <1>16, <1>17 DEF ActorInv

\* A message that is sent, and what is the same for all who are not sent it.
LEMMA Sends ==
  ASSUME ActorInv, NEW to \in Addresses, NEW mail \in Mails, Send(mail, to)
  PROVE  PutInto(strands, strands', to, mail)
<1> DEFINE q == strands
           r == strands'
<1>1. q \in [Addresses -> Seq(Mails)] /\ IsFiniteSet(TokensIn(q)) BY DEF ActorInv, ActorShape
<1>2. r = [q EXCEPT ![to] = Append(@, mail)] BY DEF Send
<1> HIDE DEF q, r
<1>3. PutInto(q, r, to, mail) BY <1>1, <1>2, AppendCounts
<1> QED BY <1>3 DEF q, r

LEMMA TokenKeeps ==
  ASSUME ActorInv, NEW a \in Members, TokenHandler(a)
  PROVE  ActorInv'
<1>0. ActorShape /\ Sum /\ IsFiniteSet(TokensIn(strands)) BY DEF ActorInv
<1>1. /\ a \in Addresses /\ Members \subseteq Addresses /\ Receiver \notin Members /\ a # Receiver
      /\ Receiver \in Addresses /\ Ring \in Nat /\ Members = 1 .. Ring
  BY AddressesAre
<1>2. /\ UNCHANGED <<handling, handlers, moved, nextMember, caller, received, sent, waits, destroyed>>
      /\ More(a) /\ handling[a] # Nothing /\ Matches(a) /\ Handler(a) = "token_handler" /\ Reads(a)
      /\ loop[a].index <= loop[a].end
      /\ loop' = [loop EXCEPT ![a].index = @ + 1]
  BY DEF TokenHandler, More, LoopEnd, Advance
<1>3. /\ Passing(a) /\ handling[a].kind = "int" /\ handlers[a] = BothHandlers /\ loop[a].end = 2 /\ loop[a].index = 2
  BY <1>2, MemberAt
<1>4. PICK to \in Addresses, mail \in Mails : mail.kind = "int" /\ Send(mail, to)
  <2>1. handling[a] \in Mails BY <1>0, <1>1, <1>2 DEF ActorShape
  <2>2. handling[a].value \in Nat BY <1>3, <2>1, MailsAre
  <2>3. nextMember[a] \in Addresses /\ caller[a] \in Addresses BY <1>0, <1>1 DEF ActorShape
  <2> DEFINE v == handling[a].value
             less == [kind |-> "int", value |-> v - 1, from |-> a]
             same == [kind |-> "int", value |-> v, from |-> a]
  <2>4. CASE v > 0
    <3>1. Send(less, nextMember[a]) BY <2>4 DEF TokenHandler, TailSend
    <3>2. v - 1 \in Nat BY <2>2, <2>4
    <3>3. less \in Mails /\ less.kind = "int" BY <1>1, <3>2, MailsAre
    <3> QED BY <2>3, <3>1, <3>3
  <2>5. CASE ~ (v > 0)
    <3>1. Send(same, caller[a]) BY <2>5 DEF TokenHandler, TailSend
    <3>2. same \in Mails /\ same.kind = "int" BY <1>1, <2>2, MailsAre
    <3> QED BY <2>3, <3>1, <3>2
  <2> QED BY <2>4, <2>5
<1>5. /\ strands' \in [Addresses -> Seq(Mails)]
      /\ \A b \in Addresses : b # to => strands'[b] = strands[b]
      /\ strands'[to] = Append(strands[to], mail)
      /\ IsFiniteSet(TokensIn(strands'))
      /\ Cardinality(TokensIn(strands')) = Cardinality(TokensIn(strands)) + 1
  BY <1>4, Sends DEF PutInto
<1>6. \A b \in Addresses : b = to => SentToken(b) BY <1>4, <1>5 DEF SentToken
<1>7. \A b \in Addresses : b # a => handlers'[b] = handlers[b] BY <1>2
<1>8. /\ loop' \in [Addresses -> [index : Nat, end : Nat]]
      /\ \A b \in Addresses : b # a => handling'[b] = handling[b] /\ loop'[b] = loop[b]
      /\ loop'[a].index = loop[a].index + 1 /\ loop'[a].end = loop[a].end
      /\ AtHand' \ {a} = AtHand \ {a} /\ AtHand' \subseteq Addresses /\ AtHand \subseteq Addresses
      /\ loop[a].index \in Nat /\ loop[a].end \in Nat
      /\ a \in moved => loop[a].index > loop[a].end
  BY <1>1, <1>2, <1>7, LoopMoves
<1>9. wild' = FALSE BY <1>1, <1>2, ReadsAlive
<1>10. ActorShape' BY <1>0, <1>2, <1>5, <1>8 DEF ActorShape
<1>11. a \in AtHand /\ AtHand' = AtHand \ {a}
  <2>1. Len(BothHandlers) = 2 /\ 2 <= 2 /\ ~ (3 <= 2) BY DEF BothHandlers
  <2>2. a \in AtHand BY <1>1, <1>3, <2>1 DEF AtHand
  <2>3. loop'[a].index = 3 /\ Len(handlers'[a]) = 2 BY <1>2, <1>3, <1>8, <2>1
  <2>4. a \notin AtHand' BY <2>1, <2>3 DEF AtHand
  <2> QED BY <1>8, <2>2, <2>4
<1>12. /\ Cardinality(AtHand') = Cardinality(AtHand) - 1 /\ Cardinality(AtHand) \in Nat
       /\ Cardinality(AtHand \ {a}) \in Nat
  <2>1. IsFiniteSet(AtHand \ {a}) /\ Cardinality(AtHand \ {a}) = Cardinality(AtHand) - 1 BY <1>11, HandsCount
  <2> QED BY <1>11, <2>1, HandsCount, FS_CardinalityType
<1>13. Cardinality(TokensIn(strands)) \in Nat BY <1>0, FS_CardinalityType
<1>14. Sum' BY <1>0, <1>2, <1>5, <1>12, <1>13 DEF Sum
\* Main has sent a token, so every member has been sent an address.
<1>15. \A m \in Members : Addressed(m)
  <2>1. Cardinality(AtHand) > 0 BY <1>11, <1>12
  <2>2. received \in Nat /\ waits \in Nat /\ sent \in Nat BY <1>0, <1>1 DEF ActorShape
  <2>3. sent > Ring BY <1>0, <1>1, <1>12, <1>13, <2>1, <2>2 DEF Sum
  <2> QED BY <1>1, <2>2, <2>3 DEF Addressed
<1>16. Passing(a)'
  <2>1. Ints(a)'
    <3>1. CASE a = to BY <1>0, <1>1, <1>3, <1>6, <3>1, IntsGrow DEF Passing
    <3>2. CASE a # to BY <1>1, <1>3, <1>5, <3>2 DEF Passing, Ints
    <3> QED BY <3>1, <3>2
  <2>2. loop'[a].end = 2 /\ loop'[a].index \in 1 .. 3 BY <1>3, <1>8
  <2> QED BY <1>2, <1>3, <2>1, <2>2 DEF Passing, Addressed
<1>17. \A m \in Members : MemberKept(m)'
  <2> SUFFICES ASSUME NEW m \in Members, m # a PROVE MemberKept(m)' BY <1>16 DEF MemberKept
  <2>1. MemberKept(m) /\ m \in Addresses BY <1>1 DEF ActorInv
  <2>2. Addressed(m)' = Addressed(m) /\ Given(m)' = Given(m) BY <1>2 DEF Addressed, Given
  <2>3. strands'[m] = strands[m] \/ SentToken(m) BY <1>5, <1>6, <2>1
  <2> QED BY <1>0, <1>2, <1>8, <1>15, <2>1, <2>2, <2>3, OthersKept
<1>18. ReceiverKept'
  <2>1. strands'[Receiver] = strands[Receiver] \/ SentToken(Receiver) BY <1>1, <1>5, <1>6
  <2> QED BY <1>0, <1>1, <1>2, <1>8, <2>1, ReceiverStays DEF ActorInv
<1>19. \A b \in moved' : handling'[b] = Nothing \/ loop'[b].index > loop'[b].end
  <2> SUFFICES ASSUME NEW b \in moved' PROVE handling'[b] = Nothing \/ loop'[b].index > loop'[b].end
    OBVIOUS
  <2>1. a \notin moved BY <1>2, <1>8
  <2>2. b \in moved /\ b # a /\ b \in Addresses BY <1>0, <1>2, <2>1 DEF ActorShape
  <2> QED BY <1>8, <2>2 DEF ActorInv
<1> QED BY <1>2, <1>5, <1>9, <1>10, <1>14, <1>17, <1>18, <1>19 DEF ActorInv

LEMMA MessageKeeps ==
  ASSUME ActorInv, MessageHandler(Receiver)
  PROVE  ActorInv'
<1>0. ActorShape /\ Sum /\ ReceiverKept BY DEF ActorInv
<1>1. Members \subseteq Addresses /\ Receiver \notin Members /\ Receiver \in Addresses /\ Ring \in Nat
  BY AddressesAre
<1>2. /\ UNCHANGED <<strands, handling, handlers, moved, nextMember, caller, sent, waits, destroyed>>
      /\ More(Receiver) /\ handling[Receiver] # Nothing /\ Reads(Receiver)
      /\ loop[Receiver].index <= loop[Receiver].end
      /\ loop' = [loop EXCEPT ![Receiver].index = @ + 1]
      /\ received' = received + 1
  BY DEF MessageHandler, More, LoopEnd, Advance
<1>3. \A b \in Addresses : b # Receiver => handlers'[b] = handlers[b] BY <1>2
<1>4. /\ loop' \in [Addresses -> [index : Nat, end : Nat]]
      /\ \A b \in Addresses : b # Receiver => handling'[b] = handling[b] /\ loop'[b] = loop[b]
      /\ loop'[Receiver].index = loop[Receiver].index + 1 /\ loop'[Receiver].end = loop[Receiver].end
      /\ AtHand' \ {Receiver} = AtHand \ {Receiver} /\ AtHand' \subseteq Addresses /\ AtHand \subseteq Addresses
      /\ loop[Receiver].index \in Nat /\ loop[Receiver].end \in Nat
      /\ Receiver \in moved => loop[Receiver].index > loop[Receiver].end
  BY <1>1, <1>2, <1>3, LoopMoves
<1>5. wild' = FALSE BY <1>1, <1>2, ReadsAlive
<1>6. /\ handling[Receiver].kind = "int" /\ loop[Receiver].end = 1 /\ loop[Receiver].index = 1
      /\ handlers[Receiver] = <<"message_handler">>
  BY <1>0, <1>2 DEF ReceiverKept
<1>7. ActorShape' BY <1>0, <1>2, <1>4 DEF ActorShape
<1>8. Receiver \in AtHand /\ AtHand' = AtHand \ {Receiver}
  <2>1. Len(handlers[Receiver]) = 1 /\ 1 <= 1 /\ ~ (2 <= 1) BY <1>6
  <2>2. Receiver \in AtHand BY <1>1, <1>6, <2>1 DEF AtHand
  <2>3. loop'[Receiver].index = 2 /\ Len(handlers'[Receiver]) = 1 BY <1>2, <1>4, <1>6, <2>1
  <2>4. Receiver \notin AtHand' BY <2>1, <2>3 DEF AtHand
  <2> QED BY <1>4, <2>2, <2>4
<1>9. Cardinality(AtHand') = Cardinality(AtHand) - 1 /\ Cardinality(AtHand) \in Nat BY <1>8, HandsCount
<1>10. Cardinality(TokensIn(strands)) \in Nat /\ received \in Nat /\ waits \in Nat /\ sent \in Nat
  BY <1>0, <1>1, FS_CardinalityType DEF ActorInv, ActorShape
<1>11. Sum' BY <1>0, <1>1, <1>2, <1>9, <1>10 DEF Sum
<1>12. \A m \in Members : MemberKept(m)'
  <2> SUFFICES ASSUME NEW m \in Members PROVE MemberKept(m)' OBVIOUS
  <2>1. MemberKept(m) /\ m \in Addresses /\ m # Receiver BY <1>1 DEF ActorInv
  <2>2. Addressed(m)' = Addressed(m) /\ Given(m)' = Given(m) BY <1>2 DEF Addressed, Given
  <2> QED BY <1>0, <1>2, <1>4, <2>1, <2>2, OthersKept
<1>13. ReceiverKept' BY <1>0, <1>2, <1>4, <1>6 DEF ReceiverKept, Ints
<1>14. \A b \in moved' : handling'[b] = Nothing \/ loop'[b].index > loop'[b].end
  <2> SUFFICES ASSUME NEW b \in moved' PROVE handling'[b] = Nothing \/ loop'[b].index > loop'[b].end
    OBVIOUS
  <2>1. Receiver \notin moved BY <1>2, <1>4
  <2>2. b \in moved /\ b # Receiver /\ b \in Addresses BY <1>0, <1>2, <2>1 DEF ActorShape
  <2> QED BY <1>4, <2>2 DEF ActorInv
<1> QED BY <1>2, <1>5, <1>7, <1>11, <1>12, <1>13, <1>14 DEF ActorInv

LEMMA MainSends ==
  ASSUME ActorInv, MainSend
  PROVE  ActorInv'
<1>0. ActorShape /\ Sum /\ IsFiniteSet(TokensIn(strands)) BY DEF ActorInv
<1>1. /\ Members \subseteq Addresses /\ Receiver \notin Members /\ Receiver \in Addresses /\ Receiver = 0
      /\ Ring \in Nat /\ Members = 1 .. Ring /\ Addresses = 0 .. Ring
  BY AddressesAre
<1>2. /\ UNCHANGED <<handling, loop, handlers, moved, nextMember, caller, received, waits, destroyed, wild>>
      /\ sent < 2 * Ring /\ sent' = sent + 1 /\ sent \in Nat /\ received \in Nat /\ waits \in 0 .. Ring
      /\ sent' \in 0 .. 2 * Ring
  BY <1>0, <1>1 DEF MainSend, ActorShape
<1>3. AtHand' = AtHand BY <1>2 DEF AtHand
<1>4. Cardinality(TokensIn(strands)) \in Nat /\ Cardinality(AtHand) \in Nat
  BY <1>0, HandsCount, FS_CardinalityType
<1>5. waits = 0
  <2>1. waits > 0 => sent = 2 * Ring BY DEF ActorInv
  <2> QED BY <1>1, <1>2, <2>1
<1>6. destroyed' => waits' = Ring BY <1>2 DEF ActorInv
<1>7. \A b \in moved' : handling'[b] = Nothing \/ loop'[b].index > loop'[b].end BY <1>2 DEF ActorInv
<1>8. CASE sent < Ring
  <2>0. PICK to \in Members : to = Ring - sent
    <3>1. Ring - sent \in Members BY <1>1, <1>2, <1>8
    <3> QED BY <3>1
  <2>1. PICK v \in Addresses : Send([kind |-> "address", value |-> v, from |-> Receiver], to)
    <3>1. (IF sent = 0 THEN 1 ELSE Ring - sent + 1) \in Addresses BY <1>1, <1>2, <1>8
    <3> QED BY <1>8, <2>0, <3>1 DEF MainSend
  <2> DEFINE mail == [kind |-> "address", value |-> v, from |-> Receiver]
  <2>2. mail \in Mails /\ mail.kind = "address" /\ to \in Addresses /\ to \in Members BY <1>1, <1>2, <1>8, MailsAre
  <2>3. PutInto(strands, strands', to, mail) BY <2>1, <2>2, Sends
  <2> HIDE DEF mail
  <2>4. /\ strands' \in [Addresses -> Seq(Mails)]
        /\ \A b \in Addresses : b # to => strands'[b] = strands[b]
        /\ Len(strands'[to]) = Len(strands[to]) + 1 /\ strands'[to][Len(strands[to]) + 1] = mail
        /\ IsFiniteSet(TokensIn(strands'))
        /\ Cardinality(TokensIn(strands')) = Cardinality(TokensIn(strands))
    BY <1>4, <2>2, <2>3 DEF PutInto
  <2>5. ActorShape' BY <1>0, <1>2, <2>4 DEF ActorShape
  <2>6. Sum' BY <1>0, <1>1, <1>2, <1>3, <1>4, <1>5, <1>8, <2>4 DEF Sum
  <2>7. Waiting(to)'
    <3>1. Unaddressed(to)
      <4>1. MemberKept(to) /\ ~ Addressed(to) BY <1>1, <1>2, <2>0, <2>2 DEF ActorInv, Addressed
      <4> QED BY <4>1 DEF MemberKept, Waiting, Learning, Passing
    <3>2. Len(strands[to]) = 0 BY <3>1, EmptySeq DEF Unaddressed
    <3>3. Len(strands'[to]) = 1 /\ strands'[to][1] = mail /\ strands'[to] # <<>> BY <2>4, <3>2, EmptySeq
    <3>4. Addressed(to)' /\ ~ Given(to)' BY <1>1, <1>2, <1>8, <2>0 DEF Addressed, Given
    <3>5. 2 .. Len(strands'[to]) = {} BY <3>3
    <3> QED BY <1>2, <2>2, <3>1, <3>3, <3>4, <3>5 DEF Waiting, Unaddressed
  <2>8. \A m \in Members : MemberKept(m)'
    <3> SUFFICES ASSUME NEW m \in Members, m # to PROVE MemberKept(m)' BY <2>7 DEF MemberKept
    <3>1. MemberKept(m) /\ m \in Addresses BY <1>1 DEF ActorInv
    <3>2. Addressed(m)' = Addressed(m) /\ Given(m)' = Given(m) BY <1>1, <1>2, <1>8, <2>0 DEF Addressed, Given
    <3> QED BY <1>0, <1>2, <2>4, <3>1, <3>2, OthersKept
  <2>9. ReceiverKept' BY <1>0, <1>1, <1>2, <2>2, <2>4, ReceiverStays DEF ActorInv
  <2>10. waits' > 0 => sent' = 2 * Ring BY <1>2, <1>5
  <2>11. wild' = FALSE BY <1>2 DEF ActorInv
  <2> QED BY <1>6, <1>7, <2>4, <2>5, <2>6, <2>8, <2>9, <2>10, <2>11 DEF ActorInv
<1>9. CASE ~ (sent < Ring)
  <2>0. PICK to \in Members : to = sent - Ring + 1
    <3>1. sent - Ring + 1 \in Members BY <1>1, <1>2, <1>9
    <3> QED BY <3>1
  <2> DEFINE mail == [kind |-> "int", value |-> TokenValue, from |-> Receiver]
  <2>1. Send(mail, to) BY <1>9, <2>0 DEF MainSend
  <2>2. mail \in Mails /\ mail.kind = "int" /\ to \in Addresses /\ to \in Members
    BY <1>1, <1>2, <1>9, MailsAre, ActorsAssumption
  <2>3. PutInto(strands, strands', to, mail) BY <2>1, <2>2, Sends
  <2> HIDE DEF mail
  <2>4. /\ strands' \in [Addresses -> Seq(Mails)]
        /\ \A b \in Addresses : b # to => strands'[b] = strands[b]
        /\ strands'[to] = Append(strands[to], mail)
        /\ IsFiniteSet(TokensIn(strands'))
        /\ Cardinality(TokensIn(strands')) = Cardinality(TokensIn(strands)) + 1
    BY <2>2, <2>3 DEF PutInto
  <2>5. ActorShape' BY <1>0, <1>2, <2>4 DEF ActorShape
  <2>6. Sum'
    <3>1. Cardinality(TokensIn(strands)) + Cardinality(AtHand) + received + waits = sent - Ring
      BY <1>0, <1>9 DEF Sum
    <3>2. ~ (sent' < Ring) /\ sent' - Ring = (sent - Ring) + 1 BY <1>1, <1>2, <1>9
    <3>3. Cardinality(TokensIn(strands')) + Cardinality(AtHand') + received' + waits' = sent' - Ring
      <4> DEFINE n == Cardinality(TokensIn(strands))
                 k == Cardinality(AtHand)
      <4>1. Cardinality(TokensIn(strands')) = n + 1 /\ Cardinality(AtHand') = k BY <1>3, <2>4
      <4>2. n + k + received + waits = sent - Ring /\ n \in Nat /\ k \in Nat BY <1>4, <3>1
      <4>3. received' = received /\ waits' = waits /\ waits \in Nat /\ received \in Nat BY <1>1, <1>2
      <4> HIDE DEF n, k
      <4> QED BY <3>2, <4>1, <4>2, <4>3
    <3> QED BY <3>2, <3>3 DEF Sum
  <2>7. \A m \in Members : MemberKept(m)'
    <3> SUFFICES ASSUME NEW m \in Members PROVE MemberKept(m)' OBVIOUS
    <3>1. MemberKept(m) /\ m \in Addresses BY <1>1 DEF ActorInv
    <3>2. Addressed(m)' = Addressed(m) /\ Addressed(m) BY <1>1, <1>2, <1>9 DEF Addressed
    <3>3. CASE m = to
      <4>1. SentToken(m) BY <2>2, <2>4, <3>3 DEF SentToken
      <4> QED BY <1>0, <1>2, <3>1, <3>2, <4>1, OthersKept
    <3>4. CASE m # to
      <4>1. Given(m)' = Given(m) BY <1>1, <1>2, <1>9, <2>0, <3>4 DEF Given
      <4> QED BY <1>0, <1>2, <2>4, <3>1, <3>2, <3>4, <4>1, OthersKept
    <3> QED BY <3>3, <3>4
  <2>8. ReceiverKept' BY <1>0, <1>1, <1>2, <2>2, <2>4, ReceiverStays DEF ActorInv
  <2>9. waits' > 0 => sent' = 2 * Ring BY <1>2, <1>5
  <2>10. wild' = FALSE BY <1>2 DEF ActorInv
  <2> QED BY <1>6, <1>7, <2>4, <2>5, <2>6, <2>7, <2>8, <2>9, <2>10 DEF ActorInv
<1> QED BY <1>8, <1>9

LEMMA MainRestKeeps ==
  ASSUME ActorInv, MainWait \/ MainLeaves \/ UNCHANGED actorVars
  PROVE  ActorInv'
<1>1. UNCHANGED <<strands, handling, loop, handlers, moved, nextMember, caller, sent, wild>>
  BY DEF MainWait, MainLeaves, actorVars
<1>2. ActorShape /\ Sum BY DEF ActorInv
<1>3. /\ Ring \in Nat /\ received \in Nat /\ waits \in 0 .. Ring /\ sent \in 0 .. 2 * Ring
  BY <1>2, AddressesAre DEF ActorShape
<1>4. AtHand' = AtHand BY <1>1 DEF AtHand
<1>5. /\ received' \in Nat /\ waits' \in 0 .. Ring /\ received' + waits' = received + waits
      /\ destroyed' \in BOOLEAN
      /\ waits' > 0 => sent = 2 * Ring
  <2>1. CASE MainWait
    <3>1. /\ sent = 2 * Ring /\ waits < Ring /\ received > 0 /\ received' = received - 1
          /\ waits' = waits + 1 /\ destroyed' = destroyed
      BY <2>1 DEF MainWait
    <3> QED BY <1>2, <1>3, <3>1 DEF ActorShape
  <2>2. CASE MainLeaves \/ UNCHANGED actorVars
    <3>1. received' = received /\ waits' = waits /\ destroyed' \in BOOLEAN
      BY <1>2, <2>2 DEF MainLeaves, actorVars, ActorShape
    <3>2. waits > 0 => sent = 2 * Ring BY DEF ActorInv
    <3> QED BY <1>3, <3>1, <3>2
  <2> QED BY <2>1, <2>2
<1>6. destroyed' => waits' = Ring
  <2>1. CASE MainWait
    <3>1. waits < Ring /\ destroyed' = destroyed BY <2>1 DEF MainWait
    <3>2. destroyed => waits = Ring BY DEF ActorInv
    <3> QED BY <1>3, <3>1, <3>2
  <2>2. CASE MainLeaves BY <2>2 DEF MainLeaves
  <2>3. CASE UNCHANGED actorVars BY <2>3 DEF ActorInv, actorVars
  <2> QED BY <2>1, <2>2, <2>3
<1>7. ActorShape' BY <1>1, <1>2, <1>5 DEF ActorShape
<1>8. Sum'
  <2>1. Cardinality(TokensIn(strands)) \in Nat /\ Cardinality(AtHand) \in Nat
    BY HandsCount, FS_CardinalityType DEF ActorInv
  <2> DEFINE n == Cardinality(TokensIn(strands))
             k == Cardinality(AtHand)
             s == IF sent < Ring THEN 0 ELSE sent - Ring
  <2>2. Cardinality(TokensIn(strands')) = n /\ Cardinality(AtHand') = k BY <1>1, <1>4
  <2>3. n + k + received + waits = s /\ n \in Nat /\ k \in Nat BY <1>2, <2>1 DEF Sum
  <2>4. Cardinality(TokensIn(strands')) + Cardinality(AtHand') + received' + waits' = s
    <3>1. received \in Nat /\ waits \in Nat BY <1>3
    <3>2. received' \in Nat /\ waits' \in 0 .. Ring BY <1>5
    <3>3. waits' \in Nat BY <1>3, <3>2
    <3>4. received' + waits' = received + waits BY <1>5
    <3> HIDE DEF n, k, s
    <3>5. n + k + received' + waits' = n + k + (received' + waits') BY <2>3, <3>2, <3>3
    <3>6. n + k + received + waits = n + k + (received + waits) BY <2>3, <3>1
    <3> QED BY <2>2, <2>3, <3>4, <3>5, <3>6
  <2> QED BY <1>1, <2>4 DEF Sum
<1>9. \A m \in Members : MemberKept(m)'
  <2> SUFFICES ASSUME NEW m \in Members PROVE MemberKept(m)' OBVIOUS
  <2>1. MemberKept(m) BY DEF ActorInv
  <2>2. Addressed(m)' = Addressed(m) /\ Given(m)' = Given(m) BY <1>1 DEF Addressed, Given
  <2> QED BY <1>1, <1>2, <2>1, <2>2, OthersKept
<1>10. ReceiverKept' BY <1>1, <1>2, ReceiverStays DEF ActorInv
<1> QED BY <1>1, <1>5, <1>6, <1>7, <1>8, <1>9, <1>10 DEF ActorInv

LEMMA ActorStepKeeps == ActorInv /\ [ActorNext]_actorVars => ActorInv'
BY MainSends, MainRestKeeps, InitKeeps, TokenKeeps, SkipKeeps, MessageKeeps, HandlerCalled, EndLoopKeeps
   DEF ActorNext

\* No token gets lost or is doubled, in a ring of any size: whatever strand runs
\* first, what main has sent is with the members or was received; and call_handler
\* reads no handler of a vector that a handler has reallocated meanwhile, or that
\* main has destroyed (actor.cpp:122-165, 227-248, 271-281).
THEOREM TokensAreKept == ActorSpec => []TokensKept
<1>1. ActorInv => TokensKept BY DEF ActorInv, Sum, TokensKept
<1>2. ActorSpec => []ActorInv BY ActorsBegin, ActorStepKeeps, PTL DEF ActorSpec
<1> QED BY <1>1, <1>2, PTL

\* No strand has more to run than the tokens there are and one address.
LEMMA StrandsAreShort ==
  ASSUME ActorInv, NEW a \in Addresses
  PROVE  Len(strands[a]) <= 2 * Ring
<1>0. /\ strands[a] \in Seq(Mails) /\ Len(strands[a]) \in Nat /\ strands \in [Addresses -> Seq(Mails)]
      /\ Ring \in Nat
  BY ActorsAssumption DEF ActorInv, ActorShape
<1>1. Cardinality(TokensIn(strands)) \in Nat /\ Cardinality(TokensIn(strands)) <= Ring
  <2>1. AtHand \subseteq Addresses BY DEF AtHand
  <2>2. Cardinality(AtHand) \in Nat BY <2>1, AddressesAre, FS_Subset, FS_CardinalityType
  <2>3. Cardinality(TokensIn(strands)) \in Nat BY FS_CardinalityType DEF ActorInv
  <2>4. received \in Nat /\ waits \in Nat /\ sent \in Nat /\ sent <= 2 * Ring
    BY <1>0 DEF ActorInv, ActorShape
  <2> QED BY <1>0, <2>2, <2>3, <2>4 DEF ActorInv, Sum
<1>2. ASSUME NEW lo \in {1, 2}, \A i \in lo .. Len(strands[a]) : strands[a][i].kind = "int"
      PROVE  Len(strands[a]) <= Ring + (lo - 1)
  <2> DEFINE n == Len(strands[a])
             f == [i \in lo .. n |-> <<a, i>>]
  <2>1. \A i \in lo .. n : <<a, i>> \in TokensIn(strands)
    <3> SUFFICES ASSUME NEW i \in lo .. n PROVE <<a, i>> \in TokensIn(strands) OBVIOUS
    <3>1. i \in 1 .. n /\ strands[a][i].kind = "int" BY <1>0, <1>2
    <3> QED BY <1>0, <3>1, TokensAre
  <2>2. f \in Injection(lo .. n, TokensIn(strands)) BY <2>1 DEF Injection, IsInjective
  <2>3. Cardinality(lo .. n) <= Cardinality(TokensIn(strands)) BY <2>2, FS_Injection DEF ActorInv
  <2> HIDE DEF n
  <2>4. n \in Nat BY <1>0 DEF n
  <2>5. Cardinality(lo .. n) = IF lo > n THEN 0 ELSE n - lo + 1 BY <2>4, FS_Interval
  <2>6. n <= Ring + (lo - 1) BY <1>0, <1>1, <2>3, <2>4, <2>5
  <2> QED BY <2>6 DEF n
<1>3. CASE a = Receiver
  <2>1. Len(strands[a]) <= Ring + 0 BY <1>2, <1>3 DEF ActorInv, ReceiverKept, Ints
  <2> QED BY <1>0, <2>1
<1>4. CASE a \in Members
  <2>1. Ring >= 1 BY <1>0, <1>4 DEF Members
  <2>2. \A i \in 2 .. Len(strands[a]) : strands[a][i].kind = "int"
    BY <1>0, <1>4 DEF ActorInv, MemberKept, Unaddressed, Waiting, Learning, Passing, Ints
  <2>3. Len(strands[a]) <= Ring + 1 BY <1>2, <2>2
  <2> QED BY <1>0, <2>1, <2>3
<1> QED BY <1>3, <1>4 DEF Addresses

LEMMA ActorTypes == ActorSpec => []ActorTypeOK
<1>1. ActorInv => ActorTypeOK
  <2> SUFFICES ASSUME ActorInv PROVE ActorTypeOK OBVIOUS
  <2>1. received \in 0 .. Ring
    <3>1. AtHand \subseteq Addresses BY DEF AtHand
    <3>2. Cardinality(AtHand) \in Nat BY <3>1, AddressesAre, FS_Subset, FS_CardinalityType
    <3>3. Cardinality(TokensIn(strands)) \in Nat BY FS_CardinalityType DEF ActorInv
    <3>4. received \in Nat /\ waits \in Nat /\ sent \in Nat /\ sent <= 2 * Ring
      BY ActorsAssumption DEF ActorInv, ActorShape
    <3> QED BY <3>2, <3>3, <3>4, ActorsAssumption DEF ActorInv, Sum
  <2>2. \A a \in Addresses : handlers[a] \in Seq(Handles) BY DEF ActorInv, ActorShape
  <2>3. wild \in BOOLEAN BY DEF ActorInv
  <2> QED BY <2>1, <2>2, <2>3, StrandsAreShort DEF ActorInv, ActorShape, ActorTypeOK
<1> QED BY <1>1, ActorsBegin, ActorStepKeeps, PTL DEF ActorSpec
=============================================================================
