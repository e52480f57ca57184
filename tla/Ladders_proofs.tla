--------------------------- MODULE Ladders_proofs ---------------------------
(***************************************************************************)
(* What can be said of any drivers that are written with ladders, from     *)
(* their tables alone: whether a driver that passed a step of init still   *)
(* owns what it acquired, who can take what from whom, and what is left.   *)
(***************************************************************************)
EXTENDS Ladders, TLAPS

Steps(d) == 1..Len(Acq[d])
ToLadder(d, k) == k \in Steps(d) /\ Fault[d][k] \in {"ladder", "silent"}

\* The actions that leave the pool alone, and all of them.
Quiet(d) == Start(d) \/ Fail(d) \/ FailUnseen(d) \/ Oops(d) \/ Loaded(d) \/ Unload(d)
            \/ LoadedHollow(d)
Step(d) == Quiet(d) \/ Acquire(d) \/ Release(d) \/ Gone(d)

LEMMA NextSteps == [Next]_vars => (\E d \in Drivers : Step(d)) \/ UNCHANGED vars
  BY DEF Next, Step, Quiet

-----------------------------------------------------------------------------
(* Type correctness.  The ladder that runs is the one of a step that has    *)
(* one, and only a step whose error is not returned leaves a hollow driver. *)

BrokeInv ==
    \A d \in Drivers :
        /\ stage[d] = "undo" => ToLadder(d, broke[d]) /\ d \in failed
        /\ stage[d] \in {"out", "init", "oops"} => broke[d] = 0
        /\ Hollow(d) => hollowed /\ ToLadder(d, broke[d]) /\ Fault[d][broke[d]] = "silent"

LEMMA TypeInit == Init => TypeOK /\ BrokeInv
<1> SUFFICES ASSUME Init PROVE TypeOK /\ BrokeInv
  OBVIOUS
<1>1. number \in [Drivers -> Numbers]
  BY EntriesAssumption DEF Init
<1>2. owner \in [Pool -> Drivers \cup {Nobody}] /\ held \in [Drivers -> SUBSET Handles]
  BY DEF Init
<1>3. TypeOK
  <2>1. /\ board \in Boards /\ at \in [Drivers -> Nat \ {0}] /\ broke \in [Drivers -> Nat]
        /\ stage \in [Drivers -> {"out", "init", "undo", "oops", "in", "exit"}]
    BY DEF Init
  <2>2. failed \subseteq Drivers /\ hollowed \in BOOLEAN
    BY DEF Init
  <2> QED
    BY <1>1, <1>2, <2>1, <2>2 DEF TypeOK
<1>4. BrokeInv
  BY DEF Init, BrokeInv, Hollow
<1> QED
  BY <1>3, <1>4

LEMMA ReleasesType ==
    ASSUME TypeOK, BrokeInv, NEW d \in Drivers, Releasing(d)
    PROVE  Releases(d) \in Seq(Entries) /\ Len(Releases(d)) \in Nat
<1>1. Releases(d) \in Seq(Entries)
  BY TableAssumption DEF Releases, Releasing, BrokeInv, ToLadder, Steps
<1> QED
  BY <1>1

LEMMA CalledType ==
    ASSUME TypeOK, BrokeInv, NEW d \in Drivers, Release(d)
    PROVE  Called(d) \in Entries /\ at[d] \in 1..Len(Releases(d))
  BY ReleasesType DEF TypeOK, Release, Called

LEMMA RealType ==
    ASSUME NEW d \in Drivers, NEW x \in Entries, NEW m \in Numbers
    PROVE  <<x, IF x \in Dynamic THEN m ELSE 0>> \in Pool
  BY DEF Pool

\* An acquiring step of d takes its entry at number m.
At(x, m) == <<x, IF x \in Dynamic THEN m ELSE 0>>
Takes(d, m) ==
    /\ StepOf(d) \in Entries
    /\ Take(d, StepOf(d), m) /\ At(StepOf(d), m) \in Pool
    /\ StepOf(d) # Region => m = number[d]
    /\ StepOf(d) = Region => at[d] = 1
    /\ \/ owner[At(StepOf(d), m)] = Nobody
       \/ owner[At(StepOf(d), m)] = d
       \/ StepOf(d) \in Dynamic /\ hollowed

LEMMA AcquireTakes ==
    ASSUME TypeOK, NEW d \in Drivers, Acquire(d)
    PROVE  \/ StepOf(d) = Nothing /\ UNCHANGED <<owner, held, number>>
           \/ \E m \in Numbers : Takes(d, m)
<1>1. CASE StepOf(d) = Nothing
  BY <1>1, EntriesAssumption DEF Acquire
<1>2. CASE StepOf(d) # Nothing
  <2>1. at[d] \in Steps(d)
    BY TableAssumption DEF Acquire, InInit, Steps, TypeOK
  <2>2. StepOf(d) \in Entries /\ (StepOf(d) = Region => at[d] = 1)
    BY <1>2, <2>1, TableAssumption DEF StepOf, Steps
  <2>3. CASE StepOf(d) = Region
    <3>1. PICK m \in Numbers \ {0} : owner[<<Region, m>>] = Nobody /\ Take(d, Region, m)
      BY <1>2, <2>3 DEF Acquire
    <3>2. At(Region, m) = <<Region, m>> /\ At(Region, m) \in Pool
      BY EntriesAssumption, RealType DEF At
    <3> QED
      BY <2>2, <2>3, <3>1, <3>2 DEF Takes
  <2>4. CASE StepOf(d) # Region
    <3>1. CanHave(d, StepOf(d)) /\ Take(d, StepOf(d), number[d])
      BY <1>2, <2>4 DEF Acquire
    <3>2. number[d] \in Numbers
      BY DEF TypeOK
    <3> QED
      BY <2>2, <2>4, <3>1, <3>2, RealType DEF CanHave, Real, Takes, At
  <2> QED
    BY <2>3, <2>4
<1> QED
  BY <1>1, <1>2

LEMMA TypeNext == TypeOK /\ BrokeInv /\ [Next]_vars => TypeOK' /\ BrokeInv'
<1> SUFFICES ASSUME TypeOK, BrokeInv, [Next]_vars PROVE TypeOK' /\ BrokeInv'
  OBVIOUS
<1> USE DEF TypeOK, BrokeInv, Hollow, Enter, Advance, InInit
<1>1. ASSUME NEW d \in Drivers, Start(d) PROVE TypeOK' /\ BrokeInv'
  BY <1>1 DEF Start
<1>2. ASSUME NEW d \in Drivers, Loaded(d) PROVE TypeOK' /\ BrokeInv'
  BY <1>2 DEF Loaded
<1>3. ASSUME NEW d \in Drivers, Unload(d) PROVE TypeOK' /\ BrokeInv'
  BY <1>3 DEF Unload
<1>4. ASSUME NEW d \in Drivers, Acquire(d) PROVE TypeOK' /\ BrokeInv'
  <2>1. /\ owner' \in [Pool -> Drivers \cup {Nobody}] /\ number' \in [Drivers -> Numbers]
        /\ held' \in [Drivers -> SUBSET Handles]
    <3>1. CASE UNCHANGED <<owner, held, number>>
      BY <3>1
    <3>2. ASSUME NEW m \in Numbers, Takes(d, m)
          PROVE  /\ owner' \in [Pool -> Drivers \cup {Nobody}] /\ number' \in [Drivers -> Numbers]
                 /\ held' \in [Drivers -> SUBSET Handles]
      BY <3>2 DEF Takes, Take
    <3>3. TypeOK
      OBVIOUS
    <3> HIDE DEF TypeOK, BrokeInv
    <3> QED
      BY <1>4, <3>1, <3>2, <3>3, AcquireTakes
  <2>2. stage' = stage /\ broke' = broke /\ at' \in [Drivers -> Nat \ {0}]
    BY <1>4 DEF Acquire
  <2> QED
    BY <1>4, <2>1, <2>2 DEF Acquire
<1>5. ASSUME NEW d \in Drivers, Fail(d) PROVE TypeOK' /\ BrokeInv'
  <2>1. ToLadder(d, at[d])
    BY <1>5, TableAssumption DEF Fail, FaultOf, ToLadder, Steps
  <2> QED
    BY <1>5, <2>1 DEF Fail, ToLadder, Steps
<1>6. ASSUME NEW d \in Drivers, FailUnseen(d) PROVE TypeOK' /\ BrokeInv'
  BY <1>6 DEF FailUnseen
<1>11. ASSUME NEW d \in Drivers, Oops(d) PROVE TypeOK' /\ BrokeInv'
  BY <1>11 DEF Oops
<1>7. ASSUME NEW d \in Drivers, Release(d) PROVE TypeOK' /\ BrokeInv'
  <2>1. /\ owner' \in [Pool -> Drivers \cup {Nobody}]
        /\ held' \in [Drivers -> SUBSET Handles]
    BY <1>7, CalledType, RealType DEF Release, Called, Real
  <2>2. stage' = stage /\ broke' = broke /\ at' \in [Drivers -> Nat \ {0}]
    BY <1>7 DEF Release
  <2> QED
    BY <1>7, <2>1, <2>2 DEF Release
<1>8. ASSUME NEW d \in Drivers, Gone(d) PROVE TypeOK' /\ BrokeInv'
  BY <1>8, EntriesAssumption DEF Gone, Done
<1>9. ASSUME NEW d \in Drivers, LoadedHollow(d) PROVE TypeOK' /\ BrokeInv'
  BY <1>9 DEF LoadedHollow, ToLadder
<1>10. CASE UNCHANGED vars
  BY <1>10 DEF vars
<1> QED
  BY <1>1, <1>2, <1>3, <1>4, <1>5, <1>6, <1>7, <1>8, <1>9, <1>10, <1>11
     DEF Next

LEMMA Typed == Spec => [](TypeOK /\ BrokeInv)
  BY TypeInit, TypeNext, PTL DEF Spec

\* Owners are drivers, and what is released is an entry, for any tables.
THEOREM TypeCorrect == Spec => []TypeOK
  BY Typed, PTL

-----------------------------------------------------------------------------
(* How far a driver is, and what a step leaves alone.                       *)

\* Step k of d's init has acquired x when it is passed.
Got(d, k, x) == k \in Steps(d) /\ Fault[d][k] # "ignored" /\ Acq[d][k] = x
\* x is among the first n - 1 releases of s.
Freed(s, n, x) == \E m \in 1..Len(s) : m < n /\ s[m] = x
\* The first step of init that d did not pass; a hollow driver starts again.
Reach(d) == CASE stage[d] = "out"             -> 1
              [] stage[d] \in {"init", "oops"} -> at[d]
              [] stage[d] = "undo"            -> broke[d]
              [] OTHER                        -> IF Hollow(d) THEN 1 ELSE Len(Acq[d]) + 1
Released(d, x) == Releasing(d) /\ Freed(Releases(d), at[d], x)
\* d has acquired x for certain, or maybe, and did not release it yet.
Has(d, x) == (\E k \in Steps(d) : k < Reach(d) /\ Got(d, k, x)) /\ ~Released(d, x)
Mine(d, x) == (\E k \in Steps(d) : k < Reach(d) /\ Acq[d][k] = x) /\ ~Released(d, x)

Unmoved(e) ==
    /\ stage'[e] = stage[e] /\ at'[e] = at[e] /\ broke'[e] = broke[e]
    /\ held'[e] = held[e] /\ number'[e] = number[e]

\* A step of d moves no other driver.
LEMMA OthersUnmoved ==
    ASSUME TypeOK, NEW d \in Drivers, Step(d), NEW e \in Drivers, e # d
    PROVE  Unmoved(e)
<1> USE DEF TypeOK, Unmoved, Enter, Advance
<1>1. CASE Start(d) \/ Fail(d) \/ FailUnseen(d) \/ Oops(d)
  BY <1>1 DEF Start, Fail, FailUnseen, Oops
<1>2. CASE Loaded(d) \/ Unload(d) \/ LoadedHollow(d)
  BY <1>2 DEF Loaded, Unload, LoadedHollow
<1>3. CASE Acquire(d)
  BY <1>3 DEF Acquire, Take
<1>4. CASE Release(d)
  BY <1>4 DEF Release
<1>5. CASE Gone(d)
  BY <1>5 DEF Gone
<1> QED
  BY <1>1, <1>2, <1>3, <1>4, <1>5 DEF Step, Quiet

\* What a driver has depends on its own progress only.
LEMMA UnmovedHas ==
    ASSUME NEW e \in Drivers, Unmoved(e), NEW x
    PROVE  /\ Has(e, x)' = Has(e, x) /\ Mine(e, x)' = Mine(e, x)
           /\ Real(e, x)' = Real(e, x)
<1>1. Hollow(e)' = Hollow(e)
  BY DEF Hollow, Unmoved
<1>2. Reach(e)' = Reach(e)
  BY <1>1 DEF Reach, Unmoved
<1>3. Released(e, x)' = Released(e, x)
  BY DEF Released, Releasing, Releases, Unmoved
<1> QED
  BY <1>2, <1>3 DEF Has, Mine, Real, Unmoved

LEMMA QuietPool ==
    ASSUME NEW d, Quiet(d)
    PROVE  UNCHANGED <<owner, held, number>>
  BY DEF Quiet, Start, Fail, FailUnseen, Oops, Loaded, Unload, LoadedHollow

\* Nothing of d is released when d has only entered a stage.
LEMMA EnterReleased ==
    ASSUME TypeOK, NEW d \in Drivers, NEW s, Enter(d, s), NEW x
    PROVE  ~Released(d, x)'
  BY DEF Enter, Released, Freed, TypeOK

\* A step that leaves the pool alone adds nothing to what its driver has.
LEMMA QuietHas ==
    ASSUME TypeOK, BrokeInv, NEW e \in Drivers, Quiet(e), NEW x, Has(e, x)'
    PROVE  Has(e, x)
<1>a. Len(Acq[e]) \in Nat
  BY TableAssumption
<1>b. PICK k \in Steps(e) : k < Reach(e)' /\ Got(e, k, x)
  BY DEF Has, Got
<1> USE DEF TypeOK, Enter, Reach
<1>1. CASE Start(e)
  <2>1. Reach(e)' = 1
    BY <1>1 DEF Start
  <2> QED
    BY <1>b, <2>1 DEF Steps
<1>2. CASE Fail(e)
  <2>1. stage[e] = "init" /\ Reach(e)' = Reach(e)
    BY <1>2 DEF Fail, InInit
  <2> QED
    BY <1>b, <2>1 DEF Has, Released, Releasing
<1>3. CASE FailUnseen(e)
  <2>1. stage[e] = "init" /\ Reach(e) = at[e] /\ Reach(e)' = at[e] + 1
    BY <1>3 DEF FailUnseen, InInit, Advance
  <2>2. k # at[e]
    BY <1>3, <1>b DEF FailUnseen, FaultOf, Got
  <2>3. k < Reach(e)
    BY <1>b, <2>1, <2>2 DEF Steps
  <2> QED
    BY <1>b, <2>1, <2>3 DEF Has, Released, Releasing
<1>4. CASE Oops(e)
  <2>1. stage[e] = "init" /\ Reach(e)' = Reach(e)
    BY <1>4 DEF Oops, InInit
  <2> QED
    BY <1>b, <2>1 DEF Has, Released, Releasing
<1>5. CASE Loaded(e)
  <2>1. stage[e] = "init" /\ Reach(e) = at[e] /\ at[e] > Len(Acq[e])
    BY <1>5 DEF Loaded
  <2>2. k < Reach(e)
    BY <1>a, <2>1 DEF Steps
  <2> QED
    BY <1>b, <2>1, <2>2 DEF Has, Released, Releasing
<1>6. CASE Unload(e)
  <2>1. stage[e] = "in" /\ Reach(e)' = Reach(e)
    BY <1>6 DEF Unload, Hollow
  <2> QED
    BY <1>b, <2>1 DEF Has, Released, Releasing
<1>7. CASE LoadedHollow(e)
  <2>1. Reach(e)' = 1
    <3>1. stage'[e] = "in" /\ broke'[e] = broke[e] /\ stage[e] = "undo"
      BY <1>7 DEF LoadedHollow
    <3>2. broke[e] # 0
      BY <3>1 DEF BrokeInv, ToLadder, Steps
    <3> QED
      BY <3>1, <3>2 DEF Hollow
  <2> QED
    BY <1>b, <2>1 DEF Steps
<1> QED
  BY <1>1, <1>2, <1>3, <1>4, <1>5, <1>6, <1>7 DEF Quiet

\* An acquiring step adds its entry.
LEMMA AcquireHas ==
    ASSUME TypeOK, NEW e \in Drivers, Acquire(e), NEW x
    PROVE  /\ Has(e, x)' => StepOf(e) = x \/ (Has(e, x) /\ at[e] # 1)
           /\ Mine(e, x) => at[e] # 1 /\ Mine(e, x)'
           /\ StepOf(e) = x => Mine(e, x)'
<1>1. /\ stage[e] = "init" /\ stage'[e] = "init" /\ at'[e] = at[e] + 1
      /\ Reach(e) = at[e] /\ Reach(e)' = at[e] + 1
  BY DEF Acquire, InInit, Advance, Reach, TypeOK
<1>2. ~Released(e, x) /\ ~Released(e, x)'
  BY <1>1 DEF Released, Releasing
<1>3. at[e] \in Steps(e)
  BY TableAssumption DEF Acquire, InInit, Steps, TypeOK
<1>4. ASSUME Has(e, x)', StepOf(e) # x PROVE Has(e, x) /\ at[e] # 1
  <2>1. PICK k \in Steps(e) : k < at[e] + 1 /\ Got(e, k, x)
    BY <1>1, <1>4 DEF Has, Got
  <2>2. k # at[e]
    BY <1>4, <2>1 DEF Got, StepOf
  <2>3. k < at[e]
    BY <2>1, <2>2 DEF Steps, TypeOK
  <2> QED
    BY <1>1, <1>2, <2>1, <2>3 DEF Has, Steps
<1>5. ASSUME Mine(e, x) PROVE at[e] # 1 /\ Mine(e, x)'
  <2>1. PICK k \in Steps(e) : k < at[e] /\ Acq[e][k] = x
    BY <1>1, <1>5 DEF Mine
  <2>2. k < at[e] + 1 /\ at[e] # 1
    BY <2>1 DEF Steps, TypeOK
  <2> QED
    BY <1>1, <1>2, <2>1, <2>2 DEF Mine
<1>6. ASSUME StepOf(e) = x PROVE Mine(e, x)'
  <2>1. at[e] < at[e] + 1
    BY DEF TypeOK
  <2> QED
    BY <1>1, <1>2, <1>3, <1>6, <2>1 DEF Mine, StepOf
<1> QED
  BY <1>4, <1>5, <1>6

\* A release takes exactly its entry off what its driver has.
LEMMA ReleaseHas ==
    ASSUME TypeOK, BrokeInv, NEW e \in Drivers, Release(e), NEW x
    PROVE  /\ Has(e, x)' => Has(e, x) /\ Called(e) # x
           /\ Mine(e, x) /\ Called(e) # x => Mine(e, x)'
           /\ Real(e, x)' = Real(e, x)
<1>1. /\ Reach(e)' = Reach(e) /\ Releases(e)' = Releases(e)
      /\ Releasing(e) /\ Releasing(e)' /\ UNCHANGED <<stage, broke, number>>
  BY DEF Release, Reach, Releases, Releasing, Hollow
<1>2. at'[e] = at[e] + 1 /\ at[e] \in 1..Len(Releases(e)) /\ Len(Releases(e)) \in Nat
  BY <1>1, CalledType, ReleasesType DEF Release, Advance, TypeOK
<1>3. Released(e, x)' <=> Released(e, x) \/ Called(e) = x
  <2>1. Freed(Releases(e), at[e] + 1, x) <=> Freed(Releases(e), at[e], x) \/ Called(e) = x
    BY <1>2 DEF Freed, Called
  <2> QED
    BY <1>1, <1>2, <2>1 DEF Released
<1> QED
  BY <1>1, <1>3 DEF Has, Mine, Real, Got

-----------------------------------------------------------------------------
(* Pointers.  What a driver has a pointer to is its own, and it has one to  *)
(* each thing with a name that it acquired and did not release.             *)

HandleInv == \A e \in Drivers : \A x \in held[e] : owner[<<x, 0>>] = e
HeldInv == \A e \in Drivers : \A x \in Handles : Has(e, x) => x \in held[e]

\* A step of d disturbs a resource of another driver in two ways only.
LEMMA Disturbs ==
    ASSUME TypeOK, BrokeInv, NEW d \in Drivers, Step(d), NEW r \in Pool, NEW e \in Drivers \ {d},
           owner[r] = e, owner'[r] # e
    PROVE  \/ r[1] \in Dynamic /\ hollowed
           \/ Release(d) /\ r = Real(d, Called(d)) /\ Called(d) \notin Handles \ held[d]
<1>a. e # Nobody
  BY NobodyAssumption
<1>1. ~Quiet(d) /\ ~Gone(d)
  BY QuietPool DEF Gone
<1>2. ASSUME Acquire(d) PROVE r[1] \in Dynamic /\ hollowed
  <2>1. PICK m \in Numbers : Takes(d, m)
    BY <1>2, AcquireTakes
  <2>2. r = At(StepOf(d), m)
    BY <2>1 DEF Takes, Take, At, TypeOK
  <2>3. r[1] = StepOf(d)
    BY <2>2 DEF At
  <2> QED
    BY <1>a, <2>1, <2>2, <2>3 DEF Takes
<1>3. ASSUME Release(d)
      PROVE  r = Real(d, Called(d)) /\ Called(d) \notin Handles \ held[d]
  BY <1>3 DEF Release, Called, TypeOK
<1> QED
  BY <1>1, <1>2, <1>3 DEF Step

LEMMA HandleEntry ==
    ASSUME NEW d \in Drivers, NEW x \in Handles
    PROVE  <<x, 0>> \in Pool /\ Real(d, x) = <<x, 0>> /\ x \notin Dynamic
  BY DEF Handles, Pool, Real

LEMMA HandleNext ==
    ASSUME TypeOK, BrokeInv, HandleInv, NEW d \in Drivers, Step(d)
    PROVE  HandleInv'
<1> SUFFICES ASSUME NEW e \in Drivers, NEW x \in held'[e] PROVE owner'[<<x, 0>>] = e
  BY DEF HandleInv
<1>1. TypeOK'
  BY TypeNext DEF Step, Quiet, Next
<1>2. x \in Handles
  BY <1>1 DEF TypeOK
<1>3. <<x, 0>> \in Pool /\ <<x, 0>>[1] = x /\ x \notin Dynamic /\ Real(d, x) = <<x, 0>>
  BY <1>2, HandleEntry
<1>4. CASE x \in held[e]
  <2>1. owner[<<x, 0>>] = e
    BY <1>4 DEF HandleInv
  <2>2. CASE e # d
    <3>1. ASSUME owner'[<<x, 0>>] # e PROVE FALSE
      <4>1. <<x, 0>> = Real(d, Called(d)) /\ Called(d) \notin Handles \ held[d]
        BY <1>3, <2>1, <2>2, <3>1, Disturbs
      <4>2. x = Called(d)
        BY <4>1 DEF Real
      <4>3. x \in held[d]
        BY <1>2, <4>1, <4>2
      <4> QED
        BY <2>1, <2>2, <4>3 DEF HandleInv
    <3> QED
      BY <3>1
  <2>3. CASE e = d
    <3>1. CASE Quiet(d) \/ Gone(d)
      BY <2>1, <3>1, QuietPool DEF Gone
    <3>2. CASE Acquire(d)
      <4>1. CASE UNCHANGED owner
        BY <2>1, <4>1
      <4>2. ASSUME NEW m \in Numbers, Takes(d, m) PROVE owner'[<<x, 0>>] = e
        BY <1>3, <2>1, <2>3, <4>2 DEF Takes, Take, TypeOK
      <4> QED
        BY <3>2, <4>1, <4>2, AcquireTakes
    <3>3. CASE Release(d)
      <4>1. CASE UNCHANGED owner
        BY <2>1, <4>1
      <4>2. CASE ~UNCHANGED owner
        <5>1. /\ held'[d] = held[d] \ {Called(d)}
              /\ owner' = [owner EXCEPT ![Real(d, Called(d))] = Nobody]
          BY <3>3, <4>2 DEF Release, Called, TypeOK
        <5>2. Called(d) # x
          BY <2>3, <5>1
        <5>3. Real(d, Called(d)) # <<x, 0>>
          BY <5>2 DEF Real
        <5> QED
          BY <1>3, <2>1, <5>1, <5>3 DEF TypeOK
      <4> QED
        BY <4>1, <4>2
    <3> QED
      BY <3>1, <3>2, <3>3 DEF Step
  <2> QED
    BY <2>2, <2>3
<1>5. CASE x \notin held[e]
  <2>1. e = d
    BY <1>5, OthersUnmoved DEF Unmoved
  <2>2. Acquire(d)
    <3>1. ~Quiet(d)
      BY <1>5, QuietPool
    <3>2. ~Gone(d)
      BY <1>5, <2>1 DEF Gone, TypeOK
    <3>3. ~Release(d)
      BY <1>5, <2>1 DEF Release, TypeOK
    <3> QED
      BY <3>1, <3>2, <3>3 DEF Step
  <2>3. PICK m \in Numbers : Takes(d, m)
    BY <1>5, <2>2, AcquireTakes
  <2>4. x = StepOf(d)
    BY <1>5, <2>1, <2>3 DEF Takes, Take, TypeOK
  <2> QED
    BY <1>3, <2>1, <2>3, <2>4 DEF Takes, Take, TypeOK
<1> QED
  BY <1>4, <1>5

LEMMA HeldNext ==
    ASSUME TypeOK, BrokeInv, HeldInv, NEW d \in Drivers, Step(d)
    PROVE  HeldInv'
<1> SUFFICES ASSUME NEW e \in Drivers, NEW x \in Handles, Has(e, x)' PROVE x \in held'[e]
  BY DEF HeldInv
<1>0. Has(e, x) => x \in held[e]
  BY DEF HeldInv
<1>1. CASE e # d
  BY <1>0, <1>1, OthersUnmoved, UnmovedHas DEF Unmoved
<1>2. CASE e = d
  <2>1. CASE Quiet(d)
    BY <1>0, <1>2, <2>1, QuietHas, QuietPool
  <2>2. CASE Acquire(d)
    <3>1. StepOf(d) = x \/ x \in held[e]
      BY <1>0, <1>2, <2>2, AcquireHas
    <3>2. CASE StepOf(d) = Nothing /\ UNCHANGED held
      <4>1. StepOf(d) # x
        BY <3>2, EntriesAssumption DEF Handles
      <4> QED
        BY <1>2, <3>1, <3>2, <4>1
    <3>3. ASSUME NEW m \in Numbers, Takes(d, m) PROVE x \in held'[e]
      BY <1>2, <3>1, <3>3 DEF Takes, Take, TypeOK
    <3> QED
      BY <2>2, <3>2, <3>3, AcquireTakes
  <2>3. CASE Release(d)
    <3>1. x \in held[e] /\ Called(d) # x
      BY <1>0, <1>2, <2>3, ReleaseHas
    <3> QED
      BY <1>2, <2>3, <3>1 DEF Release, Called, TypeOK
  <2>4. CASE Gone(d)
    <3>1. Reach(d)' = 1
      BY <2>4 DEF Gone, Enter, Reach, TypeOK
    <3> QED
      BY <1>2, <3>1 DEF Has, Steps
  <2> QED
    BY <2>1, <2>2, <2>3, <2>4 DEF Step
<1> QED
  BY <1>1, <1>2

-----------------------------------------------------------------------------
(* Holding.  What goes by number belongs to the driver that acquired it, up *)
(* to its own release, if no table releases it where its driver does not    *)
(* have it, or nobody else's table releases it at all.                      *)

\* The table s of a driver that passed the steps below k releases x only once
\* and only if it was acquired.
OrderlyIn(d, k, s, x) ==
    \A n \in 1..Len(s) : s[n] = x =>
        (\E j \in Steps(d) : j < k /\ Got(d, j, x)) /\ ~Freed(s, n, x)
Lists(s, x) == \E m \in 1..Len(s) : s[m] = x
\* A driver that can be hollow releases with its exit what it does not have.
OrderlyFor(d, x) ==
    /\ \A k \in Steps(d) : ToLadder(d, k) => OrderlyIn(d, k, Undo[d][k], x)
    /\ OrderlyIn(d, Len(Acq[d]) + 1, Exits[d], x)
    /\ hollowed /\ Lists(Exits[d], x) => \A k \in Steps(d) : Fault[d][k] # "silent"
Orderly(x) == \A d \in Drivers : OrderlyFor(d, x)
Frees(d, x) ==
    \/ \E k \in Steps(d) : ToLadder(d, k) /\ Lists(Undo[d][k], x)
    \/ Lists(Exits[d], x)
Secure(e, x) ==
    /\ ~(x \in Dynamic /\ hollowed)
    /\ Orderly(x) \/ \A d \in Drivers \ {e} : ~Frees(d, x)

HoldInv ==
    \A e \in Drivers : \A x \in Entries \ Handles :
        Has(e, x) /\ Secure(e, x) => owner[Real(e, x)] = e

\* A hollow driver makes less secure, never more.
LEMMA SecureBefore ==
    ASSUME NEW e, NEW x, hollowed => hollowed', Secure(e, x)'
    PROVE  Secure(e, x)
<1>1. Orderly(x)' => Orderly(x)
  BY DEF Orderly, OrderlyFor, OrderlyIn, Lists, ToLadder, Steps, Got, Freed
<1>2. Frees(e, x)' = Frees(e, x) /\ \A d \in Drivers : Frees(d, x)' = Frees(d, x)
  BY DEF Frees, Lists, ToLadder, Steps
<1> QED
  BY <1>1, <1>2 DEF Secure

LEMMA StaysHollowed ==
    ASSUME NEW d, Step(d) PROVE hollowed => hollowed'
  BY DEF Step, Quiet, Start, Fail, FailUnseen, Oops, Loaded, Unload, LoadedHollow, Acquire,
     Release, Gone

LEMMA ReleaseFrees ==
    ASSUME TypeOK, BrokeInv, NEW d \in Drivers, Release(d)
    PROVE  Lists(Releases(d), Called(d)) /\ Frees(d, Called(d))
<1>1. Lists(Releases(d), Called(d))
  BY CalledType DEF Lists, Called
<1>2. CASE stage[d] = "undo"
  BY <1>1, <1>2 DEF Frees, Releases, BrokeInv, ToLadder
<1>3. CASE stage[d] = "exit"
  BY <1>1, <1>3 DEF Frees, Releases
<1> QED
  BY <1>1, <1>2, <1>3 DEF Release, Releasing

\* Who releases an orderly entry has it.
LEMMA OrderlyRelease ==
    ASSUME TypeOK, BrokeInv, NEW d \in Drivers, Release(d), Orderly(Called(d))
    PROVE  Has(d, Called(d))
<1> DEFINE x == Called(d)
<1>1. OrderlyFor(d, x)
  BY DEF Orderly
<1>2. OrderlyIn(d, Reach(d), Releases(d), x)
  <2>1. CASE stage[d] = "undo"
    BY <1>1, <2>1 DEF OrderlyFor, Releases, Reach, BrokeInv, ToLadder
  <2>2. CASE stage[d] = "exit"
    <3>1. Releases(d) = Exits[d]
      BY <2>2 DEF Releases
    <3>2. Lists(Exits[d], x)
      BY <3>1, ReleaseFrees
    <3>3. ~Hollow(d)
      BY <1>1, <3>2 DEF OrderlyFor, BrokeInv, ToLadder
    <3>4. Reach(d) = Len(Acq[d]) + 1
      BY <2>2, <3>3 DEF Reach
    <3> QED
      BY <1>1, <3>1, <3>4 DEF OrderlyFor
  <2> QED
    BY <2>1, <2>2 DEF Release, Releasing
<1>3. at[d] \in 1..Len(Releases(d)) /\ Releases(d)[at[d]] = x
  BY CalledType DEF Called
<1> QED
  BY <1>2, <1>3 DEF OrderlyIn, Has, Released

LEMMA HoldNext ==
    ASSUME TypeOK, BrokeInv, HoldInv, NEW d \in Drivers, Step(d)
    PROVE  HoldInv'
<1> SUFFICES ASSUME NEW e \in Drivers, NEW x \in Entries \ Handles, Has(e, x)', Secure(e, x)'
             PROVE  owner'[Real(e, x)'] = e
  BY DEF HoldInv
<1>1. Secure(e, x)
  BY StaysHollowed, SecureBefore
<1>2. Has(e, x) => owner[Real(e, x)] = e
  BY <1>1 DEF HoldInv
<1>3. Real(e, x) \in Pool /\ Real(e, x)[1] = x
  BY RealType DEF Real, TypeOK
<1>4. CASE e # d
  <2>1. Has(e, x) /\ Real(e, x)' = Real(e, x)
    BY <1>4, OthersUnmoved, UnmovedHas
  <2>2. ASSUME owner'[Real(e, x)] # e PROVE FALSE
    <3>1. ~(x \in Dynamic /\ hollowed)
      BY <1>1 DEF Secure
    <3>2. Release(d) /\ Real(e, x) = Real(d, Called(d))
      BY <1>2, <1>3, <1>4, <2>1, <2>2, <3>1, Disturbs
    <3>3. Called(d) = x
      BY <3>2 DEF Real
    <3>4. Orderly(x)
      BY <1>1, <1>4, <3>2, <3>3, ReleaseFrees DEF Secure
    <3>5. Has(d, x)
      BY <3>2, <3>3, <3>4, OrderlyRelease
    <3>6. owner[Real(d, x)] = d
      BY <1>1, <3>4, <3>5 DEF HoldInv, Secure
    <3> QED
      BY <1>2, <1>4, <2>1, <3>2, <3>3, <3>6
  <2> QED
    BY <2>1, <2>2
<1>5. CASE e = d
  <2>1. CASE Quiet(d)
    <3>1. Has(e, x) /\ Real(e, x)' = Real(e, x)
      BY <1>5, <2>1, QuietHas, QuietPool DEF Real
    <3> QED
      BY <1>2, <2>1, <3>1, QuietPool
  <2>2. CASE Acquire(d)
    <3>1. StepOf(d) = x \/ (Has(e, x) /\ at[d] # 1)
      BY <1>5, <2>2, AcquireHas
    <3>2. CASE StepOf(d) = Nothing /\ UNCHANGED <<owner, number>>
      <4>1. StepOf(d) # x
        BY <3>2, EntriesAssumption
      <4> QED
        BY <1>2, <3>1, <3>2, <4>1 DEF Real
    <3>3. ASSUME NEW m \in Numbers, Takes(d, m) PROVE owner'[Real(e, x)'] = e
      <4>1. /\ number'[d] = m /\ owner' = [owner EXCEPT ![At(StepOf(d), m)] = d]
            /\ At(StepOf(d), m) \in Pool
        BY <3>3 DEF Takes, Take, At, TypeOK
      <4>2. CASE StepOf(d) = x
        <5>1. Real(e, x)' = At(StepOf(d), m)
          BY <1>5, <4>1, <4>2 DEF Real, At
        <5> QED
          BY <1>5, <4>1, <5>1 DEF TypeOK
      <4>3. CASE StepOf(d) # x
        <5>1. m = number[d]
          BY <3>1, <3>3, <4>3 DEF Takes
        <5>2. Real(e, x)' = Real(e, x)
          BY <1>5, <4>1, <5>1 DEF Real
        <5> QED
          BY <1>2, <1>3, <1>5, <3>1, <4>1, <4>3, <5>2 DEF TypeOK
      <4> QED
        BY <4>2, <4>3
    <3> QED
      BY <2>2, <3>2, <3>3, AcquireTakes
  <2>3. CASE Release(d)
    <3>1. Has(e, x) /\ Called(d) # x /\ Real(e, x)' = Real(e, x)
      BY <1>5, <2>3, ReleaseHas
    <3>2. Real(d, Called(d)) # Real(e, x)
      BY <3>1 DEF Real
    <3> QED
      BY <1>2, <1>3, <2>3, <3>1, <3>2 DEF Release, Called, TypeOK
  <2>4. CASE Gone(d)
    <3>1. Reach(d)' = 1
      BY <2>4 DEF Gone, Enter, Reach, TypeOK
    <3> QED
      BY <1>5, <3>1 DEF Has, Steps
  <2> QED
    BY <2>1, <2>2, <2>3, <2>4 DEF Step
<1> QED
  BY <1>4, <1>5

HasInv == TypeOK /\ BrokeInv /\ HandleInv /\ HeldInv /\ HoldInv

LEMMA HasInit == Init => HasInv
<1> SUFFICES ASSUME Init PROVE HasInv
  OBVIOUS
<1>1. \A e \in Drivers : \A x : ~Has(e, x)
  <2> SUFFICES ASSUME NEW e \in Drivers, NEW x, Has(e, x) PROVE FALSE
    OBVIOUS
  <2>1. Reach(e) = 1
    BY DEF Init, Reach
  <2> QED
    BY <2>1 DEF Has, Steps
<1>2. HandleInv
  BY DEF Init, HandleInv
<1>3. HeldInv /\ HoldInv
  BY <1>1 DEF HeldInv, HoldInv
<1> QED
  BY <1>2, <1>3, TypeInit DEF HasInv

LEMMA HasStill ==
    ASSUME HasInv, UNCHANGED vars PROVE HasInv'
<1>1. TypeOK' /\ BrokeInv'
  BY TypeNext DEF HasInv
<1>2. \A e \in Drivers : Unmoved(e)
  BY DEF vars, Unmoved
<1>3. HandleInv' /\ HeldInv'
  BY <1>2, UnmovedHas DEF HasInv, HandleInv, HeldInv, vars
<1>4. HoldInv'
  <2> SUFFICES ASSUME NEW e \in Drivers, NEW x \in Entries \ Handles, Has(e, x)', Secure(e, x)'
               PROVE  owner'[Real(e, x)'] = e
    BY DEF HoldInv
  <2>1. Has(e, x) /\ Real(e, x)' = Real(e, x)
    BY <1>2, UnmovedHas
  <2>2. Secure(e, x)
    BY SecureBefore DEF vars
  <2> QED
    BY <2>1, <2>2 DEF HasInv, HoldInv, vars
<1> QED
  BY <1>1, <1>3, <1>4 DEF HasInv

LEMMA HasNext == HasInv /\ [Next]_vars => HasInv'
<1> SUFFICES ASSUME HasInv, [Next]_vars PROVE HasInv'
  OBVIOUS
<1>1. TypeOK' /\ BrokeInv'
  BY TypeNext DEF HasInv
<1>2. ASSUME NEW d \in Drivers, Step(d) PROVE HasInv'
  BY <1>1, <1>2, HandleNext, HeldNext, HoldNext DEF HasInv
<1> QED
  BY <1>2, HasStill, NextSteps

LEMMA Holding == Spec => []HasInv
  BY HasInit, HasNext, PTL DEF Spec

\* A loaded driver that is not hollow owns what each checked step of its init
\* acquired, if it is held by pointer or no other table gives it back amiss.
THEOREM LoadedHas ==
    Spec => [](\A d \in Drivers : stage[d] = "in" /\ ~Hollow(d) =>
                  \A k \in Steps(d) :
                      LET x == Acq[d][k]
                      IN  (/\ Fault[d][k] # "ignored" /\ x # Nothing
                           /\ x \in Handles \/ Secure(d, x)) => owner[Real(d, x)] = d)
<1> DEFINE P == \A d \in Drivers : stage[d] = "in" /\ ~Hollow(d) =>
                  \A k \in Steps(d) :
                      LET x == Acq[d][k]
                      IN  (/\ Fault[d][k] # "ignored" /\ x # Nothing
                           /\ x \in Handles \/ Secure(d, x)) => owner[Real(d, x)] = d
<1>1. HasInv => P
  <2> SUFFICES ASSUME HasInv, NEW d \in Drivers, stage[d] = "in", ~Hollow(d),
                      NEW k \in Steps(d), Fault[d][k] # "ignored", Acq[d][k] # Nothing,
                      Acq[d][k] \in Handles \/ Secure(d, Acq[d][k])
               PROVE  owner[Real(d, Acq[d][k])] = d
    OBVIOUS
  <2>1. Acq[d][k] \in Entries /\ Len(Acq[d]) \in Nat
    BY TableAssumption DEF Steps
  <2>2. k < Reach(d)
    BY <2>1 DEF Reach, Steps
  <2>3. Has(d, Acq[d][k])
    BY <2>2 DEF Has, Got, Released, Releasing
  <2>4. CASE Acq[d][k] \in Handles
    <3>1. Acq[d][k] \in held[d]
      BY <2>3, <2>4 DEF HasInv, HeldInv
    <3> QED
      BY <2>4, <3>1, HandleEntry DEF HasInv, HandleInv
  <2>5. CASE Acq[d][k] \notin Handles
    BY <2>1, <2>3, <2>5 DEF HasInv, HoldInv
  <2> QED
    BY <2>4, <2>5
<1> QED
  BY <1>1, Holding, PTL

-----------------------------------------------------------------------------
(* Keeping.  What a driver owns it has acquired and not yet released, or    *)
(* one of its tables forgets it.                                            *)

Wants(d, x) == \E j \in Steps(d) : Acq[d][j] = x
\* After the step that acquires x comes the exit, or a ladder once an init has
\* failed, without x.
Forgets(d, x) ==
    \E j \in Steps(d) :
        /\ Acq[d][j] = x
        /\ \/ ~Lists(Exits[d], x)
           \/ /\ d \in failed
              /\ \E k \in Steps(d) : ToLadder(d, k) /\ j < k /\ ~Lists(Undo[d][k], x)

\* d can still release r.
Keeps(d, r) ==
    /\ r = Real(d, r[1]) /\ Mine(d, r[1])
    /\ r[1] \in Handles => r[1] \in held[d]
KeepInv ==
    \A d \in Drivers, r \in Pool : owner[r] = d => Forgets(d, r[1]) \/ Keeps(d, r)

LEMMA KeepInit == Init => KeepInv
  BY NobodyAssumption DEF Init, KeepInv

\* A driver is out, or hollow, only with what its tables forget.
LEMMA EndForgets ==
    ASSUME TypeOK, BrokeInv, NEW d \in Drivers, Done(d), NEW x, Mine(d, x)
    PROVE  Forgets(d, x)
<1>1. ~Lists(Releases(d), x)
  BY ReleasesType DEF Done, Mine, Released, Lists, Freed, TypeOK
<1>2. PICK j \in Steps(d) : j < Reach(d) /\ Acq[d][j] = x
  BY DEF Mine
<1>3. CASE stage[d] = "undo"
  BY <1>1, <1>2, <1>3 DEF Forgets, Reach, Releases, BrokeInv, ToLadder
<1>4. CASE stage[d] = "exit"
  BY <1>1, <1>2, <1>4 DEF Forgets, Releases
<1> QED
  BY <1>3, <1>4 DEF Done, Releasing

\* A step that leaves the pool alone loses nothing but what the tables forget.
LEMMA QuietMine ==
    ASSUME TypeOK, BrokeInv, NEW e \in Drivers, Quiet(e), NEW x, Mine(e, x), ~Forgets(e, x)
    PROVE  Mine(e, x)'
<1>a. Len(Acq[e]) \in Nat
  BY TableAssumption
<1>b. PICK k \in Steps(e) : k < Reach(e) /\ Acq[e][k] = x
  BY DEF Mine
<1> USE DEF TypeOK, Reach
<1>1. CASE Start(e)
  BY <1>b, <1>1 DEF Start, Steps
<1>2. CASE Fail(e)
  <2>1. Reach(e)' = Reach(e) /\ ~Released(e, x)'
    BY <1>2, EnterReleased DEF Fail, InInit, Enter
  <2> QED
    BY <1>b, <2>1 DEF Mine
<1>3. CASE FailUnseen(e)
  <2>1. stage'[e] = "init" /\ Reach(e) = at[e] /\ Reach(e)' = at[e] + 1
    BY <1>3 DEF FailUnseen, InInit, Advance
  <2>2. k < Reach(e)'
    BY <1>b, <2>1 DEF Steps
  <2> QED
    BY <1>b, <2>1, <2>2 DEF Mine, Released, Releasing
<1>4. CASE Oops(e)
  <2>1. stage'[e] = "oops" /\ Reach(e)' = Reach(e)
    BY <1>4 DEF Oops, InInit
  <2> QED
    BY <1>b, <2>1 DEF Mine, Released, Releasing
<1>5. CASE Loaded(e)
  <2>1. Reach(e)' = Len(Acq[e]) + 1 /\ ~Released(e, x)'
    BY <1>5, EnterReleased DEF Loaded, Enter, Hollow, BrokeInv
  <2> QED
    BY <1>a, <1>b, <2>1 DEF Mine, Steps
<1>6. CASE Unload(e)
  <2>1. Reach(e)' = Reach(e) /\ ~Released(e, x)'
    BY <1>6, EnterReleased DEF Unload, Enter, Hollow
  <2> QED
    BY <1>b, <2>1 DEF Mine
<1>7. CASE LoadedHollow(e)
  BY <1>7, EndForgets DEF LoadedHollow
<1> QED
  BY <1>1, <1>2, <1>3, <1>4, <1>5, <1>6, <1>7 DEF Quiet

LEMMA ForgetsLater ==
    ASSUME NEW e, NEW x, failed \subseteq failed', Forgets(e, x)
    PROVE  Forgets(e, x)'
  BY DEF Forgets, ToLadder, Lists, Steps

LEMMA FailedGrows ==
    ASSUME NEW d, Step(d) PROVE failed \subseteq failed'
  BY DEF Step, Quiet, Start, Fail, FailUnseen, Oops, Loaded, Unload, LoadedHollow, Acquire,
     Release, Gone

LEMMA KeepNext ==
    ASSUME TypeOK, BrokeInv, KeepInv, NEW d \in Drivers, Step(d)
    PROVE  KeepInv'
<1> SUFFICES ASSUME NEW e \in Drivers, NEW r \in Pool, owner'[r] = e, ~Forgets(e, r[1])'
             PROVE  Keeps(e, r)'
  BY DEF KeepInv
<1>1. ~Forgets(e, r[1])
  BY FailedGrows, ForgetsLater
<1>2. owner[r] = e => Keeps(e, r)
  BY <1>1 DEF KeepInv
<1>a. e # Nobody
  BY NobodyAssumption
<1>3. CASE e # d
  <2>1. owner[r] = e
    <3>1. CASE Quiet(d) \/ Gone(d)
      BY <3>1, QuietPool DEF Gone
    <3>2. CASE Release(d)
      BY <1>a, <3>2 DEF Release, TypeOK
    <3>3. CASE Acquire(d)
      <4>1. ASSUME NEW m \in Numbers, Takes(d, m) PROVE owner[r] = e
        BY <1>3, <4>1 DEF Takes, Take, TypeOK
      <4> QED
        BY <3>3, <4>1, AcquireTakes
    <3> QED
      BY <3>1, <3>2, <3>3 DEF Step
  <2>2. Unmoved(e)
    BY <1>3, OthersUnmoved
  <2> QED
    BY <1>2, <2>1, <2>2, UnmovedHas DEF Keeps, Unmoved
<1>4. CASE e = d
  <2>1. CASE Quiet(d)
    BY <1>1, <1>2, <1>4, <2>1, QuietPool, QuietMine DEF Keeps, Real
  <2>2. CASE Acquire(d)
    <3>1. CASE UNCHANGED <<owner, held, number>>
      BY <1>2, <1>4, <2>2, <3>1, AcquireHas DEF Keeps, Real
    <3>2. ASSUME NEW m \in Numbers, Takes(d, m) PROVE Keeps(e, r)'
      <4>1. /\ number'[d] = m /\ owner' = [owner EXCEPT ![At(StepOf(d), m)] = d]
            /\ held'[d] = held[d] \cup ({StepOf(d)} \cap Handles)
        BY <3>2 DEF Takes, Take, At, TypeOK
      <4>2. CASE r = At(StepOf(d), m)
        <5>1. r[1] = StepOf(d)
          BY <4>2 DEF At
        <5>2. r = Real(e, r[1])'
          BY <1>4, <4>1, <4>2, <5>1 DEF Real, At
        <5>3. Mine(e, r[1])'
          BY <1>4, <2>2, <5>1, AcquireHas
        <5> QED
          BY <1>4, <4>1, <5>1, <5>2, <5>3 DEF Keeps
      <4>3. CASE r # At(StepOf(d), m)
        <5>1. Keeps(e, r)
          BY <1>2, <4>1, <4>3 DEF TypeOK
        <5>2. at[d] # 1 /\ Mine(e, r[1])'
          BY <1>4, <2>2, <5>1, AcquireHas DEF Keeps
        <5>3. m = number[d]
          BY <3>2, <5>2 DEF Takes
        <5> QED
          BY <1>4, <4>1, <5>1, <5>2, <5>3 DEF Keeps, Real
      <4> QED
        BY <4>2, <4>3
    <3> QED
      BY <2>2, <3>1, <3>2, AcquireTakes
  <2>3. CASE Release(d)
    <3>1. owner[r] = e /\ Keeps(e, r)
      BY <1>2, <1>a, <2>3 DEF Release, TypeOK
    <3>2. Called(d) # r[1]
      BY <1>4, <1>a, <2>3, <3>1 DEF Release, Called, Keeps, TypeOK
    <3>3. Mine(e, r[1])' /\ Real(e, r[1])' = Real(e, r[1])
      BY <1>4, <2>3, <3>1, <3>2, ReleaseHas DEF Keeps
    <3>4. r[1] \in held[d] => r[1] \in held'[d]
      BY <2>3, <3>2 DEF Release, Called, TypeOK
    <3> QED
      BY <1>4, <3>1, <3>3, <3>4 DEF Keeps
  <2>4. CASE Gone(d)
    BY <1>1, <1>2, <1>4, <2>4, EndForgets DEF Gone, Keeps
  <2> QED
    BY <2>1, <2>2, <2>3, <2>4 DEF Step
<1> QED
  BY <1>3, <1>4

LEMMA KeepStill == ASSUME KeepInv, UNCHANGED vars PROVE KeepInv'
<1> SUFFICES ASSUME NEW e \in Drivers, NEW r \in Pool, owner[r] = e
             PROVE  Forgets(e, r[1])' \/ Keeps(e, r)'
  BY DEF KeepInv, vars
<1>1. Unmoved(e) /\ failed' = failed
  BY DEF vars, Unmoved
<1>2. Forgets(e, r[1]) => Forgets(e, r[1])'
  BY <1>1, ForgetsLater
<1>3. Keeps(e, r) => Keeps(e, r)'
  BY <1>1, UnmovedHas DEF Keeps, Unmoved
<1> QED
  BY <1>2, <1>3 DEF KeepInv

LEMMA Keeping == Spec => [](HasInv /\ KeepInv)
<1>1. HasInv /\ KeepInv /\ [Next]_vars => KeepInv'
  BY KeepNext, KeepStill, NextSteps DEF HasInv
<1> QED
  BY <1>1, HasInit, HasNext, KeepInit, PTL DEF Spec

\* A driver that is out of the kernel, or hollow, holds nothing but what its exit
\* or, once an init failed, one of its ladders forgets, whoever else ran beside it.
THEOREM OutForgets ==
    Spec => [](\A d \in Drivers, r \in Pool :
                  (stage[d] = "out" \/ Hollow(d)) /\ owner[r] = d => Forgets(d, r[1]))
<1> DEFINE P == \A d \in Drivers, r \in Pool :
                  (stage[d] = "out" \/ Hollow(d)) /\ owner[r] = d => Forgets(d, r[1])
<1>1. KeepInv => P
  <2> SUFFICES ASSUME KeepInv, NEW d \in Drivers, NEW r \in Pool,
                      stage[d] = "out" \/ Hollow(d), owner[r] = d
               PROVE  Forgets(d, r[1])
    OBVIOUS
  <2>1. Reach(d) = 1
    BY DEF Reach, Hollow
  <2>2. ~Mine(d, r[1])
    BY <2>1 DEF Mine, Steps
  <2> QED
    BY <2>2 DEF KeepInv, Keeps
<1> QED
  BY <1>1, Keeping, PTL

-----------------------------------------------------------------------------
(* Taking.  A release takes x away from somebody else only by number, and   *)
(* only if some table releases x out of order.                              *)

CanTake(d, x) ==
    /\ x \in Entries \ Handles /\ ((x \in Dynamic /\ hollowed) \/ ~Orderly(x))
    /\ Frees(d, x)
    /\ \E e \in Drivers \ {d} : Wants(e, x)

LEMMA OwnerWants ==
    ASSUME KeepInv, NEW d \in Drivers, NEW r \in Pool, owner[r] = d
    PROVE  Wants(d, r[1])
  BY DEF KeepInv, Forgets, Keeps, Mine, Wants

LEMMA ReleaseTakes ==
    ASSUME HasInv, KeepInv, NEW d \in Drivers, Robs(d)
    PROVE  CanTake(d, Called(d))
<1> DEFINE x == Called(d)
           r == Real(d, x)
<1> USE DEF HasInv
<1>1. Release(d) /\ x \in Entries /\ r \in Pool /\ r[1] = x
  BY CalledType, RealType DEF Robs, Real, TypeOK
<1>2. PICK e \in Drivers \ {d} : owner[r] = e
  BY <1>1 DEF Robs, TypeOK
<1>3. Wants(e, x)
  BY <1>1, <1>2, OwnerWants
<1>4. x \notin Handles
  <2> SUFFICES ASSUME x \in Handles PROVE FALSE
    OBVIOUS
  <2>1. x \in held[d]
    <3>1. owner' # owner
      BY <1>2, NobodyAssumption DEF Robs
    <3> QED
      BY <1>1, <3>1 DEF Release, Called
  <2>2. r = <<x, 0>>
    BY HandleEntry
  <2> QED
    BY <1>2, <2>1, <2>2 DEF HandleInv
<1>5. (x \in Dynamic /\ hollowed) \/ ~Orderly(x)
  BY <1>1, <1>2, <1>4, OrderlyRelease DEF HoldInv, Secure
<1> QED
  BY <1>1, <1>3, <1>4, <1>5, ReleaseFrees DEF CanTake

\* Nothing is taken from another driver but what goes by number and some table
\* releases before its driver acquired it, or twice, or after a hollow load, and
\* only by a driver that lists it.
THEOREM OnlyDisorderTakes == Spec => [][\A d \in Drivers : Robs(d) => CanTake(d, Called(d))]_vars
<1>1. HasInv /\ KeepInv => \A d \in Drivers : Robs(d) => CanTake(d, Called(d))
  BY ReleaseTakes
<1> QED
  BY <1>1, Keeping, PTL
=============================================================================
