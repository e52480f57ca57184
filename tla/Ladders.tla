------------------------------ MODULE Ladders ------------------------------
(***************************************************************************)
(* Loading and unloading kernel drivers that share one pool of resources   *)
(* (gpio lines, device numbers, names, irq lines).                         *)
(*                                                                         *)
(* Every driver of the repository is written the same way: an init         *)
(* function acquires one thing after the other; when a step fails it jumps *)
(* into a ladder of labels that releases what it lists; an exit function   *)
(* releases everything.  The code of a driver is the data of this module:  *)
(* Acq[d], Undo[d], Exits[d] and Fault[d] (module Board).                  *)
(*                                                                         *)
(* What is released through a pointer (a class, a driver) goes only if     *)
(* this load of the driver made it; what is released by number (gpio_free, *)
(* cdev_del, unregister_chrdev_region) goes whoever holds it.              *)
(***************************************************************************)
EXTENDS Naturals, Sequences

CONSTANTS
    Drivers,        \* the drivers
    Entries,        \* what their tables list
    Nothing,        \* a step that acquires nothing (gpio_direction_input)
    Nobody,         \* the owner of a free resource
    Numbered,       \* entries released by a number written in the code
    Dynamic,        \* entries under the number that the kernel gave the driver
    Region,         \* the dynamic entry whose acquisition gives that number
    Numbers,        \* bound: the numbers the kernel can give, and 0 for none
    Inside,         \* entries that live in a class of the parent
    Acq,            \* Acq[d]: the entries init acquires, in order
    Fault,          \* Fault[d][k]: what init does when step k fails
    Undo,           \* Undo[d][k]: what is released when step k of init fails
    Exits,          \* Exits[d]: what exit releases, in order
    Parent,         \* Parent[d]: what the driver that calls d has; {} if none does
    Again,          \* entries a driver can acquire a second time
    Boards          \* bound: the sets of drivers that are used together

\* A failed step makes init run its ladder and return the error, go on, run the
\* ladder and return 0, or stop in an oops.
Faults == {"ladder", "ignored", "silent", "oops"}
Handles == Entries \ (Numbered \cup Dynamic)

ASSUME NobodyAssumption == Nobody \notin Drivers
ASSUME EntriesAssumption ==
    /\ Nothing \notin Entries
    /\ Region \in Dynamic /\ Dynamic \subseteq Entries /\ Numbered \subseteq Entries
    /\ 0 \in Numbers
ASSUME TableAssumption ==
    \A d \in Drivers :
        /\ Acq[d] \in Seq(Entries \cup {Nothing})
        /\ Exits[d] \in Seq(Entries)
        /\ \A k \in 1..Len(Acq[d]) : /\ Undo[d][k] \in Seq(Entries)
                                     /\ Fault[d][k] \in Faults
                                     /\ Acq[d][k] = Region => k = 1
        /\ Parent[d] \subseteq Entries
ASSUME BoardsAssumption == Boards \subseteq SUBSET Drivers

VARIABLES
    board,          \* the drivers that are used
    owner,          \* owner[r]: who acquired r last and did not lose it
    held,           \* held[d]: what this load of d has a pointer to
    number,         \* number[d]: the device number this load of d got, or 0
    stage,          \* stage[d]: "out", "init", "undo", "oops", "in", "exit"
    at,             \* at[d]: the next step of init, of the ladder or of exit
    broke,          \* broke[d]: the step of init that failed, or 0
    failed,         \* history: the drivers whose init ran a ladder
    hollowed        \* history: an init ran its ladder and returned 0

vars == <<board, owner, held, number, stage, at, broke, failed, hollowed>>

\* A resource is an entry and a device number, 0 where there is none.
Pool == (Dynamic \X Numbers) \cup ((Entries \ Dynamic) \X {0})
Real(d, x) == <<x, IF x \in Dynamic THEN number[d] ELSE 0>>

Init ==
    /\ board \in Boards
    /\ owner = [r \in Pool |-> Nobody]
    /\ held = [d \in Drivers |-> {}]
    /\ number = [d \in Drivers |-> 0]
    /\ stage = [d \in Drivers |-> "out"]
    /\ at = [d \in Drivers |-> 1]
    /\ broke = [d \in Drivers |-> 0]
    /\ failed = {} /\ hollowed = FALSE

\* d is loaded although its init ran the ladder.
Hollow(d) == stage[d] \in {"in", "exit"} /\ broke[d] # 0

\* The drivers whose probe and remove functions d's code gets called.
Children(d) == {c \in Drivers : Parent[c] # {} /\ Parent[c] \subseteq held[d]}

\* A nested driver is called while the caller is registering it or is loaded,
\* and runs as long as the caller is there.
Callable(d) ==
    Parent[d] # {} =>
        \E p \in Drivers : Parent[d] \subseteq held[p] /\ stage[p] \in {"init", "in"}
Backed(d) == Parent[d] # {} => \E p \in Drivers : Parent[d] \subseteq held[p]

\* Bound: what nodes become whose class was destroyed is not modelled, so no
\* driver with such a class is loaded again.
Clean(d) ==
    \A c \in Drivers : (\E k \in 1..Len(Acq[d]) : Acq[d][k] \in Parent[c]) =>
        \A x \in Inside : owner[Real(c, x)] # c

\* A mutant of Enter counts from 0.
EnterAtZero(d, s) ==
    /\ stage' = [stage EXCEPT ![d] = s]
    /\ at' = [at EXCEPT ![d] = 0]
Enter(d, s) ==
    /\ stage' = [stage EXCEPT ![d] = s]
    /\ at' = [at EXCEPT ![d] = 1]

\* insmod, or the bus calling probe.
Start(d) ==
    /\ stage[d] = "out" /\ Callable(d) /\ Clean(d)
    /\ d \in board
    /\ Enter(d, "init")
    /\ UNCHANGED <<board, owner, held, number, broke, failed, hollowed>>

StepOf(d) == Acq[d][at[d]]
FaultOf(d) == Fault[d][at[d]]
InInit(d) == Backed(d) /\ stage[d] = "init" /\ at[d] <= Len(Acq[d])
Advance(d) == at' = [at EXCEPT ![d] = @ + 1]

\* A number can be mapped twice once an exit has given back one in use.
CanHave(d, x) ==
    \/ owner[Real(d, x)] = Nobody
    \/ x \in Again /\ owner[Real(d, x)] = d
    \/ x \in Dynamic /\ hollowed

Take(d, x, m) ==
    /\ number' = [number EXCEPT ![d] = m]
    /\ owner' = [owner EXCEPT ![<<x, IF x \in Dynamic THEN m ELSE 0>>] = d]
    /\ held' = [held EXCEPT ![d] = @ \cup ({x} \cap Handles)]

\* The next call of init succeeds ...
Acquire(d) ==
    /\ InInit(d)
    /\ \/ StepOf(d) = Nothing /\ UNCHANGED <<owner, held, number>>
       \/ /\ StepOf(d) = Region
          /\ \E m \in Numbers \ {0} : /\ owner[<<Region, m>>] = Nobody
                                      /\ Take(d, Region, m)
       \/ /\ StepOf(d) \notin {Nothing, Region}
          /\ CanHave(d, StepOf(d))
          /\ Take(d, StepOf(d), number[d])
    /\ Advance(d)
    /\ UNCHANGED <<board, stage, broke, failed, hollowed>>

\* ... or fails, because the resource is taken or for reasons of its own (no
\* memory): into the ladder, ...
Fail(d) ==
    /\ InInit(d)
    /\ FaultOf(d) \in {"ladder", "silent"}
    /\ broke' = [broke EXCEPT ![d] = at[d]]
    /\ failed' = failed \cup {d}
    /\ Enter(d, "undo")
    /\ UNCHANGED <<board, owner, held, number, hollowed>>

\* ... unless the code does not look at the result, ...
FailUnseen(d) ==
    /\ InInit(d)
    /\ FaultOf(d) = "ignored"
    /\ Advance(d)
    /\ UNCHANGED <<board, owner, held, number, stage, broke, failed, hollowed>>

\* ... or follows the error as if it were a pointer: init never returns.
Oops(d) ==
    /\ InInit(d)
    /\ FaultOf(d) = "oops"
    /\ stage' = [stage EXCEPT ![d] = "oops"]
    /\ UNCHANGED <<board, owner, held, number, at, broke, failed, hollowed>>

\* init returns 0.  Registering a driver probes its devices before it returns.
Loaded(d) ==
    /\ Backed(d) /\ stage[d] = "init" /\ at[d] > Len(Acq[d])
    /\ \A c \in Children(d) : stage[c] \in {"out", "in"}
    /\ Enter(d, "in")
    /\ UNCHANGED <<board, owner, held, number, broke, failed, hollowed>>

\* rmmod, or the bus calling remove.  Unregistering a driver removes its
\* devices first.
Unload(d) ==
    /\ Backed(d) /\ stage[d] = "in"
    /\ \A c \in Children(d) : stage[c] = "out"
    /\ Enter(d, "exit")
    /\ UNCHANGED <<board, owner, held, number, broke, failed, hollowed>>

Releases(d) == IF stage[d] = "undo" THEN Undo[d][broke[d]] ELSE Exits[d]
Releasing(d) == stage[d] \in {"undo", "exit"}
Done(d) == Backed(d) /\ Releasing(d) /\ at[d] > Len(Releases(d))

\* One release call: through a pointer only what the driver has, by number
\* whatever the pool has there.  Releasing what is free changes nothing.
Release(d) ==
    /\ Backed(d) /\ Releasing(d) /\ at[d] <= Len(Releases(d))
    /\ LET x == Releases(d)[at[d]]
           r == Real(d, x)
       IN  IF x \in Handles \ held[d]
           THEN UNCHANGED <<owner, held>>
           ELSE /\ owner' = [owner EXCEPT ![r] = Nobody]
                /\ held' = [held EXCEPT ![d] = @ \ {x}]
    /\ Advance(d)
    /\ UNCHANGED <<board, number, stage, broke, failed, hollowed>>

\* The ladder of a step whose error is not returned ends with init returning 0,
\* so the driver stays with nothing in its hands, ...
LoadedHollow(d) ==
    /\ Done(d) /\ stage[d] = "undo" /\ Fault[d][broke[d]] = "silent"
    /\ hollowed' = TRUE
    /\ Enter(d, "in")
    /\ UNCHANGED <<board, owner, held, number, broke, failed>>

\* ... every other ladder, and exit, with the driver gone.
Gone(d) ==
    /\ Done(d) /\ ~(stage[d] = "undo" /\ Fault[d][broke[d]] = "silent")
    /\ Enter(d, "out")
    /\ broke' = [broke EXCEPT ![d] = 0]
    /\ held' = [held EXCEPT ![d] = {}]
    /\ number' = [number EXCEPT ![d] = 0]
    /\ UNCHANGED <<board, owner, failed, hollowed>>

Next ==
    \E d \in Drivers :
        \/ Start(d) \/ Acquire(d) \/ Fail(d) \/ FailUnseen(d) \/ Oops(d) \/ Loaded(d)
        \/ Unload(d) \/ Release(d) \/ LoadedHollow(d) \/ Gone(d)

Spec == Init /\ [][Next]_vars

-----------------------------------------------------------------------------
TypeOK ==
    /\ board \in Boards
    /\ owner \in [Pool -> Drivers \cup {Nobody}]
    /\ held \in [Drivers -> SUBSET Handles]
    /\ number \in [Drivers -> Numbers]
    /\ stage \in [Drivers -> {"out", "init", "undo", "oops", "in", "exit"}]
    /\ at \in [Drivers -> Nat \ {0}]
    /\ broke \in [Drivers -> Nat]
    /\ failed \subseteq Drivers
    /\ hollowed \in BOOLEAN

\* d's release call takes away what another driver acquired.
Called(d) == Releases(d)[at[d]]
Robs(d) ==
    /\ Release(d)
    /\ owner[Real(d, Called(d))] \notin {d, Nobody} /\ owner'[Real(d, Called(d))] = Nobody
=============================================================================
