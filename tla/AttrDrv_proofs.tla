--------------------------- MODULE AttrDrv_proofs ---------------------------
(***************************************************************************)
(* Proofs about AttrDrv, for any set of processes, any delays, any word    *)
(* and any HZ.  Every action but a stutter needs Runs: what a property     *)
(* says of a trap is what held in the step that set it.                    *)
(***************************************************************************)
EXTENDS AttrDrv, TLAPS

-----------------------------------------------------------------------------
(* Type correctness.                                                        *)

LEMMA TicksZero == Ticks(0) = 0
<1>1. (0 * 1000) % Word = 0
  BY WordAssumption
<1>2. 0 \div HZ = 0
  BY WordAssumption
<1> QED
  BY <1>1, <1>2 DEF Ticks

LEMMA TicksType == ASSUME NEW s \in Secs \cup {0} PROVE Ticks(s) \in Delays
  BY DEF Delays

LEMMA Flip == ASSUME NEW l \in {0, 1} PROVE 1 - l \in {0, 1}
  OBVIOUS

LEMMA TypeInit == Init => TypeOK
<1>1. 0 \in Delays
  BY TicksZero, TicksType
<1> QED
  BY <1>1 DEF Init, TypeOK, BooleansOK, RangesOK

LEMMA BooleansNext == BooleansOK /\ [Next]_vars => BooleansOK'
<1> SUFFICES ASSUME BooleansOK, [Next]_vars PROVE BooleansOK'
  OBVIOUS
<1> USE DEF BooleansOK, device, attrs, timer, history
<1>1. CASE Load
  BY <1>1 DEF Load
<1>2. CASE Unload
  BY <1>2 DEF Unload
<1>3. CASE ProbeTable
  BY <1>3 DEF ProbeTable
<1>4. CASE ProbeLed
  BY <1>4 DEF ProbeLed
<1>5. CASE ProbeStops
  BY <1>5 DEF ProbeStops
<1>6. CASE ProbeFails \/ ProbeEnd
  BY <1>6 DEF ProbeFails, ProbeEnd
<1>7. CASE RemoveTimer \/ RemoveNode \/ RemoveGpio
  BY <1>7 DEF RemoveTimer, RemoveNode, RemoveGpio
<1>8. CASE Foreign \/ FileOpen \/ FileClose \/ FileWrite
  BY <1>8 DEF Foreign, FileOpen, FileClose, FileWrite
<1>9. CASE StateStore \/ ToggleStore
  BY <1>9 DEF StateStore, ToggleStore
<1>10. ASSUME NEW p \in Procs, DelayCall(p) PROVE BooleansOK'
  BY <1>10 DEF DelayCall, Move
<1>11. ASSUME NEW p \in Procs, DelayExpires(p) PROVE BooleansOK'
  BY <1>11 DEF DelayExpires, Move
<1>12. ASSUME NEW p \in Procs, DelayTest(p) PROVE BooleansOK'
  BY <1>12 DEF DelayTest, Move
<1>13. ASSUME NEW p \in Procs, DelayAdd(p) PROVE BooleansOK'
  BY <1>13 DEF DelayAdd, AddTimer, Move
<1>14. ASSUME NEW p \in Procs, DelayFlag(p) PROVE BooleansOK'
  BY <1>14 DEF DelayFlag, Move
<1>15. CASE timer_funct
  BY <1>15 DEF timer_funct, GoesOff, Toggled
<1>16. CASE UNCHANGED vars
  BY <1>16 DEF vars
<1> QED
  BY <1>1, <1>2, <1>3, <1>4, <1>5, <1>6, <1>7, <1>8, <1>9, <1>10, <1>11, <1>12, <1>13,
     <1>14, <1>15, <1>16 DEF Next, DelayStore

LEMMA RangesNext == RangesOK /\ [Next]_vars => RangesOK'
<1> SUFFICES ASSUME RangesOK, [Next]_vars PROVE RangesOK'
  OBVIOUS
<1> USE DEF RangesOK, device, attrs, timer, history
<1>0. 0 \in Delays
  BY TicksZero, TicksType
<1>1. CASE Load
  BY <1>1, <1>0 DEF Load
<1>2. CASE Unload
  BY <1>2 DEF Unload
<1>3. CASE ProbeTable
  BY <1>3 DEF ProbeTable
<1>4. CASE ProbeLed
  BY <1>4 DEF ProbeLed
<1>5. CASE ProbeStops
  BY <1>5 DEF ProbeStops
<1>6. CASE ProbeFails \/ ProbeEnd
  BY <1>6 DEF ProbeFails, ProbeEnd
<1>7. CASE RemoveTimer \/ RemoveNode \/ RemoveGpio
  BY <1>7 DEF RemoveTimer, RemoveNode, RemoveGpio
<1>8. CASE Foreign \/ FileOpen \/ FileClose \/ FileWrite
  BY <1>8 DEF Foreign, FileOpen, FileClose, FileWrite
<1>9. CASE StateStore \/ ToggleStore
  BY <1>9 DEF StateStore, ToggleStore
<1>10. ASSUME NEW p \in Procs, DelayCall(p) PROVE RangesOK'
  BY <1>10 DEF DelayCall, Move
<1>11. ASSUME NEW p \in Procs, DelayExpires(p) PROVE RangesOK'
  BY <1>11, TicksType DEF DelayExpires, Move
<1>12. ASSUME NEW p \in Procs, DelayTest(p) PROVE RangesOK'
  BY <1>12 DEF DelayTest, Move
<1>13. ASSUME NEW p \in Procs, DelayAdd(p) PROVE RangesOK'
  BY <1>13 DEF DelayAdd, AddTimer, Move
<1>14. ASSUME NEW p \in Procs, DelayFlag(p) PROVE RangesOK'
  BY <1>14 DEF DelayFlag, Move
<1>15. CASE timer_funct
  <2>1. Toggled \in {0, 1}
    BY Flip DEF Toggled
  <2> QED
    BY <1>15, <2>1, TicksType DEF timer_funct, GoesOff
<1>16. CASE UNCHANGED vars
  BY <1>16 DEF vars
<1> QED
  BY <1>1, <1>2, <1>3, <1>4, <1>5, <1>6, <1>7, <1>8, <1>9, <1>10, <1>11, <1>12, <1>13,
     <1>14, <1>15, <1>16 DEF Next, DelayStore

LEMMA TypeNext == TypeOK /\ [Next]_vars => TypeOK'
  BY BooleansNext, RangesNext DEF TypeOK

\* The attributes, the timer and the state of the device keep their types: a delay in
\* the timer is 0 or comes from a number that was stored (103, 384).
THEOREM TypeCorrect == Spec => []TypeOK
<1>1. Init => TypeOK
  BY TypeInit
<1>2. TypeOK /\ [Next]_vars => TypeOK'
  BY TypeNext
<1> QED
  BY <1>1, <1>2, PTL DEF Spec

-----------------------------------------------------------------------------
(* Who can be in a delay_store: only while the LED has its nodes, or remove *)
(* waits.  While the module is not loaded there is no node and no timer.    *)

StoreInv ==
    /\ \A p \in Procs : pc[p] # "idle" => node \/ stage = "draining"
    /\ stage = "draining" => ~node
    /\ Runs /\ stage = "unloaded" => ~node /\ ~pending

LEMMA StoreNext == TypeOK /\ StoreInv /\ [Next]_vars => StoreInv'
<1> SUFFICES ASSUME TypeOK, StoreInv, [Next]_vars PROVE StoreInv'
  OBVIOUS
<1> USE DEF TypeOK, RangesOK, StoreInv,
           device, attrs, timer, history, Runs, InStore
<1>1. CASE Load
  BY <1>1 DEF Load
<1>2. CASE Unload
  BY <1>2 DEF Unload
<1>3. CASE ProbeTable
  BY <1>3 DEF ProbeTable
<1>4. CASE ProbeLed
  BY <1>4 DEF ProbeLed
<1>5. CASE ProbeStops
  BY <1>5 DEF ProbeStops
<1>6. CASE ProbeFails
  BY <1>6 DEF ProbeFails
<1>7. CASE ProbeEnd
  BY <1>7 DEF ProbeEnd
<1>8. CASE RemoveTimer
  BY <1>8 DEF RemoveTimer
<1>9. CASE RemoveNode
  BY <1>9 DEF RemoveNode
<1>10. CASE RemoveGpio
  BY <1>10 DEF RemoveGpio
<1>11. CASE Foreign
  BY <1>11 DEF Foreign
<1>12. CASE FileOpen
  BY <1>12 DEF FileOpen
<1>13. CASE FileClose
  BY <1>13 DEF FileClose
<1>14. CASE FileWrite
  BY <1>14 DEF FileWrite
<1>15. CASE StateStore
  BY <1>15 DEF StateStore, HasNode
<1>16. CASE ToggleStore
  BY <1>16 DEF ToggleStore
<1>17. ASSUME NEW p \in Procs, DelayCall(p) PROVE StoreInv'
  BY <1>17 DEF DelayCall, Move, HasNode
<1>18. ASSUME NEW p \in Procs, DelayExpires(p) PROVE StoreInv'
  BY <1>18 DEF DelayExpires, Move
<1>19. ASSUME NEW p \in Procs, DelayTest(p) PROVE StoreInv'
  BY <1>19 DEF DelayTest, Move
<1>20. ASSUME NEW p \in Procs, DelayAdd(p) PROVE StoreInv'
  BY <1>20 DEF DelayAdd, AddTimer, Move
<1>21. ASSUME NEW p \in Procs, DelayFlag(p) PROVE StoreInv'
  BY <1>21 DEF DelayFlag, Move
<1>22. CASE timer_funct
  BY <1>22 DEF timer_funct, GoesOff
<1>23. CASE UNCHANGED vars
  BY <1>23 DEF vars
<1> QED
  BY <1>1, <1>2, <1>3, <1>4, <1>5, <1>6, <1>7, <1>8, <1>9, <1>10, <1>11, <1>12, <1>13,
     <1>14, <1>15, <1>16, <1>17, <1>18, <1>19, <1>20, <1>21, <1>22, <1>23 DEF Next, DelayStore

LEMMA Stores == Spec => []StoreInv
<1>1. Init => StoreInv
  BY DEF Init, StoreInv
<1> QED
  BY <1>1, StoreNext, TypeCorrect, PTL DEF Spec

-----------------------------------------------------------------------------
(* One store at a time: the flag tells whether the timer was added, except  *)
(* between add_timer and the flag, in the store that is there alone.        *)

SerialInv ==
    /\ ~overlap => \A p, q \in Procs : pc[p] # "idle" /\ pc[q] # "idle" => p = q
    /\ Runs /\ pending => timer_flag = 1 \/ \E p \in Procs : pc[p] = "flag"
    /\ Runs /\ ~overlap => \A p \in Procs : pc[p] = "add" => timer_flag = 0
    /\ NeverAddedTwice

LEMMA SerialNext == TypeOK /\ StoreInv /\ SerialInv /\ [Next]_vars => SerialInv'
<1> SUFFICES ASSUME TypeOK, StoreInv, SerialInv, [Next]_vars PROVE SerialInv'
  OBVIOUS
<1> USE DEF TypeOK, RangesOK, StoreInv, SerialInv, NeverAddedTwice,
           device, attrs, timer, history, Runs, InStore
<1>1. CASE Load
  BY <1>1 DEF Load
<1>2. CASE Unload
  BY <1>2 DEF Unload
<1>3. CASE ProbeTable
  BY <1>3 DEF ProbeTable
<1>4. CASE ProbeLed
  BY <1>4 DEF ProbeLed
<1>5. CASE ProbeStops
  BY <1>5 DEF ProbeStops
<1>6. CASE ProbeFails
  BY <1>6 DEF ProbeFails
<1>7. CASE ProbeEnd
  BY <1>7 DEF ProbeEnd
<1>8. CASE RemoveTimer
  BY <1>8 DEF RemoveTimer
<1>9. CASE RemoveNode
  BY <1>9 DEF RemoveNode
<1>10. CASE RemoveGpio
  BY <1>10 DEF RemoveGpio
<1>11. CASE Foreign
  BY <1>11 DEF Foreign
<1>12. CASE FileOpen
  BY <1>12 DEF FileOpen
<1>13. CASE FileClose
  BY <1>13 DEF FileClose
<1>14. CASE FileWrite
  BY <1>14 DEF FileWrite
<1>15. CASE StateStore
  BY <1>15 DEF StateStore, HasNode
<1>16. CASE ToggleStore
  BY <1>16 DEF ToggleStore
<1>17. ASSUME NEW p \in Procs, DelayCall(p) PROVE SerialInv'
  BY <1>17 DEF DelayCall, Move, HasNode
<1>18. ASSUME NEW p \in Procs, DelayExpires(p) PROVE SerialInv'
  BY <1>18 DEF DelayExpires, Move
<1>19. ASSUME NEW p \in Procs, DelayTest(p) PROVE SerialInv'
  BY <1>19 DEF DelayTest, Move
<1>20. ASSUME NEW p \in Procs, DelayAdd(p) PROVE SerialInv'
  <2>1. pc[p] = "add" /\ pc' = [pc EXCEPT ![p] = "flag"]
    BY <1>20 DEF DelayAdd, Move
  <2>2. overlap \/ ~pending
    <3>1. CASE pending /\ ~overlap
      <4>1. timer_flag = 0
        BY <1>20, <2>1, <3>1 DEF DelayAdd, Move
      <4>2. PICK q \in Procs : pc[q] = "flag"
        BY <1>20, <3>1, <4>1 DEF DelayAdd, Move
      <4> QED
        BY <2>1, <3>1, <4>2
    <3> QED
      BY <3>1
  <2>3. overlap' = overlap /\ timer_flag' = timer_flag
    BY <1>20 DEF DelayAdd
  <2>4. NeverAddedTwice'
    <3>1. trap = "none" /\ trap' = IF pending THEN "added twice" ELSE trap
      BY <1>20 DEF DelayAdd, AddTimer, Move
    <3> QED
      BY <2>2, <2>3, <3>1
  <2>5. (~overlap => \A r, q \in Procs : pc[r] # "idle" /\ pc[q] # "idle" => r = q)'
    BY <2>1, <2>3
  <2>6. (\E q \in Procs : pc[q] = "flag")'
    BY <2>1
  <2>7. (Runs /\ ~overlap => \A q \in Procs : pc[q] = "add" => timer_flag = 0)'
    BY <1>20, <2>1, <2>3 DEF DelayAdd, Move
  <2> QED
    BY <2>4, <2>5, <2>6, <2>7
<1>21. ASSUME NEW p \in Procs, DelayFlag(p) PROVE SerialInv'
  BY <1>21 DEF DelayFlag, Move
<1>22. CASE timer_funct
  BY <1>22 DEF timer_funct, GoesOff
<1>23. CASE UNCHANGED vars
  BY <1>23 DEF vars
<1> QED
  BY <1>1, <1>2, <1>3, <1>4, <1>5, <1>6, <1>7, <1>8, <1>9, <1>10, <1>11, <1>12, <1>13,
     <1>14, <1>15, <1>16, <1>17, <1>18, <1>19, <1>20, <1>21, <1>22, <1>23 DEF Next, DelayStore

\* add_timer never finds the timer queued in a delay_store that is alone: with
\* timer_flag, set after it (109-116), one store at a time is safe, however often
\* the timer fires in between, and through every remove and failed probe.
THEOREM AddedOnce == Spec => []NeverAddedTwice
<1>1. Init => SerialInv
  BY DEF Init, SerialInv, NeverAddedTwice
<1>2. SerialInv => NeverAddedTwice
  BY DEF SerialInv
<1> QED
  BY <1>1, <1>2, SerialNext, Stores, TypeCorrect, PTL DEF Spec

-----------------------------------------------------------------------------
(* The flag is set behind the timer, and cleared before there is a node.    *)

ArmInv ==
    /\ ArmedStays
    /\ \A p \in Procs : pc[p] = "flag" /\ node /\ stage # "timerless" => pending
    /\ stage = "probing" /\ ~node => timer_flag = 0

LEMMA ArmNext == TypeOK /\ StoreInv /\ ArmInv /\ [Next]_vars => ArmInv'
<1> SUFFICES ASSUME TypeOK, StoreInv, ArmInv, [Next]_vars PROVE ArmInv'
  OBVIOUS
<1> USE DEF TypeOK, RangesOK, StoreInv, ArmInv, ArmedStays,
           device, attrs, timer, history, Runs, InStore
<1>1. CASE Load
  BY <1>1 DEF Load
<1>2. CASE Unload
  BY <1>2 DEF Unload
<1>3. CASE ProbeTable
  BY <1>3 DEF ProbeTable
<1>4. CASE ProbeLed
  BY <1>4 DEF ProbeLed
<1>5. CASE ProbeStops
  BY <1>5 DEF ProbeStops
<1>6. CASE ProbeFails
  BY <1>6 DEF ProbeFails
<1>7. CASE ProbeEnd
  BY <1>7 DEF ProbeEnd
<1>8. CASE RemoveTimer
  BY <1>8 DEF RemoveTimer
<1>9. CASE RemoveNode
  BY <1>9 DEF RemoveNode
<1>10. CASE RemoveGpio
  BY <1>10 DEF RemoveGpio
<1>11. CASE Foreign
  BY <1>11 DEF Foreign
<1>12. CASE FileOpen
  BY <1>12 DEF FileOpen
<1>13. CASE FileClose
  BY <1>13 DEF FileClose
<1>14. CASE FileWrite
  BY <1>14 DEF FileWrite
<1>15. CASE StateStore
  BY <1>15 DEF StateStore, HasNode
<1>16. CASE ToggleStore
  BY <1>16 DEF ToggleStore
<1>17. ASSUME NEW p \in Procs, DelayCall(p) PROVE ArmInv'
  BY <1>17 DEF DelayCall, Move, HasNode
<1>18. ASSUME NEW p \in Procs, DelayExpires(p) PROVE ArmInv'
  BY <1>18 DEF DelayExpires, Move
<1>19. ASSUME NEW p \in Procs, DelayTest(p) PROVE ArmInv'
  BY <1>19 DEF DelayTest, Move
<1>20. ASSUME NEW p \in Procs, DelayAdd(p) PROVE ArmInv'
  BY <1>20 DEF DelayAdd, AddTimer, Move
<1>21. ASSUME NEW p \in Procs, DelayFlag(p) PROVE ArmInv'
  BY <1>21 DEF DelayFlag, Move
<1>22. CASE timer_funct
  BY <1>22 DEF timer_funct, GoesOff
<1>23. CASE UNCHANGED vars
  BY <1>23 DEF vars
<1> QED
  BY <1>1, <1>2, <1>3, <1>4, <1>5, <1>6, <1>7, <1>8, <1>9, <1>10, <1>11, <1>12, <1>13,
     <1>14, <1>15, <1>16, <1>17, <1>18, <1>19, <1>20, <1>21, <1>22, <1>23 DEF Next, DelayStore

\* While the LED has its nodes, a timer_flag that is set means that the timer is
\* queued: a delay that is stored is never lost (386, 109-116).
THEOREM StaysArmed == Spec => []ArmedStays
<1>1. Init => ArmInv
  BY DEF Init, ArmInv, ArmedStays
<1>2. ArmInv => ArmedStays
  BY DEF ArmInv
<1> QED
  BY <1>1, <1>2, ArmNext, Stores, TypeCorrect, PTL DEF Spec

-----------------------------------------------------------------------------
(* What outlives a binding needs a race or a failed probe.                  *)

DeadInv ==
    /\ node => failed \/ stage \in {"made", "bound", "timerless"}
    /\ pending => raced \/ failed \/ stage \in {"made", "bound"}
    /\ \A p \in Procs : pc[p] # "idle" => raced \/ failed \/ stage \in {"made", "bound"}
    /\ stage \in {"made", "bound", "timerless", "draining"} => requested
    /\ requested => ~foreign
    /\ trap \in {"initialised queued", "code is gone"} => raced \/ failed

LEMMA DeadNext == TypeOK /\ StoreInv /\ DeadInv /\ [Next]_vars => DeadInv'
<1> SUFFICES ASSUME TypeOK, StoreInv, DeadInv, [Next]_vars PROVE DeadInv'
  OBVIOUS
<1> USE DEF TypeOK, BooleansOK, RangesOK, StoreInv, DeadInv,
           device, attrs, timer, history, Runs, InStore
<1>1. CASE Load
  BY <1>1 DEF Load
<1>2. CASE Unload
  BY <1>2 DEF Unload
<1>3. CASE ProbeTable
  BY <1>3 DEF ProbeTable
<1>4. CASE ProbeLed
  BY <1>4 DEF ProbeLed
<1>5. CASE ProbeStops
  BY <1>5 DEF ProbeStops
<1>6. CASE ProbeFails
  BY <1>6 DEF ProbeFails
<1>7. CASE ProbeEnd
  BY <1>7 DEF ProbeEnd
<1>8. CASE RemoveTimer
  BY <1>8 DEF RemoveTimer
<1>9. CASE RemoveNode
  BY <1>9 DEF RemoveNode
<1>10. CASE RemoveGpio
  BY <1>10 DEF RemoveGpio
<1>11. CASE Foreign
  BY <1>11 DEF Foreign
<1>12. CASE FileOpen
  BY <1>12 DEF FileOpen
<1>13. CASE FileClose
  BY <1>13 DEF FileClose
<1>14. CASE FileWrite
  BY <1>14 DEF FileWrite
<1>15. CASE StateStore
  BY <1>15 DEF StateStore, HasNode
<1>16. CASE ToggleStore
  BY <1>16 DEF ToggleStore
<1>17. ASSUME NEW p \in Procs, DelayCall(p) PROVE DeadInv'
  BY <1>17 DEF DelayCall, Move, HasNode
<1>18. ASSUME NEW p \in Procs, DelayExpires(p) PROVE DeadInv'
  BY <1>18 DEF DelayExpires, Move
<1>19. ASSUME NEW p \in Procs, DelayTest(p) PROVE DeadInv'
  BY <1>19 DEF DelayTest, Move
<1>20. ASSUME NEW p \in Procs, DelayAdd(p) PROVE DeadInv'
  BY <1>20 DEF DelayAdd, AddTimer, Move
<1>21. ASSUME NEW p \in Procs, DelayFlag(p) PROVE DeadInv'
  BY <1>21 DEF DelayFlag, Move
<1>22. CASE timer_funct
  BY <1>22 DEF timer_funct, GoesOff
<1>23. CASE UNCHANGED vars
  BY <1>23 DEF vars
<1> QED
  BY <1>1, <1>2, <1>3, <1>4, <1>5, <1>6, <1>7, <1>8, <1>9, <1>10, <1>11, <1>12, <1>13,
     <1>14, <1>15, <1>16, <1>17, <1>18, <1>19, <1>20, <1>21, <1>22, <1>23 DEF Next, DelayStore

\* A timer is queued without the gpio, or when its memory or its code is gone, only
\* after a store that del_timer (254) came too early for, or a failed probe (242).
THEOREM DeadOnlyRaced == Spec => []DeadUnlessRaced
<1>1. Init => DeadInv
  BY DEF Init, DeadInv
<1>2. TypeOK /\ DeadInv => DeadUnlessRaced
  BY DEF TypeOK, RangesOK, DeadInv, DeadUnlessRaced
<1> QED
  BY <1>1, <1>2, DeadNext, Stores, TypeCorrect, PTL DEF Spec

\* One step of PinUndisturbed.
Undisturbed == foreign /\ foreign' /\ level' # level => raced \/ failed \/ held

LEMMA UndisturbedStep == TypeOK /\ DeadInv /\ [Next]_vars => Undisturbed
<1> SUFFICES ASSUME TypeOK, DeadInv, [Next]_vars, foreign, level' # level
             PROVE  raced \/ failed \/ held
  BY DEF Undisturbed
<1> USE DEF device, attrs, timer, history
<1>1. stage \notin {"made", "bound", "timerless", "draining"}
  BY DEF DeadInv
<1>2. CASE ProbeLed
  BY <1>2 DEF ProbeLed
<1>3. CASE FileWrite
  BY <1>3 DEF FileWrite
<1>4. CASE StateStore
  BY <1>1, <1>4 DEF StateStore, HasNode, DeadInv
<1>5. CASE timer_funct
  BY <1>1, <1>5 DEF timer_funct, GoesOff, DeadInv
<1>6. ProbeLed \/ FileWrite \/ StateStore \/ timer_funct
  BY DEF Next, vars, Load, Unload, ProbeTable, ProbeStops, ProbeFails, ProbeEnd,
         RemoveTimer, RemoveNode, RemoveGpio, Foreign, FileOpen, FileClose, ToggleStore,
         DelayCall, DelayStore, DelayExpires, DelayTest, DelayAdd, DelayFlag
<1> QED
  BY <1>2, <1>3, <1>4, <1>5, <1>6

\* A pin that another driver requested is driven by this one only after such a race
\* or failure, or through a file in /dev that is still open (300).
THEOREM OthersUndisturbed == Spec => PinUndisturbed
<1>1. Init => DeadInv
  BY DEF Init, DeadInv
<1>2. TypeOK /\ DeadInv /\ [Next]_vars => [Undisturbed]_vars
  BY UndisturbedStep
<1> QED
  BY <1>1, <1>2, DeadNext, Stores, TypeCorrect, PTL DEF Spec, PinUndisturbed, Undisturbed

-----------------------------------------------------------------------------
(* What is queued was stored.                                               *)

Stored == {Ticks(s) : s \in Secs}

DelayInv ==
    /\ pending \/ InStore # {} => timeout \in Secs
    /\ \A p \in Procs : pc[p] \in {"test", "add", "flag"} => expires \in Stored
    /\ pending => wheel \in Stored

LEMMA StoredType == ASSUME NEW s \in Secs PROVE Ticks(s) \in Stored
  BY DEF Stored

LEMMA DelayNext == TypeOK /\ StoreInv /\ DelayInv /\ [Next]_vars => DelayInv'
<1> SUFFICES ASSUME TypeOK, StoreInv, DelayInv, [Next]_vars PROVE DelayInv'
  OBVIOUS
<1> USE DEF TypeOK, RangesOK, StoreInv, DelayInv,
           device, attrs, timer, history, Runs, InStore
<1>1. CASE Load
  BY <1>1 DEF Load
<1>2. CASE Unload
  BY <1>2 DEF Unload
<1>3. CASE ProbeTable
  BY <1>3 DEF ProbeTable
<1>4. CASE ProbeLed
  BY <1>4 DEF ProbeLed
<1>5. CASE ProbeStops
  BY <1>5 DEF ProbeStops
<1>6. CASE ProbeFails
  BY <1>6 DEF ProbeFails
<1>7. CASE ProbeEnd
  BY <1>7 DEF ProbeEnd
<1>8. CASE RemoveTimer
  BY <1>8 DEF RemoveTimer
<1>9. CASE RemoveNode
  BY <1>9 DEF RemoveNode
<1>10. CASE RemoveGpio
  BY <1>10 DEF RemoveGpio
<1>11. CASE Foreign
  BY <1>11 DEF Foreign
<1>12. CASE FileOpen
  BY <1>12 DEF FileOpen
<1>13. CASE FileClose
  BY <1>13 DEF FileClose
<1>14. CASE FileWrite
  BY <1>14 DEF FileWrite
<1>15. CASE StateStore
  BY <1>15 DEF StateStore, HasNode
<1>16. CASE ToggleStore
  BY <1>16 DEF ToggleStore
<1>17. ASSUME NEW p \in Procs, DelayCall(p) PROVE DelayInv'
  BY <1>17 DEF DelayCall, Move, HasNode
<1>18. ASSUME NEW p \in Procs, DelayExpires(p) PROVE DelayInv'
  BY <1>18, StoredType DEF DelayExpires, Move
<1>19. ASSUME NEW p \in Procs, DelayTest(p) PROVE DelayInv'
  BY <1>19 DEF DelayTest, Move
<1>20. ASSUME NEW p \in Procs, DelayAdd(p) PROVE DelayInv'
  BY <1>20 DEF DelayAdd, AddTimer, Move
<1>21. ASSUME NEW p \in Procs, DelayFlag(p) PROVE DelayInv'
  BY <1>21 DEF DelayFlag, Move
<1>22. CASE timer_funct
  BY <1>22, StoredType DEF timer_funct, GoesOff
<1>23. CASE UNCHANGED vars
  BY <1>23 DEF vars
<1> QED
  BY <1>1, <1>2, <1>3, <1>4, <1>5, <1>6, <1>7, <1>8, <1>9, <1>10, <1>11, <1>12, <1>13,
     <1>14, <1>15, <1>16, <1>17, <1>18, <1>19, <1>20, <1>21, <1>22, <1>23 DEF Next, DelayStore

\* The timer is never queued for a delay that nobody stored, such as the 0 that
\* gpio_init leaves: not even by a store that met a remove, or a new load.
THEOREM QueuedWasStored == Spec => []DelayStored
<1>1. Init => DelayInv
  BY DEF Init, DelayInv, InStore
<1>2. DelayInv => DelayStored
  BY DEF DelayInv, DelayStored, Stored
<1> QED
  BY <1>1, <1>2, DelayNext, Stores, TypeCorrect, PTL DEF Spec
=============================================================================
