--------------------------- MODULE IsrCnt_proofs ---------------------------
(***************************************************************************)
(* Proofs about IsrCnt, for any finite set of processes, any modulus of    *)
(* the counters, any place of flag = 0 in gpio_open and any bounds.        *)
(***************************************************************************)
EXTENDS IsrCnt, TLAPS

-----------------------------------------------------------------------------
(* Type correctness.                                                        *)

LEMMA BumpType == ASSUME NEW c \in Int PROVE Bump(c) \in 0..(M-1)
  BY MAssumption DEF Bump

\* gpio_open ends with its fifth store: needed to bound at[t].
Opening == \A t \in Threads : pc[t] = "opening" => at[t] \in 0..4

LEMMA TypeInit == Init => TypeOK /\ Opening
<1> SUFFICES ASSUME Init PROVE TypeOK /\ Opening
  OBVIOUS
<1>1. Blank \in [Fields -> (-1)..(M-1)]
  BY MAssumption DEF Blank
<1>2. line \in [Threads -> [Fields -> (-1)..(M-1)]]
  BY <1>1 DEF Init
<1>3. pc \in [Threads -> Pcs] /\ Opening
  BY DEF Init, Opening, Pcs
<1>4. sig \in [Threads -> BOOLEAN]
  BY DEF Init
<1>5. /\ at \in [Threads -> 0..5]
      /\ reg \in [Threads -> 0..(M-1)] /\ todo \in [Threads -> SUBSET Fields]
      /\ nPass \in [Threads -> Nat]
  BY MAssumption DEF Init
<1>6. unseen \in BOOLEAN
  BY DEF Init
<1>7. nSig \in 0..MaxSig /\ nIsr \in 0..MaxIsr
  BY BoundsAssumption DEF Init
<1>8. isr_but_val \in Vals /\ read_but_val \in Vals
  BY DEF Init, Vals
<1>9. /\ life \in {"unloaded", "cdev", "live"} /\ flag \in {0, 1} /\ wq \subseteq Threads
      /\ cnt_isr \in 0..(M-1) /\ cnt_read \in 0..(M-1)
  BY MAssumption DEF Init
<1> QED
  BY <1>2, <1>3, <1>4, <1>5, <1>6, <1>7, <1>8, <1>9 DEF TypeOK

LEMMA TypeNext == TypeOK /\ Opening /\ [Next]_vars => TypeOK' /\ Opening'
<1> SUFFICES ASSUME TypeOK, Opening, [Next]_vars PROVE TypeOK' /\ Opening'
  OBVIOUS
<1> USE MAssumption, LevelsAssumption, BoundsAssumption, ClearPointAssumption
<1>1. CASE LoadCdev
  BY <1>1 DEF LoadCdev, TypeOK, Opening, locals, history, Vals
<1>2. CASE LoadIrq
  BY <1>2 DEF LoadIrq, TypeOK, Opening, shared, locals, history
<1>3. CASE Unload
  BY <1>3 DEF Unload, TypeOK, Opening, shared, locals
<1>4. CASE but_ISR
  <2>1. cnt_isr' \in 0..(M-1)
    BY <1>4, BumpType DEF but_ISR, TypeOK
  <2> QED
    BY <1>4, <2>1 DEF but_ISR, TypeOK, Opening, locals, Vals, Woken
<1>5. ASSUME NEW t \in Threads, OpenCall(t) PROVE TypeOK' /\ Opening'
  BY <1>5 DEF OpenCall, Goto, TypeOK, Opening, shared, history, Pcs, ReadPcs, WaitPcs
<1>6. ASSUME NEW t \in Threads, OpenStore(t) PROVE TypeOK' /\ Opening'
  BY <1>6 DEF OpenStore, StoreDone, Goto, TypeOK, Opening, history, Vals,
              Pcs, ReadPcs, WaitPcs
<1>7. ASSUME NEW t \in Threads, OpenClear(t) PROVE TypeOK' /\ Opening'
  <2>1. at[t] \in 0..4 /\ at' = [at EXCEPT ![t] = @ + 1]
    BY <1>7 DEF OpenClear, StoreDone, Opening
  <2>2. at' \in [Threads -> 0..5]
    BY <2>1 DEF TypeOK
  <2>3. pc' \in [Threads -> Pcs] /\ Opening'
    BY <1>7, <2>1 DEF OpenClear, StoreDone, Goto, TypeOK, Opening, Pcs
  <2> QED
    BY <1>7, <2>2, <2>3 DEF OpenClear, TypeOK, shared
<1>8. ASSUME NEW t \in Threads, Close(t) \/ ReadCall(t) \/ Wakeup(t)
      PROVE  TypeOK' /\ Opening'
  BY <1>8 DEF Close, ReadCall, Wakeup, Goto, TypeOK, Opening, shared, locals,
              history, Pcs, ReadPcs, WaitPcs
<1>9. ASSUME NEW t \in Threads, Pass(t) PROVE TypeOK' /\ Opening'
  BY <1>9 DEF Pass, Goto, TypeOK, Opening, shared, locals, Pcs, ReadPcs, WaitPcs
<1>10. ASSUME NEW t \in Threads, Check(t) PROVE TypeOK' /\ Opening'
  BY <1>10, <1>9 DEF Check, Goto, TypeOK, Opening, shared, locals, history,
                     Pcs, ReadPcs, WaitPcs
<1>11. ASSUME NEW t \in Threads, Prepare(t) PROVE TypeOK' /\ Opening'
  BY <1>11 DEF Prepare, Goto, TypeOK, Opening, shared, locals, history,
               Pcs, ReadPcs, WaitPcs
<1>12. ASSUME NEW t \in Threads, Recheck(t) PROVE TypeOK' /\ Opening'
  BY <1>12, <1>9 DEF Recheck, Goto, TypeOK, Opening, shared, locals, history,
                     Pcs, ReadPcs, WaitPcs
<1>13. ASSUME NEW t \in Threads, ClearFlag(t) \/ ReadValue(t) \/ IncLoad(t)
       PROVE  TypeOK' /\ Opening'
  <2>1. CASE ClearFlag(t)
    BY <2>1 DEF ClearFlag, Goto, TypeOK, Opening, shared, locals, history,
                Pcs, ReadPcs, WaitPcs
  <2>2. CASE ReadValue(t)
    BY <2>2 DEF ReadValue, Goto, TypeOK, Opening, locals, history, Vals,
                Pcs, ReadPcs, WaitPcs
  <2>3. CASE IncLoad(t)
    BY <2>3 DEF IncLoad, Goto, TypeOK, Opening, shared, history,
                Pcs, ReadPcs, WaitPcs
  <2> QED
    BY <1>13, <2>1, <2>2, <2>3
<1>14. ASSUME NEW t \in Threads, IncStore(t) PROVE TypeOK' /\ Opening'
  <2>1. cnt_read' \in 0..(M-1)
    BY <1>14, BumpType DEF IncStore, TypeOK
  <2> QED
    BY <1>14, <2>1 DEF IncStore, Goto, TypeOK, Opening, history, Fields,
                       Pcs, ReadPcs, WaitPcs
<1>15. ASSUME NEW t \in Threads, Load(t) PROVE TypeOK' /\ Opening'
  <2>1. PICK f \in todo[t] :
           /\ line' = [line EXCEPT ![t][f] = Cell(f)]
           /\ todo' = [todo EXCEPT ![t] = @ \ {f}]
           /\ Goto(t, IF todo[t] = {f} THEN "copy" ELSE "load")
           /\ unseen' = (unseen /\ f # "cnt_isr")
    BY <1>15 DEF Load
  <2>2. f \in Fields
    BY DEF TypeOK
  <2>3. Cell(f) \in (-1)..(M-1)
    BY DEF Cell, TypeOK, Vals
  <2>4. line' \in [Threads -> [Fields -> (-1)..(M-1)]]
    BY <2>1, <2>2, <2>3 DEF TypeOK
  <2>5. unseen' \in BOOLEAN
    BY <2>1 DEF TypeOK
  <2>6. todo' \in [Threads -> SUBSET Fields]
    BY <2>1 DEF TypeOK
  <2>7. pc' \in [Threads -> Pcs] /\ Opening'
    BY <2>1, <1>15 DEF Load, Goto, TypeOK, Opening, Pcs, ReadPcs, WaitPcs
  <2> QED
    BY <1>15, <2>4, <2>5, <2>6, <2>7 DEF Load, TypeOK, shared
<1>16. ASSUME NEW t \in Threads, Return(t) PROVE TypeOK' /\ Opening'
  BY <1>16 DEF Return, Goto, TypeOK, Opening, shared, history, Blank,
               Pcs, ReadPcs, WaitPcs
<1>17. ASSUME NEW t \in Threads, Signal(t) PROVE TypeOK' /\ Opening'
  BY <1>17 DEF Signal, TypeOK, Opening, shared, locals
<1>18. CASE UNCHANGED vars
  BY <1>18 DEF vars, TypeOK, Opening, shared, locals, history
<1> QED
  BY <1>1, <1>2, <1>3, <1>4, <1>5, <1>6, <1>7, <1>8, <1>10, <1>11, <1>12, <1>13,
     <1>14, <1>15, <1>16, <1>17, <1>18 DEF Next, Step, User

\* Every variable of the driver keeps its type: counters stay below M, whatever
\* number of interrupts and reads there is.
THEOREM TypeCorrect == Spec => []TypeOK
  BY TypeInit, TypeNext, PTL DEF Spec

-----------------------------------------------------------------------------
(* No lost wake-up.  A thread on the queue is preparing, testing again or   *)
(* asleep, and once flag is set only the thread that is about to test can   *)
(* be on it: the handler empties the queue in the step that sets flag.      *)

QueueInv ==
    \A t \in wq : /\ pc[t] \in {"prepare", "recheck", "asleep"}
                  /\ flag = 1 => pc[t] = "recheck"

LEMMA QueueNext == TypeOK /\ QueueInv /\ [Next]_vars => QueueInv'
<1> SUFFICES ASSUME TypeOK, QueueInv, [Next]_vars PROVE QueueInv'
  OBVIOUS
<1>1. CASE LoadCdev \/ LoadIrq \/ Unload
  BY <1>1 DEF LoadCdev, LoadIrq, Unload, QueueInv
<1>2. CASE but_ISR
  BY <1>2 DEF but_ISR, Woken, QueueInv
<1>3. ASSUME NEW t \in Threads, OpenCall(t) \/ Close(t) \/ ReadCall(t)
      PROVE  QueueInv'
  BY <1>3 DEF OpenCall, Close, ReadCall, Goto, QueueInv, TypeOK
<1>4. ASSUME NEW t \in Threads, OpenStore(t) \/ OpenClear(t) PROVE QueueInv'
  BY <1>4 DEF OpenStore, OpenClear, StoreDone, Goto, QueueInv, TypeOK
<1>5. ASSUME NEW t \in Threads, Pass(t) PROVE QueueInv'
  BY <1>5 DEF Pass, Goto, QueueInv, TypeOK
<1>6. ASSUME NEW t \in Threads, Check(t) PROVE QueueInv'
  BY <1>5, <1>6 DEF Check, Goto, QueueInv, TypeOK
<1>7. ASSUME NEW t \in Threads, Prepare(t) PROVE QueueInv'
  BY <1>7 DEF Prepare, Goto, QueueInv, TypeOK
<1>8. ASSUME NEW t \in Threads, Recheck(t) PROVE QueueInv'
  BY <1>5, <1>8 DEF Recheck, Goto, QueueInv, TypeOK
<1>9. ASSUME NEW t \in Threads, Wakeup(t) PROVE QueueInv'
  BY <1>9 DEF Wakeup, Goto, QueueInv, TypeOK
<1>10. ASSUME NEW t \in Threads,
              ClearFlag(t) \/ ReadValue(t) \/ IncLoad(t) \/ IncStore(t)
       PROVE  QueueInv'
  BY <1>10 DEF ClearFlag, ReadValue, IncLoad, IncStore, Goto, QueueInv, TypeOK
<1>11. ASSUME NEW t \in Threads, Load(t) \/ Return(t) PROVE QueueInv'
  BY <1>11 DEF Load, Return, Goto, QueueInv, TypeOK
<1>12. ASSUME NEW t \in Threads, Signal(t) PROVE QueueInv'
  BY <1>12 DEF Signal, QueueInv
<1>13. CASE UNCHANGED vars
  BY <1>13 DEF vars, QueueInv
<1> QED
  BY <1>1, <1>2, <1>3, <1>4, <1>6, <1>7, <1>8, <1>9, <1>10, <1>11, <1>12, <1>13
  DEF Next, Step, User

\* A reader that sleeps on the wait queue of gpio_read has no interrupt to
\* take: the test and the sleep of line 96 miss none.
THEOREM NeverLostWakeup == Spec => []NoLostWakeup
<1>1. Init => QueueInv
  BY DEF Init, QueueInv
<1>2. TypeOK /\ QueueInv => NoLostWakeup
  BY DEF TypeOK, QueueInv, NoLostWakeup
<1> QED
  BY <1>1, <1>2, QueueNext, TypeCorrect, PTL DEF Spec

-----------------------------------------------------------------------------
(* Passes are backed by interrupts.  While flag is set, an interrupt is in  *)
(* hand for every thread that has not just passed.                          *)

Owed(t) == IF flag = 1 /\ pc[t] # "clear" THEN 1 ELSE 0
PassInv == \A t \in Threads : nPass[t] + Owed(t) <= nIsr

LEMMA PassNext == TypeOK /\ PassInv /\ [Next]_vars => PassInv'
<1> SUFFICES ASSUME TypeOK, PassInv, [Next]_vars PROVE PassInv'
  OBVIOUS
<1> USE DEF PassInv, Owed
<1>1. CASE LoadCdev \/ LoadIrq \/ Unload
  BY <1>1 DEF LoadCdev, LoadIrq, Unload, history, TypeOK
<1>2. CASE but_ISR
  BY <1>2 DEF but_ISR, TypeOK
<1>3. ASSUME NEW t \in Threads, OpenCall(t) \/ Close(t) \/ ReadCall(t)
      PROVE  PassInv'
  BY <1>3 DEF OpenCall, Close, ReadCall, Goto, history, TypeOK
<1>4. ASSUME NEW t \in Threads, OpenStore(t) \/ OpenClear(t) PROVE PassInv'
  BY <1>4 DEF OpenStore, OpenClear, StoreDone, Goto, history, TypeOK
<1>5. ASSUME NEW t \in Threads, Pass(t), pc[t] # "clear" PROVE PassInv'
  BY <1>5 DEF Pass, Goto, TypeOK
<1>6. ASSUME NEW t \in Threads, Check(t) PROVE PassInv'
  BY <1>5, <1>6 DEF Check, Goto, history, TypeOK
<1>7. ASSUME NEW t \in Threads, Prepare(t) PROVE PassInv'
  BY <1>7 DEF Prepare, Goto, history, TypeOK
<1>8. ASSUME NEW t \in Threads, Recheck(t) PROVE PassInv'
  BY <1>5, <1>8 DEF Recheck, Goto, history, TypeOK
<1>9. ASSUME NEW t \in Threads, Wakeup(t) PROVE PassInv'
  BY <1>9 DEF Wakeup, Goto, history, TypeOK
<1>10. ASSUME NEW t \in Threads, ClearFlag(t) PROVE PassInv'
  BY <1>10 DEF ClearFlag, Goto, history, TypeOK
<1>11. ASSUME NEW t \in Threads, ReadValue(t) \/ IncLoad(t) \/ IncStore(t)
       PROVE  PassInv'
  BY <1>11 DEF ReadValue, IncLoad, IncStore, Goto, history, TypeOK
<1>12. ASSUME NEW t \in Threads, Load(t) \/ Return(t) PROVE PassInv'
  BY <1>12 DEF Load, Return, Goto, history, TypeOK
<1>13. ASSUME NEW t \in Threads, Signal(t) PROVE PassInv'
  BY <1>13 DEF Signal, TypeOK
<1>14. CASE UNCHANGED vars
  BY <1>14 DEF vars, history
<1> QED
  BY <1>1, <1>2, <1>3, <1>4, <1>6, <1>7, <1>8, <1>9, <1>10, <1>11, <1>12, <1>13,
     <1>14 DEF Next, Step, User

\* A process is let through by flag at most once per interrupt (lines 96, 97),
\* with any number of readers and openers and any number of signals.
THEOREM AlwaysBacked == Spec => []PassesBacked
<1>1. Init => PassInv
  BY DEF Init, PassInv, Owed
<1>2. TypeOK /\ PassInv => PassesBacked
  BY DEF TypeOK, PassInv, Owed, PassesBacked
<1> QED
  BY <1>1, <1>2, PassNext, TypeCorrect, PTL DEF Spec

-----------------------------------------------------------------------------
(* Every interrupt is reported or dropped.                                  *)

\* Unloading forgets what is pending; the irq line is free until then.
UnloadedInv == life = "unloaded" => ~unseen
ReportInv == NothingUnreported /\ UnloadedInv

LEMMA ReportNext == TypeOK /\ ReportInv /\ [Next]_vars => ReportInv'
<1> SUFFICES ASSUME TypeOK, ReportInv, [Next]_vars PROVE ReportInv'
  OBVIOUS
<1> USE DEF ReportInv, NothingUnreported, UnloadedInv, Reporting
<1>1. CASE LoadCdev \/ LoadIrq \/ Unload
  BY <1>1 DEF LoadCdev, LoadIrq, Unload, history, locals
<1>2. CASE but_ISR
  BY <1>2 DEF but_ISR
<1>3. ASSUME NEW t \in Threads, OpenCall(t) \/ Close(t) \/ ReadCall(t)
      PROVE  ReportInv'
  BY <1>3 DEF OpenCall, Close, ReadCall, Goto, history, locals, TypeOK
<1>4. ASSUME NEW t \in Threads, OpenStore(t) \/ OpenClear(t) PROVE ReportInv'
  BY <1>4 DEF OpenStore, OpenClear, StoreDone, Goto, history, TypeOK
<1>5. ASSUME NEW t \in Threads, Pass(t) PROVE ReportInv'
  BY <1>5 DEF Pass, Goto, locals, TypeOK
<1>6. ASSUME NEW t \in Threads, Check(t) PROVE ReportInv'
  BY <1>5, <1>6 DEF Check, Goto, history, locals, TypeOK
<1>7. ASSUME NEW t \in Threads, Prepare(t) PROVE ReportInv'
  BY <1>7 DEF Prepare, Goto, history, locals, TypeOK
<1>8. ASSUME NEW t \in Threads, Recheck(t) PROVE ReportInv'
  BY <1>5, <1>8 DEF Recheck, Goto, history, locals, TypeOK
<1>9. ASSUME NEW t \in Threads, Wakeup(t) PROVE ReportInv'
  BY <1>9 DEF Wakeup, Goto, history, locals, TypeOK
<1>10. ASSUME NEW t \in Threads, ClearFlag(t) PROVE ReportInv'
  BY <1>10 DEF ClearFlag, Goto, history, locals, TypeOK
<1>11. ASSUME NEW t \in Threads, ReadValue(t) \/ IncLoad(t) PROVE ReportInv'
  BY <1>11 DEF ReadValue, IncLoad, Goto, history, locals, TypeOK
<1>12. ASSUME NEW t \in Threads, IncStore(t) PROVE ReportInv'
  BY <1>12 DEF IncStore, Goto, history, Fields, TypeOK
<1>13. ASSUME NEW t \in Threads, Load(t) PROVE ReportInv'
  <2>1. PICK f \in todo[t] :
           /\ todo' = [todo EXCEPT ![t] = @ \ {f}]
           /\ Goto(t, IF todo[t] = {f} THEN "copy" ELSE "load")
           /\ unseen' = (unseen /\ f # "cnt_isr")
    BY <1>13 DEF Load
  <2>2. pc[t] = "load" /\ flag' = flag /\ life' = life
    BY <1>13 DEF Load
  <2>3. UnloadedInv'
    BY <2>1, <2>2
  <2>4. ASSUME unseen' PROVE flag' = 1 \/ \E u \in Threads : Reporting(u)'
    <3>1. unseen /\ f # "cnt_isr"
      BY <2>1, <2>4
    <3>2. CASE flag = 1
      BY <2>2, <3>2
    <3>3. CASE flag # 1
      <4>1. PICK u \in Threads : Reporting(u)
        BY <3>1, <3>3
      <4>2. CASE u = t
        <5>1. "cnt_isr" \in todo[t] /\ todo[t] # {f}
          BY <2>2, <3>1, <4>1, <4>2
        <5>2. pc'[t] = "load" /\ "cnt_isr" \in todo'[t]
          BY <2>1, <3>1, <5>1 DEF Goto, TypeOK
        <5> QED
          BY <5>2
      <4>3. CASE u # t
        <5>1. pc'[u] = pc[u] /\ todo'[u] = todo[u]
          BY <2>1, <4>3 DEF Goto, TypeOK
        <5> QED
          BY <4>1, <5>1
      <4> QED
        BY <4>2, <4>3
    <3> QED
      BY <3>2, <3>3
  <2> QED
    BY <2>3, <2>4
<1>14. ASSUME NEW t \in Threads, Return(t) PROVE ReportInv'
  BY <1>14 DEF Return, Goto, history, TypeOK
<1>15. ASSUME NEW t \in Threads, Signal(t) PROVE ReportInv'
  BY <1>15 DEF Signal, locals
<1>16. CASE UNCHANGED vars
  BY <1>16 DEF vars, history, locals
<1> QED
  BY <1>1, <1>2, <1>3, <1>4, <1>6, <1>7, <1>8, <1>9, <1>10, <1>11, <1>12, <1>13,
     <1>14, <1>15, <1>16 DEF Next, Step, User

\* An interrupt that no line counts yet has flag set, or a read under way that
\* will count it: clearing flag before reading the counters (lines 97, 101)
\* loses none, whatever the order of the loads.
THEOREM AllReported == Spec => []NothingUnreported
<1>1. Init => ReportInv
  BY DEF Init, ReportInv, NothingUnreported, UnloadedInv
<1> QED
  BY <1>1, ReportNext, TypeCorrect, PTL DEF Spec, ReportInv

-----------------------------------------------------------------------------
(* IsrCnt implements EventLatch.                                            *)

PhaseFn == [t \in Threads |-> Phase(t)]

\* A step of t moves the phase of t only.
LEMMA PhaseFrame ==
  ASSUME NEW t \in Threads, NEW w \in Pcs, TypeOK, Goto(t, w),
         \A u \in Threads \ {t} : todo'[u] = todo[u]
  PROVE  PhaseFn' = [PhaseFn EXCEPT ![t] = Phase(t)']
<1>1. \A u \in Threads \ {t} : Phase(u)' = Phase(u)
  BY DEF Phase, Reporting, Goto, TypeOK
<1> QED
  BY <1>1 DEF PhaseFn

\* ... and one that stays in its phase is a stutter of it.
LEMMA PhaseStutter ==
  ASSUME NEW t \in Threads, NEW w \in Pcs, TypeOK, Goto(t, w),
         \A u \in Threads \ {t} : todo'[u] = todo[u], Phase(t)' = Phase(t)
  PROVE  PhaseFn' = PhaseFn
  BY PhaseFrame DEF PhaseFn

LEMMA LatchInit == Init => Latch!AInit
<1> SUFFICES ASSUME Init PROVE Latch!AInit
  OBVIOUS
<1>1. \A t \in Threads : Phase(t) = "idle"
  BY DEF Init, Phase, Reporting, WaitPcs
<1> QED
  BY <1>1 DEF Init, Latch!AInit

LEMMA LatchNext ==
  TypeOK /\ PassInv /\ [Next]_vars => [Latch!ANext]_(Latch!avars)
<1> SUFFICES ASSUME TypeOK, PassInv, [Next]_vars
             PROVE  Latch!ANext \/ UNCHANGED <<nIsr, unseen, nPass, PhaseFn>>
  BY DEF Latch!avars, PhaseFn
<1> USE DEF PhaseFn
<1>1. CASE LoadCdev \/ LoadIrq \/ UNCHANGED vars
  BY <1>1 DEF LoadCdev, LoadIrq, vars, history, locals, Phase, Reporting
<1>2. CASE Unload
  <2>1. Latch!Drop
    BY <1>2 DEF Unload, locals, Phase, Reporting, Latch!Drop
  <2> QED
    BY <2>1 DEF Latch!ANext
<1>3. CASE but_ISR
  <2>1. Latch!Event
    BY <1>3 DEF but_ISR, locals, Phase, Reporting, Latch!Event
  <2> QED
    BY <2>1 DEF Latch!ANext
<1>4. ASSUME NEW t \in Threads, OpenCall(t) \/ Close(t) \/ OpenStore(t)
      PROVE  UNCHANGED <<nIsr, unseen, nPass, PhaseFn>>
  <2>1. PICK w \in {"opening", "closed", "user"} : Goto(t, w)
    BY <1>4 DEF OpenCall, Close, OpenStore, StoreDone
  <2>2. Phase(t) = "idle" /\ Phase(t)' = "idle"
    BY <1>4, <2>1
    DEF OpenCall, Close, OpenStore, Goto, Phase, Reporting, WaitPcs, TypeOK
  <2>3. todo' = todo /\ UNCHANGED history
    BY <1>4 DEF OpenCall, Close, OpenStore, locals
  <2> QED
    BY <2>1, <2>2, <2>3, PhaseStutter DEF Pcs, history
<1>5. ASSUME NEW t \in Threads, OpenClear(t) PROVE Latch!Drop
  <2>1. PICK w \in {"opening", "user"} : Goto(t, w)
    BY <1>5 DEF OpenClear, StoreDone
  <2>2. Phase(t) = "idle" /\ Phase(t)' = "idle"
    BY <1>5, <2>1 DEF OpenClear, Goto, Phase, Reporting, WaitPcs, TypeOK
  <2>3. PhaseFn' = PhaseFn
    BY <1>5, <2>1, <2>2, PhaseStutter DEF OpenClear, Pcs
  <2> QED
    BY <1>5, <2>3 DEF OpenClear, Latch!Drop
<1>6. ASSUME NEW t \in Threads, ReadCall(t) PROVE Latch!Call(t)
  <2>1. Phase(t) = "idle" /\ Phase(t)' = "waiting"
    BY <1>6 DEF ReadCall, Goto, Phase, Reporting, WaitPcs, TypeOK
  <2>2. PhaseFn' = [PhaseFn EXCEPT ![t] = "waiting"]
    BY <1>6, <2>1, PhaseFrame DEF ReadCall, locals, Pcs, ReadPcs, WaitPcs
  <2> QED
    BY <1>6, <2>1, <2>2 DEF ReadCall, history, Latch!Call, Latch!Move
<1>7. ASSUME NEW t \in Threads, Pass(t), pc[t] \in {"check", "recheck", "lastcheck"}
      PROVE  Latch!Serve(t)
  <2>1. Phase(t) = "waiting" /\ Phase(t)' = "serving"
    BY <1>7 DEF Pass, Goto, Phase, Reporting, WaitPcs, TypeOK
  <2>2. PhaseFn' = [PhaseFn EXCEPT ![t] = "serving"]
    BY <1>7, <2>1, PhaseFrame DEF Pass, locals, Pcs, ReadPcs
  <2>3. nPass[t] < nIsr
    BY <1>7 DEF Pass, PassInv, Owed, TypeOK
  <2> QED
    BY <1>7, <2>1, <2>2, <2>3 DEF Pass, Latch!Serve, Latch!Move
<1>8. ASSUME NEW t \in Threads, Check(t) \/ Recheck(t), ~Pass(t)
      PROVE  Latch!Interrupted(t) \/ UNCHANGED <<nIsr, unseen, nPass, PhaseFn>>
  <2>1. UNCHANGED <<history, locals>>
    BY <1>8 DEF Check, Recheck
  <2>2. Phase(t) = "waiting"
    BY <1>8 DEF Check, Recheck, Phase, Reporting, WaitPcs
  <2>3. CASE Goto(t, "clear")
    <3>1. Phase(t)' = "serving"
      BY <2>3 DEF Goto, Phase, Reporting, WaitPcs, TypeOK
    <3>2. PhaseFn' = [PhaseFn EXCEPT ![t] = "serving"]
      BY <2>1, <2>3, <3>1, PhaseFrame DEF locals, Pcs, ReadPcs
    <3> QED
      BY <2>1, <2>2, <3>2 DEF history, Latch!Interrupted, Latch!Move
  <2>4. ASSUME NEW w \in {"prepare", "asleep"}, Goto(t, w)
        PROVE  UNCHANGED <<nIsr, unseen, nPass, PhaseFn>>
    <3>1. Phase(t)' = "waiting"
      BY <2>4 DEF Goto, Phase, Reporting, WaitPcs, TypeOK
    <3> QED
      BY <2>1, <2>2, <2>4, <3>1, PhaseStutter
      DEF locals, history, Pcs, ReadPcs, WaitPcs
  <2> QED
    BY <1>8, <2>3, <2>4 DEF Check, Recheck
<1>9. ASSUME NEW t \in Threads, Prepare(t) \/ Wakeup(t)
      PROVE  UNCHANGED <<nIsr, unseen, nPass, PhaseFn>>
  <2>1. PICK w \in WaitPcs : Goto(t, w)
    BY <1>9 DEF Prepare, Wakeup, WaitPcs
  <2>2. Phase(t) = "waiting" /\ Phase(t)' = "waiting"
    BY <1>9, <2>1 DEF Prepare, Wakeup, Goto, Phase, Reporting, WaitPcs, TypeOK
  <2>3. todo' = todo /\ UNCHANGED history
    BY <1>9 DEF Prepare, Wakeup, locals
  <2> QED
    BY <2>1, <2>2, <2>3, PhaseStutter DEF Pcs, ReadPcs, history
<1>10. ASSUME NEW t \in Threads, ClearFlag(t) \/ ReadValue(t) \/ IncLoad(t)
       PROVE  UNCHANGED <<nIsr, unseen, nPass, PhaseFn>>
  <2>1. PICK w \in {"sample", "incload", "incstore"} : Goto(t, w)
    BY <1>10 DEF ClearFlag, ReadValue, IncLoad
  <2>2. Phase(t) = "serving" /\ Phase(t)' = "serving"
    BY <1>10, <2>1
    DEF ClearFlag, ReadValue, IncLoad, Goto, Phase, Reporting, WaitPcs, TypeOK
  <2>3. todo' = todo /\ UNCHANGED history
    BY <1>10 DEF ClearFlag, ReadValue, IncLoad, locals
  <2> QED
    BY <2>1, <2>2, <2>3, PhaseStutter DEF Pcs, ReadPcs, history
<1>11. ASSUME NEW t \in Threads, IncStore(t)
       PROVE  UNCHANGED <<nIsr, unseen, nPass, PhaseFn>>
  <2>1. Phase(t) = "serving" /\ Phase(t)' = "serving"
    BY <1>11 DEF IncStore, Goto, Phase, Reporting, WaitPcs, Fields, TypeOK
  <2> QED
    BY <1>11, <2>1, PhaseStutter DEF IncStore, Pcs, ReadPcs, history, TypeOK
<1>12. ASSUME NEW t \in Threads, Load(t)
       PROVE  Latch!Report(t) \/ UNCHANGED <<nIsr, unseen, nPass, PhaseFn>>
  <2>1. PICK f \in todo[t] :
           /\ todo' = [todo EXCEPT ![t] = @ \ {f}]
           /\ Goto(t, IF todo[t] = {f} THEN "copy" ELSE "load")
           /\ unseen' = (unseen /\ f # "cnt_isr")
    BY <1>12 DEF Load
  <2>2. pc[t] = "load" /\ nIsr' = nIsr /\ nPass' = nPass
    BY <1>12 DEF Load
  <2>3. PICK w \in {"copy", "load"} : /\ Goto(t, w)
                                      /\ w = "copy" <=> todo[t] = {f}
    BY <2>1
  <2>4. pc'[t] = w /\ todo'[t] = todo[t] \ {f}
    BY <2>1, <2>3 DEF Goto, TypeOK
  <2>5. PhaseFn' = [PhaseFn EXCEPT ![t] = Phase(t)']
    BY <2>1, <2>3, PhaseFrame DEF Pcs, ReadPcs, TypeOK
  <2>6. CASE f = "cnt_isr"
    <3>1. Phase(t) = "serving" /\ Phase(t)' = "reported"
      BY <2>2, <2>4, <2>6 DEF Phase, Reporting, WaitPcs
    <3>2. unseen' = FALSE
      BY <2>1, <2>6
    <3> QED
      BY <2>2, <2>5, <3>1, <3>2 DEF Latch!Report, Latch!Move
  <2>7. CASE f # "cnt_isr"
    <3>1. Phase(t)' = Phase(t)
      BY <2>1, <2>2, <2>3, <2>4, <2>7 DEF Phase, Reporting, WaitPcs
    <3>2. unseen' = unseen
      BY <2>1, <2>7 DEF TypeOK
    <3> QED
      BY <2>2, <2>5, <3>1, <3>2
  <2> QED
    BY <2>6, <2>7
<1>13. ASSUME NEW t \in Threads, Return(t) PROVE Latch!Return(t)
  <2>1. Phase(t) = "reported" /\ Phase(t)' = "idle"
    BY <1>13 DEF Return, Goto, Phase, Reporting, WaitPcs, TypeOK
  <2>2. PhaseFn' = [PhaseFn EXCEPT ![t] = "idle"]
    BY <1>13, <2>1, PhaseFrame DEF Return, Pcs
  <2> QED
    BY <1>13, <2>1, <2>2 DEF Return, history, Latch!Return, Latch!Move
<1>14. ASSUME NEW t \in Threads, Signal(t)
       PROVE  UNCHANGED <<nIsr, unseen, nPass, PhaseFn>>
  BY <1>14 DEF Signal, locals, Phase, Reporting
<1>15. ASSUME NEW t \in Threads, Check(t) \/ Recheck(t)
       PROVE  Latch!ANext \/ UNCHANGED <<nIsr, unseen, nPass, PhaseFn>>
  BY <1>7, <1>8, <1>15 DEF Check, Recheck, Latch!ANext
<1> QED
  BY <1>1, <1>2, <1>3, <1>4, <1>5, <1>6, <1>9, <1>10, <1>11, <1>12, <1>13, <1>14,
     <1>15 DEF Next, Step, User, Latch!ANext

\* isr_cnt.c keeps the promise of EventLatch: every step of the driver is a
\* step or a stutter of it, for any number of processes.
THEOREM RefinesLatch == Spec => ImplementsLatch
<1>1. Init => PassInv
  BY DEF Init, PassInv, Owed
<1> QED
  BY <1>1, LatchInit, LatchNext, PassNext, TypeCorrect, PTL
  DEF Spec, ImplementsLatch, Latch!ASpec

-----------------------------------------------------------------------------
(* The lines of a lone reader.  I and R are what the counters counted since *)
(* gpio_open; a read owes the counters what it has taken by flag and not    *)
(* counted yet.                                                             *)

LEMMA UpsType == ASSUME NEW c \in Int PROVE Ups(c) \in 0..(M-1)
  BY MAssumption DEF Ups

LEMMA ModSmall == \A x \in 0..(M-1) : x % M = x
  BY MAssumption

\* Counting one more: exactly one more where the counter does not wrap.
LEMMA UpsBump ==
    ASSUME NEW c \in Int
    PROVE  /\ Ups(Bump(c)) \in 0..(M-1) /\ Ups(Bump(c)) <= Ups(c) + 1
           /\ Ups(c) + 1 < M => Ups(Bump(c)) = Ups(c) + 1
<1>1. Bump(c) = Ups(c) /\ Ups(c) \in 0..(M-1)
  BY UpsType DEF Bump, Ups
<1>2. Ups(Bump(c)) = (Bump(c) + 1) % M
  BY DEF Ups
<1>3. Ups(Bump(c)) \in 0..(M-1)
  BY <1>1, UpsType
<1>4. CASE Ups(c) + 1 < M
  <2>1. (Ups(c) + 1) % M = Ups(c) + 1
    <3>1. Ups(c) + 1 \in 0..(M-1)
      BY <1>1, <1>4, MAssumption
    <3> QED
      BY <3>1, ModSmall
  <2> QED
    BY <1>1, <1>2, <1>3, <2>1
<1>5. CASE ~(Ups(c) + 1 < M)
  BY <1>1, <1>3, <1>5, MAssumption
<1> QED
  BY <1>4, <1>5

LEMMA UpsReset == Ups(M - 1) = 0
<1>1. M % M = 0
  BY MAssumption
<1> QED
  BY <1>1, MAssumption DEF Ups

I == Ups(cnt_isr)
R == Ups(cnt_read)
Owes(t) == CASE pc[t] = "clear" -> 1
             [] pc[t] \in {"sample", "incload", "incstore"} -> 1 + flag
             [] OTHER -> flag

\* gpio_open, store by store: what at[t] of them have set up.
OpeningInv(t) ==
    pc[t] = "opening" =>
        /\ at[t] > Place(3) => I <= nIsr
        /\ at[t] > Place(4) => R = 0
        /\ at[t] > Place(3) /\ at[t] > ClearPoint => flag <= I + Ahead
        /\ ClearPoint > 0 /\ at[t] > ClearPoint /\ flag = 1 => isr_but_val \in Levels
\* Opened: the reads, with that under way, do not exceed the interrupts.
CountInv(t) ==
    pc[t] \notin {"closed", "opening"} =>
        /\ I <= nIsr
        /\ R + Owes(t) <= I + Ahead
        /\ ClearPoint > 0 /\ (flag = 1 \/ pc[t] \notin WaitPcs \cup {"user"}) =>
               isr_but_val \in Levels
\* The line, field by field.
Loaded(t) == CASE pc[t] = "load" -> Fields \ todo[t]
               [] pc[t] = "copy" -> Fields
               [] OTHER -> {}
LineInv(t) ==
    /\ pc[t] = "incstore" => reg[t] = cnt_read
    /\ "cnt_read" \in Loaded(t) => line[t]["cnt_read"] = cnt_read
    /\ "cnt_isr" \in Loaded(t) => R <= Ups(line[t]["cnt_isr"]) + Ahead
    /\ "isr_but_val" \in Loaded(t) /\ ClearPoint > 0 => line[t]["isr_but_val"] \in Levels
LoneInv(t) ==
    ~sig[t] /\ pc[t] # "lastcheck" /\ OpeningInv(t) /\ CountInv(t) /\ LineInv(t)
LifeInv(t) == life = "unloaded" => pc[t] = "closed"

LEMMA LoneType ==
    ASSUME TypeOK
    PROVE  /\ I \in 0..(M-1) /\ R \in 0..(M-1) /\ flag \in {0, 1} /\ nIsr \in Nat /\ nSig \in Nat
           /\ Ahead \in {0, 1} /\ Place(3) \in {2, 3} /\ Place(4) \in {3, 4}
           /\ (Place(3) = 2 <=> Ahead = 0) /\ (Place(3) = 2 <=> ClearPoint >= 3)
<1>1. I \in 0..(M-1) /\ R \in 0..(M-1)
  BY UpsType DEF TypeOK, I, R
<1>2. flag \in {0, 1} /\ nIsr \in Nat /\ nSig \in Nat
  BY BoundsAssumption DEF TypeOK
<1>3. /\ Ahead \in {0, 1} /\ Place(3) \in {2, 3} /\ Place(4) \in {3, 4}
      /\ (Place(3) = 2 <=> Ahead = 0) /\ (Place(3) = 2 <=> ClearPoint >= 3)
  BY ClearPointAssumption DEF Ahead, Place
<1> QED
  BY <1>1, <1>2, <1>3

LEMMA LoneInit ==
    ASSUME NEW t \in Threads PROVE Init => LifeInv(t) /\ LoneInv(t)
  BY DEF Init, LifeInv, LoneInv, OpeningInv, CountInv, LineInv, Loaded

LEMMA LifeNext ==
    ASSUME NEW t \in Threads, Threads = {t}, TypeOK, LifeInv(t), [Next]_vars
    PROVE  LifeInv(t)'
<1> USE DEF LifeInv, TypeOK
<1>1. CASE LoadCdev \/ LoadIrq \/ but_ISR \/ UNCHANGED vars
  BY <1>1 DEF LoadCdev, LoadIrq, but_ISR, vars
<1>2. CASE Unload
  BY <1>2 DEF Unload
<1>3. CASE OpenCall(t)
  BY <1>3 DEF OpenCall
<1>4. CASE Step(t) \/ Close(t) \/ ReadCall(t) \/ Signal(t)
  <2>1. pc[t] # "closed" /\ life' = life
    BY <1>4 DEF Step, Close, ReadCall, Signal, OpenStore, OpenClear, Check, Prepare, Recheck,
       Wakeup, ClearFlag, ReadValue, IncLoad, IncStore, Load, Return, Pass, ReadPcs, WaitPcs
  <2> QED
    BY <2>1
<1> QED
  BY <1>1, <1>2, <1>3, <1>4 DEF Next, User

\* Steps of t that leave the counters, flag and the line alone.
LEMMA LoneMove ==
    ASSUME NEW t \in Threads, TypeOK, LoneInv(t), NEW w, Goto(t, w),
           UNCHANGED <<flag, shared, reg, todo, line, nIsr, sig>>,
           \/ w = "closed"
           \/ /\ w \in (WaitPcs \ {"lastcheck"}) \cup {"user"}
              /\ pc[t] \in WaitPcs \cup {"user"}
           \/ w = "clear" /\ flag = 1 /\ pc[t] \in WaitPcs
    PROVE  LoneInv(t)'
<1> USE DEF LoneInv, WaitPcs
<1>1. pc'[t] = w /\ pc'[t] \notin {"lastcheck", "opening"}
  BY DEF Goto, TypeOK
<1>2. OpeningInv(t)' /\ LineInv(t)'
  BY <1>1 DEF OpeningInv, LineInv, Loaded
<1>3. CountInv(t)'
  <2>1. I' = I /\ R' = R
    BY DEF I, R, shared
  <2> QED
    BY <1>1, <2>1 DEF CountInv, Owes, shared, Ahead
<1> QED
  BY <1>1, <1>2, <1>3

LEMMA LoneIsr ==
    ASSUME NEW t \in Threads, TypeOK, LoneInv(t), MaxIsr < M, but_ISR
    PROVE  LoneInv(t)'
<1> USE DEF LoneInv
<1>1. UNCHANGED <<pc, at, reg, todo, line, sig, cnt_read>> /\ flag' = 1 /\ isr_but_val' \in Levels
  BY DEF but_ISR, locals
<1>2. R' = R /\ nIsr' = nIsr + 1 /\ nIsr < MaxIsr /\ I' = Ups(Bump(cnt_isr))
  BY <1>1 DEF R, I, but_ISR
<1>3. I <= nIsr => I' = I + 1
  BY <1>2, UpsBump, MAssumption, BoundsAssumption, LoneType DEF I, TypeOK
<1>4. OpeningInv(t)'
  BY <1>1, <1>2, <1>3, LoneType DEF OpeningInv
<1>5. CountInv(t)'
  BY <1>1, <1>2, <1>3, LoneType DEF CountInv, Owes, Ahead
<1>6. LineInv(t)'
  BY <1>1, <1>2 DEF LineInv, Loaded, Ahead
<1> QED
  BY <1>1, <1>4, <1>5, <1>6

LEMMA LoneOpen ==
    ASSUME NEW t \in Threads, TypeOK, Opening, LoneInv(t),
           OpenCall(t) \/ OpenStore(t) \/ OpenClear(t)
    PROVE  LoneInv(t)'
<1> USE DEF LoneInv
<1>1. sig' = sig /\ nIsr' = nIsr /\ LineInv(t)'
  <2>1. pc'[t] \in {"opening", "user"}
    BY DEF OpenCall, OpenStore, OpenClear, StoreDone, Goto, TypeOK
  <2> QED
    BY <2>1 DEF LineInv, Loaded, OpenCall, OpenStore, OpenClear, history
<1>2. CASE OpenCall(t)
  <2>1. pc'[t] = "opening" /\ at'[t] = 0
    BY <1>2 DEF OpenCall, Goto, TypeOK
  <2>2. OpeningInv(t)'
    BY <2>1, LoneType, ClearPointAssumption DEF OpeningInv, Place
  <2> QED
    BY <1>1, <2>1, <2>2 DEF CountInv
<1>3. ASSUME pc[t] = "opening", at[t] \in 0..4, StoreDone(t), flag' \in {0, 1},
             at[t] + 1 > Place(3) => I' <= nIsr,
             at[t] + 1 > Place(4) => R' = 0,
             at[t] + 1 > Place(3) /\ at[t] + 1 > ClearPoint => flag' <= I' + Ahead,
             ClearPoint > 0 /\ at[t] + 1 > ClearPoint /\ flag' = 1 => isr_but_val' \in Levels
      PROVE  LoneInv(t)'
  <2>1. at'[t] = at[t] + 1 /\ pc'[t] = IF at[t] = 4 THEN "user" ELSE "opening"
    BY <1>3 DEF StoreDone, Goto, TypeOK
  <2>2. CASE at[t] = 4
    <3>1. R' = 0 /\ I' <= nIsr /\ flag' <= I' + Ahead
          /\ (ClearPoint > 0 /\ flag' = 1 => isr_but_val' \in Levels)
      BY <1>3, <2>2, LoneType, ClearPointAssumption
    <3>2. CountInv(t)'
      <4>1. Owes(t)' = flag' /\ pc'[t] = "user"
        BY <2>1, <2>2 DEF Owes
      <4>2. R' + Owes(t)' <= I' + Ahead
        BY <1>3, <3>1, <4>1
      <4> QED
        BY <1>1, <3>1, <4>1, <4>2 DEF CountInv, Ahead
    <3> QED
      BY <1>1, <2>1, <2>2, <3>2 DEF OpeningInv
  <2>3. CASE at[t] # 4
    <3>1. OpeningInv(t)'
      BY <1>1, <1>3, <2>1, <2>3 DEF OpeningInv, Ahead, Place
    <3> QED
      BY <1>1, <2>1, <2>3, <3>1 DEF CountInv
  <2> QED
    BY <2>2, <2>3
<1>4. CASE OpenStore(t)
  <2>1. pc[t] = "opening" /\ at[t] \in 0..4 /\ StoreDone(t) /\ flag' = flag
    BY <1>4 DEF OpenStore, Opening
  <2>2. I' = IF at[t] = Place(3) THEN 0 ELSE I
    BY <1>4, UpsReset DEF OpenStore, I
  <2>3. R' = IF at[t] = Place(4) THEN 0 ELSE R
    BY <1>4, UpsReset DEF OpenStore, R
  <2>4. at[t] # ClearPoint /\ at[t] # Place(1) => isr_but_val' = isr_but_val
    BY <1>4 DEF OpenStore
  <2>5. at[t] + 1 > Place(3) => I' <= nIsr
    BY <2>1, <2>2, LoneType DEF OpeningInv
  <2>6. at[t] + 1 > Place(4) => R' = 0
    BY <2>1, <2>3, LoneType DEF OpeningInv
  <2>7. at[t] + 1 > Place(3) /\ at[t] + 1 > ClearPoint => flag' <= I' + Ahead
    <3>1. at[t] # ClearPoint
      BY <1>4 DEF OpenStore
    <3>2. CASE at[t] = Place(3)
      BY <2>1, <2>2, <3>1, <3>2, LoneType, ClearPointAssumption
    <3>3. CASE at[t] # Place(3)
      BY <2>1, <2>2, <3>1, <3>3, LoneType, ClearPointAssumption DEF OpeningInv
    <3> QED
      BY <3>2, <3>3
  <2>8. ClearPoint > 0 /\ at[t] + 1 > ClearPoint /\ flag' = 1 => isr_but_val' \in Levels
    <3> SUFFICES ASSUME ClearPoint > 0, at[t] + 1 > ClearPoint, flag' = 1
                 PROVE  isr_but_val' \in Levels
      OBVIOUS
    <3>1. at[t] # ClearPoint /\ at[t] > ClearPoint
      BY <1>4, <2>1, ClearPointAssumption DEF OpenStore
    <3>2. at[t] # Place(1)
      BY <3>1, ClearPointAssumption DEF Place
    <3> QED
      BY <2>1, <2>4, <3>1, <3>2 DEF OpeningInv
  <2> QED
    BY <1>3, <2>1, <2>5, <2>6, <2>7, <2>8, LoneType
<1>5. CASE OpenClear(t)
  <2>1. pc[t] = "opening" /\ at[t] \in 0..4 /\ StoreDone(t) /\ flag' = 0 /\ at[t] = ClearPoint
    BY <1>5 DEF OpenClear, Opening
  <2>2. I' = I /\ R' = R /\ at[t] # Place(3) /\ at[t] # Place(4)
    BY <1>5, ClearPointAssumption DEF OpenClear, shared, I, R, Place
  <2> QED
    BY <1>3, <2>1, <2>2, LoneType DEF OpeningInv
<1> QED
  BY <1>2, <1>4, <1>5

LEMMA LoneServe ==
    ASSUME NEW t \in Threads, TypeOK, LoneInv(t),
           ClearFlag(t) \/ ReadValue(t) \/ IncLoad(t)
    PROVE  LoneInv(t)'
<1> USE DEF LoneInv
<1>1. PICK w \in {"sample", "incload", "incstore"} : Goto(t, w) /\ pc'[t] = w
  BY DEF ClearFlag, ReadValue, IncLoad, Goto, TypeOK
<1>2. I' = I /\ R' = R /\ isr_but_val' = isr_but_val /\ nIsr' = nIsr /\ sig' = sig
  BY DEF ClearFlag, ReadValue, IncLoad, shared, history, I, R
<1>3. pc[t] \in {"clear", "sample", "incload"}
  BY DEF ClearFlag, ReadValue, IncLoad
<1>4. Owes(t)' \in Nat /\ Owes(t) \in Nat /\ Owes(t)' <= Owes(t)
  BY <1>1, LoneType DEF ClearFlag, ReadValue, IncLoad, Owes
<1>5. CountInv(t)'
  <2>1. I <= nIsr /\ R + Owes(t) <= I + Ahead /\ (ClearPoint > 0 => isr_but_val \in Levels)
    BY <1>3 DEF CountInv, WaitPcs
  <2>2. R' + Owes(t)' <= I' + Ahead
    BY <1>2, <1>4, <2>1, LoneType
  <2> QED
    BY <1>2, <2>1, <2>2 DEF CountInv, Ahead
<1>6. LineInv(t)'
  <2>1. Loaded(t)' = {}
    BY <1>1 DEF Loaded
  <2>2. pc'[t] = "incstore" => reg'[t] = cnt_read'
    BY <1>1 DEF ClearFlag, ReadValue, IncLoad, Goto, shared, TypeOK
  <2> QED
    BY <2>1, <2>2 DEF LineInv
<1> QED
  BY <1>1, <1>2, <1>5, <1>6 DEF OpeningInv

LEMMA LoneCount ==
    ASSUME NEW t \in Threads, TypeOK, LoneInv(t), IncStore(t)
    PROVE  LoneInv(t)'
<1> USE DEF LoneInv
<1>1. pc[t] = "incstore" /\ pc'[t] = "load" /\ todo'[t] = Fields
  BY DEF IncStore, Goto, TypeOK
<1>2. I' = I /\ isr_but_val' = isr_but_val /\ nIsr' = nIsr /\ sig' = sig /\ flag' = flag
  BY DEF IncStore, history, I
<1>3. R' <= R + 1 /\ R' \in Nat
  BY <1>1, UpsBump, MAssumption DEF IncStore, LineInv, R, TypeOK
<1>4. CountInv(t)'
  BY <1>1, <1>2, <1>3, LoneType DEF CountInv, Owes, WaitPcs, Ahead
<1>5. LineInv(t)'
  BY <1>1 DEF LineInv, Loaded
<1> QED
  BY <1>1, <1>2, <1>4, <1>5 DEF OpeningInv

LEMMA LoneLoad ==
    ASSUME NEW t \in Threads, TypeOK, LoneInv(t), Load(t)
    PROVE  LoneInv(t)'
<1> USE DEF LoneInv
<1>1. PICK f \in todo[t] :
         /\ line' = [line EXCEPT ![t][f] = Cell(f)]
         /\ todo' = [todo EXCEPT ![t] = @ \ {f}]
         /\ Goto(t, IF todo[t] = {f} THEN "copy" ELSE "load")
  BY DEF Load
<1>2. pc[t] = "load" /\ pc'[t] = (IF todo[t] = {f} THEN "copy" ELSE "load") /\ f \in Fields
  BY <1>1 DEF Load, Goto, TypeOK
<1>3. I' = I /\ R' = R /\ UNCHANGED <<cnt_isr, cnt_read, isr_but_val, nIsr, sig, flag>>
  BY DEF Load, shared, I, R
<1>4. CountInv(t)'
  BY <1>2, <1>3 DEF CountInv, Owes, WaitPcs, Ahead
<1>5. Loaded(t)' \subseteq Loaded(t) \cup {f}
  BY <1>1, <1>2 DEF Loaded, TypeOK
<1>6. \A g \in Fields : line'[t][g] = IF g = f THEN Cell(f) ELSE line[t][g]
  BY <1>1, <1>2 DEF TypeOK
<1>7. "cnt_read" \in Loaded(t)' => line'[t]["cnt_read"] = cnt_read'
  BY <1>3, <1>5, <1>6 DEF LineInv, Cell, Fields
<1>8. "cnt_isr" \in Loaded(t)' => R' <= Ups(line'[t]["cnt_isr"]) + Ahead
  <2>1. R <= I + Ahead
    BY <1>2, LoneType DEF CountInv, Owes
  <2> QED
    BY <1>3, <1>5, <1>6, <2>1 DEF LineInv, Cell, Fields, I
<1>9. "isr_but_val" \in Loaded(t)' /\ ClearPoint > 0 => line'[t]["isr_but_val"] \in Levels
  <2>1. ClearPoint > 0 => isr_but_val \in Levels
    BY <1>2 DEF CountInv, WaitPcs
  <2> QED
    BY <1>5, <1>6, <2>1 DEF LineInv, Cell, Fields
<1>10. LineInv(t)'
  BY <1>2, <1>7, <1>8, <1>9 DEF LineInv, Ahead, Ups
<1> QED
  BY <1>2, <1>3, <1>4, <1>10 DEF OpeningInv

LEMMA LoneReturn ==
    ASSUME NEW t \in Threads, TypeOK, LoneInv(t), Return(t)
    PROVE  LoneInv(t)'
<1> USE DEF LoneInv
<1>1. pc[t] = "copy" /\ pc'[t] = "user" /\ ~sig'[t]
  BY DEF Return, Goto, TypeOK
<1>2. I' = I /\ R' = R /\ UNCHANGED <<isr_but_val, nIsr, flag>>
  BY DEF Return, shared, history, I, R
<1>3. CountInv(t)'
  BY <1>1, <1>2 DEF CountInv, Owes, WaitPcs, Ahead
<1> QED
  BY <1>1, <1>3 DEF OpeningInv, LineInv, Loaded

LEMMA LoneNext ==
    ASSUME NEW t \in Threads, Threads = {t}, MaxIsr < M,
           TypeOK, Opening, LifeInv(t), nSig = 0 => LoneInv(t), [Next]_vars
    PROVE  nSig' = 0 => LoneInv(t)'
<1> SUFFICES ASSUME nSig' = 0 PROVE LoneInv(t)'
  OBVIOUS
<1>0. nSig = 0 /\ ~Signal(t)
  BY LoneType DEF Next, vars, history, LoadCdev, LoadIrq, Unload, but_ISR, Step, User,
     OpenCall, OpenStore, OpenClear, Close, ReadCall, Check, Pass, Prepare, Recheck, Wakeup,
     ClearFlag, ReadValue, IncLoad, IncStore, Load, Return, Signal
<1>1. LoneInv(t)
  BY <1>0
<1>2. CASE LoadCdev
  BY <1>1, <1>2 DEF LoadCdev, LifeInv, LoneInv, OpeningInv, CountInv, LineInv, Loaded, locals
<1>3. CASE LoadIrq \/ Unload \/ UNCHANGED vars
  <2>1. UNCHANGED <<flag, shared, pc, locals, sig, nIsr>>
    BY <1>3 DEF LoadIrq, Unload, vars, history
  <2> QED
    BY <1>1, <2>1 DEF LoneInv, OpeningInv, CountInv, LineInv, Loaded, Owes, I, R, Ahead,
       Place, shared, locals
<1>4. CASE but_ISR
  BY <1>1, <1>4, LoneIsr
<1>5. CASE OpenCall(t) \/ OpenStore(t) \/ OpenClear(t)
  BY <1>1, <1>5, LoneOpen
<1>6. CASE Close(t) \/ ReadCall(t)
  BY <1>1, <1>6, LoneMove DEF Close, ReadCall, locals, history, WaitPcs
<1>7. CASE Prepare(t) \/ Wakeup(t)
  BY <1>1, <1>7, LoneMove DEF Prepare, Wakeup, locals, history, WaitPcs, LoneInv
<1>8. CASE Check(t) \/ Recheck(t)
  BY <1>1, <1>8, LoneMove DEF Check, Recheck, Pass, locals, history, WaitPcs, LoneInv
<1>9. CASE ClearFlag(t) \/ ReadValue(t) \/ IncLoad(t)
  BY <1>1, <1>9, LoneServe
<1>10. CASE IncStore(t) \/ Load(t) \/ Return(t)
  BY <1>1, <1>10, LoneCount, LoneLoad, LoneReturn
<1> QED
  BY <1>0, <1>2, <1>3, <1>4, <1>5, <1>6, <1>7, <1>8, <1>9, <1>10 DEF Next, Step, User

\* For one process, no signal and fewer interrupts than a counter can count: no
\* line is ahead of the interrupts (but for the one that a clear of flag before
\* the reset of cnt_isr lets through), and none shows the placeholder.
THEOREM LoneLinesBacked ==
    ASSUME NEW t, Threads = {t}, MaxIsr < M
    PROVE  Spec => []LineBacked
<1> DEFINE Inv == TypeOK /\ Opening /\ LifeInv(t) /\ (nSig = 0 => LoneInv(t))
<1>1. Init => Inv
  BY TypeInit, LoneInit
<1>2. Inv /\ [Next]_vars => Inv'
  BY TypeNext, LifeNext, LoneNext
<1>3. Inv => LineBacked
  <2> SUFFICES ASSUME TypeOK, LoneInv(t), pc[t] = "copy"
               PROVE  /\ Missed(line[t]) >= -Ahead
                      /\ ClearPoint > 0 => line[t]["isr_but_val"] \in Levels
    BY DEF LineBacked
  <2>1. line[t]["cnt_read"] = cnt_read /\ R <= Ups(line[t]["cnt_isr"]) + Ahead
        /\ (ClearPoint > 0 => line[t]["isr_but_val"] \in Levels)
    BY DEF LoneInv, LineInv, Loaded, Fields
  <2>2. Ups(line[t]["cnt_isr"]) \in Nat
    BY UpsType, MAssumption DEF TypeOK, Fields
  <2> QED
    BY <2>1, <2>2, LoneType DEF Missed, R
<1> QED
  BY <1>1, <1>2, <1>3, PTL DEF Spec
=============================================================================
