------------------------------- MODULE IsrCnt -------------------------------
(***************************************************************************)
(* The button driver of lecture5/isrcnt/isr_cnt.c: an interrupt handler    *)
(* counts rising edges and sets flag; gpio_read sleeps until flag is set,  *)
(* clears it, counts itself and reports both counters and both sampled     *)
(* levels; gpio_open resets everything.                                    *)
(*                                                                         *)
(* The modules shipped with the code were built for a uniprocessor ARMv6   *)
(* kernel with full preemption.  So the interrupt handler is one step, and *)
(* a thread may be interrupted or preempted at each of its accesses to the *)
(* shared variables: every access is a step of its own.                    *)
(***************************************************************************)
EXTENDS Integers, FiniteSets

CONSTANTS
    Threads,        \* processes that open and read /dev/button
    Levels,         \* levels the pin can be sampled at
    M,              \* counters are unsigned: they count modulo M (2^32)
    ClearPoint,     \* volatile stores of gpio_open that precede flag = 0
    MaxIsr,         \* bound: interrupts
    MaxSig          \* bound: signals sent to the readers

ASSUME ThreadsAssumption == IsFiniteSet(Threads)
ASSUME LevelsAssumption == Levels \subseteq {0, 1}
ASSUME MAssumption == M \in Nat /\ M > 1
\* flag is the one plain variable among the stores of gpio_open, so the
\* compiler may move its store: 4 is the order of the source text, 1 the order
\* in the shipped isr_cnt.ko.
ASSUME ClearPointAssumption == ClearPoint \in 0..4
ASSUME BoundsAssumption == MaxIsr \in Nat /\ MaxSig \in Nat

VARIABLES
    life,           \* "unloaded", "cdev" (open works, no irq yet), "live"
    flag,           \* an interrupt arrived and no read took it yet
    isr_but_val, read_but_val, cnt_isr, cnt_read,
    wq,             \* threads on the wait queue
    pc,             \* pc[t]: where t is
    at,             \* at[t]: stores of gpio_open that t has done
    sig,            \* sig[t]: a signal is pending for t
    reg,            \* reg[t]: the register of cnt_read++
    todo,           \* todo[t]: fields of the line not loaded yet
    line,           \* line[t]: the line being put together for the caller
    nSig,           \* history: signals sent
    nIsr,           \* history: interrupts
    nPass,          \* history: nPass[t] waits of t that flag ended
    unseen          \* history: an interrupt after the last load of cnt_isr

shared == <<isr_but_val, read_but_val, cnt_isr, cnt_read>>
locals == <<at, reg, todo, line>>
history == <<nSig, nIsr, nPass, unseen>>
vars == <<life, flag, shared, wq, pc, locals, sig, history>>

Vals == {-1, 0, 1}                     \* -1: no sample since gpio_open
Fields == {"cnt_isr", "cnt_read", "isr_but_val", "read_but_val"}
Blank == [f \in Fields |-> 0]

\* Places inside gpio_read, in the order of the code.
WaitPcs == {"check", "prepare", "recheck", "lastcheck", "asleep"}
ReadPcs == WaitPcs \cup {"clear", "sample", "incload", "incstore", "load", "copy"}
Pcs == {"closed", "opening", "user"} \cup ReadPcs

\* The value of a variable as the arguments of sprintf load it.
Cell(f) == CASE f = "cnt_isr"     -> cnt_isr
             [] f = "cnt_read"    -> cnt_read
             [] f = "isr_but_val" -> isr_but_val
             [] OTHER             -> read_but_val

Goto(t, where) == pc' = [pc EXCEPT ![t] = where]

Init ==
    /\ life = "unloaded"
    /\ flag = 0
    /\ isr_but_val = 0 /\ read_but_val = 0 /\ cnt_isr = 0 /\ cnt_read = 0
    /\ wq = {}
    /\ pc = [t \in Threads |-> "closed"]
    /\ at = [t \in Threads |-> 0]
    /\ sig = [t \in Threads |-> FALSE]
    /\ reg = [t \in Threads |-> 0]
    /\ todo = [t \in Threads |-> {}]
    /\ line = [t \in Threads |-> Blank]
    /\ nSig = 0 /\ nIsr = 0 /\ unseen = FALSE
    /\ nPass = [t \in Threads |-> 0]

-----------------------------------------------------------------------------
(* Loading and unloading.  The module has an owner, so it is only unloaded  *)
(* when nobody has the device open; a new load starts from zeroed statics.  *)

\* gpio_init up to cdev_add: from here on the device can be opened.
LoadCdev ==
    /\ life = "unloaded"
    /\ life' = "cdev"
    /\ flag' = 0
    /\ isr_but_val' = 0 /\ read_but_val' = 0 /\ cnt_isr' = 0 /\ cnt_read' = 0
    /\ UNCHANGED <<wq, pc, locals, sig, history>>

\* ... and the successful request_irq.
LoadIrq ==
    /\ life = "cdev"
    /\ life' = "live"
    /\ UNCHANGED <<flag, shared, wq, pc, locals, sig, history>>

\* gpio_exit.
Unload ==
    /\ life = "live"
    /\ \A t \in Threads : pc[t] = "closed"
    /\ life' = "unloaded"
    /\ unseen' = FALSE
    /\ UNCHANGED <<flag, shared, wq, pc, locals, sig, nSig, nIsr, nPass>>

-----------------------------------------------------------------------------
(* The interrupt handler.                                                   *)

\* An unsigned counter wraps.  Mutant: it is as wide as it needs.
BumpWide(c) == c + 1
Bump(c) == (c + 1) % M

\* Who is on the queue after wake_up_interruptible: the waiters are not
\* exclusive, all are woken and each takes itself off.  Mutant: no wake-up.
NoneWoken(q) == q
Woken(q) == {}

but_ISR ==
    /\ life = "live" /\ nIsr < MaxIsr
    /\ isr_but_val' \in Levels
    /\ cnt_isr' = Bump(cnt_isr)
    /\ flag' = 1
    /\ wq' = Woken(wq)
    /\ nIsr' = nIsr + 1
    /\ unseen' = TRUE
    /\ UNCHANGED <<life, read_but_val, cnt_read, pc, locals, sig, nSig, nPass>>

-----------------------------------------------------------------------------
(* gpio_open: four volatile stores in program order and flag = 0 after      *)
(* ClearPoint of them.  There is no check that nobody else has it open.     *)

OpenCall(t) ==
    /\ life \in {"cdev", "live"}
    /\ pc[t] = "closed"
    /\ Goto(t, "opening")
    /\ at' = [at EXCEPT ![t] = 0]
    /\ UNCHANGED <<life, flag, shared, wq, reg, todo, line, sig, history>>

\* One store done; the fifth one ends the call.
StoreDone(t) ==
    /\ at' = [at EXCEPT ![t] = @ + 1]
    /\ Goto(t, IF at[t] = 4 THEN "user" ELSE "opening")

\* The place of the v-th volatile store among the five.
Place(v) == IF v <= ClearPoint THEN v - 1 ELSE v

OpenStore(t) ==
    /\ pc[t] = "opening"
    /\ at[t] # ClearPoint
    /\ isr_but_val'  = IF at[t] = Place(1) THEN -1 ELSE isr_but_val
    /\ read_but_val' = IF at[t] = Place(2) THEN -1 ELSE read_but_val
    /\ cnt_isr'      = IF at[t] = Place(3) THEN M - 1 ELSE cnt_isr
    /\ cnt_read'     = IF at[t] = Place(4) THEN M - 1 ELSE cnt_read
    /\ StoreDone(t)
    /\ UNCHANGED <<life, flag, wq, reg, todo, line, sig, history>>

OpenClear(t) ==
    /\ pc[t] = "opening"
    /\ at[t] = ClearPoint
    /\ flag' = 0
    /\ unseen' = FALSE                   \* dropped on purpose
    /\ StoreDone(t)
    /\ UNCHANGED <<life, shared, wq, reg, todo, line, sig, nSig, nIsr, nPass>>

\* gpio_release changes nothing.
Close(t) ==
    /\ pc[t] = "user"
    /\ Goto(t, "closed")
    /\ UNCHANGED <<life, flag, shared, wq, locals, sig, history>>

-----------------------------------------------------------------------------
(* gpio_read: wait_event_interruptible(wq, flag == 1), as the kernel        *)
(* expands it, ...                                                          *)

ReadCall(t) ==
    /\ pc[t] = "user"
    /\ Goto(t, "check")
    /\ UNCHANGED <<life, flag, shared, wq, locals, sig, history>>

\* flag ended the wait.
Pass(t) ==
    /\ flag = 1
    /\ Goto(t, "clear")
    /\ wq' = wq \ {t}
    /\ nPass' = [nPass EXCEPT ![t] = @ + 1]
    /\ UNCHANGED <<life, flag, shared, locals, sig, nSig, nIsr, unseen>>

\* The test before anything is queued.
Check(t) ==
    /\ pc[t] = "check"
    /\ \/ Pass(t)
       \/ /\ flag = 0
          /\ Goto(t, "prepare")
          /\ UNCHANGED <<life, flag, shared, wq, locals, sig, history>>

\* prepare_to_wait_event: queued, unless a signal is pending already.
Prepare(t) ==
    /\ pc[t] = "prepare"
    /\ \/ ~sig[t] /\ wq' = wq \cup {t} /\ Goto(t, "recheck")
       \/ sig[t] /\ wq' = wq \ {t} /\ Goto(t, "lastcheck")
    /\ UNCHANGED <<life, flag, shared, locals, sig, history>>

\* Mutant of Recheck: once queued, sleep on what Check saw.
SleepAtOnce(t) ==
    /\ pc[t] \in {"recheck", "lastcheck"}
    /\ Goto(t, IF pc[t] = "recheck" THEN "asleep" ELSE "clear")
    /\ UNCHANGED <<life, flag, shared, wq, locals, sig, history>>

\* The test after queueing, then sleep or, after a signal, give up.  gpio_read
\* ignores the result of the wait: it goes on as if a button had been pressed.
Recheck(t) ==
    /\ pc[t] \in {"recheck", "lastcheck"}
    /\ \/ Pass(t)
       \/ /\ flag = 0
          /\ Goto(t, IF pc[t] = "recheck" THEN "asleep" ELSE "clear")
          /\ UNCHANGED <<life, flag, shared, wq, locals, sig, history>>

Wakeup(t) ==
    /\ pc[t] = "asleep"
    /\ t \notin wq \/ sig[t]
    /\ Goto(t, "prepare")
    /\ UNCHANGED <<life, flag, shared, wq, locals, sig, history>>

(* ... then flag = 0, the sample, cnt_read++, the four loads for sprintf    *)
(* (C leaves their order open) and the copy to the caller.                  *)

\* Mutant of ClearFlag: the line is dropped.
KeepFlag(t) ==
    /\ pc[t] = "clear"
    /\ Goto(t, "sample")
    /\ UNCHANGED <<life, flag, shared, wq, locals, sig, history>>

ClearFlag(t) ==
    /\ pc[t] = "clear"
    /\ flag' = 0
    /\ Goto(t, "sample")
    /\ UNCHANGED <<life, shared, wq, locals, sig, history>>

ReadValue(t) ==
    /\ pc[t] = "sample"
    /\ read_but_val' \in Levels
    /\ Goto(t, "incload")
    /\ UNCHANGED <<life, flag, isr_but_val, cnt_isr, cnt_read, wq, locals, sig, history>>

IncLoad(t) ==
    /\ pc[t] = "incload"
    /\ reg' = [reg EXCEPT ![t] = cnt_read]
    /\ Goto(t, "incstore")
    /\ UNCHANGED <<life, flag, shared, wq, at, todo, line, sig, history>>

IncStore(t) ==
    /\ pc[t] = "incstore"
    /\ cnt_read' = Bump(reg[t])
    /\ reg' = [reg EXCEPT ![t] = 0]
    /\ todo' = [todo EXCEPT ![t] = Fields]
    /\ Goto(t, "load")
    /\ UNCHANGED <<life, flag, isr_but_val, read_but_val, cnt_isr, wq, at, line, sig, history>>

Load(t) ==
    /\ pc[t] = "load"
    /\ \E f \in todo[t] :
          /\ line' = [line EXCEPT ![t][f] = Cell(f)]
          /\ todo' = [todo EXCEPT ![t] = @ \ {f}]
          /\ Goto(t, IF todo[t] = {f} THEN "copy" ELSE "load")
          /\ unseen' = (unseen /\ f # "cnt_isr")
    /\ UNCHANGED <<life, flag, shared, wq, at, reg, sig, nSig, nIsr, nPass>>

\* Mutant of Return: flag is cleared at the end of the read only.
ReturnClear(t) ==
    /\ pc[t] = "copy"
    /\ flag' = 0
    /\ line' = [line EXCEPT ![t] = Blank]
    /\ sig' = [sig EXCEPT ![t] = FALSE]
    /\ Goto(t, "user")
    /\ UNCHANGED <<life, shared, wq, at, reg, todo, history>>

\* copy_to_user and the return; a pending signal is handled on the way out.
Return(t) ==
    /\ pc[t] = "copy"
    /\ line' = [line EXCEPT ![t] = Blank]
    /\ sig' = [sig EXCEPT ![t] = FALSE]
    /\ Goto(t, "user")
    /\ UNCHANGED <<life, flag, shared, wq, at, reg, todo, history>>

\* Somebody sends t a signal while it is inside gpio_read.
Signal(t) ==
    /\ pc[t] \in ReadPcs
    /\ ~sig[t] /\ nSig < MaxSig
    /\ sig' = [sig EXCEPT ![t] = TRUE]
    /\ nSig' = nSig + 1
    /\ UNCHANGED <<life, flag, shared, wq, pc, locals, nIsr, nPass, unseen>>

-----------------------------------------------------------------------------
\* What the kernel runs once a system call has been made, ...
Step(t) ==
    \/ OpenStore(t) \/ OpenClear(t)
    \/ Check(t) \/ Prepare(t) \/ Recheck(t) \/ Wakeup(t)
    \/ ClearFlag(t) \/ ReadValue(t) \/ IncLoad(t) \/ IncStore(t) \/ Load(t) \/ Return(t)

\* ... and what the user of the device decides.
User(t) == OpenCall(t) \/ ReadCall(t) \/ Close(t) \/ Signal(t)

Next ==
    \/ LoadCdev \/ LoadIrq \/ Unload
    \/ but_ISR
    \/ \E t \in Threads : Step(t) \/ User(t)

Spec == Init /\ [][Next]_vars

\* The scheduler runs every thread that can run, sooner or later.  Nothing is
\* assumed of the button, of the users or of the module being loaded.
FairSpec == Spec /\ \A t \in Threads : WF_vars(Step(t))

-----------------------------------------------------------------------------
TypeOK ==
    /\ life \in {"unloaded", "cdev", "live"}
    /\ flag \in {0, 1}
    /\ isr_but_val \in Vals /\ read_but_val \in Vals
    /\ cnt_isr \in 0..(M-1) /\ cnt_read \in 0..(M-1)
    /\ wq \subseteq Threads
    /\ pc \in [Threads -> Pcs]
    /\ at \in [Threads -> 0..5]
    /\ sig \in [Threads -> BOOLEAN]
    /\ reg \in [Threads -> 0..(M-1)]
    /\ todo \in [Threads -> SUBSET Fields]
    /\ line \in [Threads -> [Fields -> (-1)..(M-1)]]
    /\ nSig \in 0..MaxSig
    /\ nIsr \in 0..MaxIsr
    /\ nPass \in [Threads -> Nat]
    /\ unseen \in BOOLEAN

(* Safety.                                                                  *)

\* No wake-up is lost (lines 85-92 against 96): a reader that sleeps on the
\* queue has nothing to take.  The test and the sleep are two steps, and the
\* interrupt can come between them.
NoLostWakeup ==
    \A t \in Threads : pc[t] = "asleep" /\ t \in wq => flag = 0

\* t has taken flag but not yet loaded cnt_isr for its line.
Reporting(t) ==
    \/ pc[t] \in {"clear", "sample", "incload", "incstore"}
    \/ pc[t] = "load" /\ "cnt_isr" \in todo[t]

\* No interrupt goes unreported (line 97 comes before 101): one that no line
\* counts yet has flag set, for the next read, or is met by a read under way.
NothingUnreported ==
    unseen => flag = 1 \/ \E t \in Threads : Reporting(t)

\* A process is let through at most once per interrupt (lines 96, 97), however
\* the readers, the openers and the handler interleave.
PassesBacked == \A t \in Threads : nPass[t] <= nIsr

\* What a counter counted since gpio_open set it to -1.
Ups(c) == (c + 1) % M

\* The difference isrtest.c:63 adds up for a line: interrupts minus reads.
Missed(l) == Ups(l["cnt_isr"]) - Ups(l["cnt_read"])

\* How many reads a line may be ahead of the interrupts: in a build that clears
\* flag before cnt_isr is reset, an interrupt in between wakes the reader but is
\* not counted.
Ahead == IF ClearPoint < 3 THEN 1 ELSE 0

\* With one reader, no signal and counters that do not wrap: a line never counts
\* more reads than interrupts, but for that one, and never shows the placeholder
\* of gpio_open (114) as the level of an interrupt.
LineBacked ==
    \A t \in Threads : pc[t] = "copy" /\ nSig = 0 =>
        /\ Missed(line[t]) >= -Ahead
        /\ ClearPoint > 0 => line[t]["isr_but_val"] \in Levels

-----------------------------------------------------------------------------
(* Liveness, under FairSpec.                                                *)

Waiting(t) == pc[t] \in WaitPcs

\* An interrupt nobody reported yet is reported, if there is a reader that
\* waits for it (or dropped, by an open): whoever wins the race for flag.
EventuallyReported ==
    unseen /\ (\E t \in Threads : Waiting(t)) ~> ~unseen

\* A lone reader is always let through once flag is set.
EventuallyServed ==
    \A t \in Threads : (flag = 1 /\ Waiting(t)) ~> pc[t] = "copy"

-----------------------------------------------------------------------------
(* Refinement.                                                              *)

Phase(t) ==
    CASE pc[t] \in {"closed", "opening", "user"} -> "idle"
      [] pc[t] \in WaitPcs                       -> "waiting"
      [] Reporting(t)                            -> "serving"
      [] OTHER                                   -> "reported"

Latch == INSTANCE EventLatch WITH
            events <- nIsr,
            uncovered <- unseen,
            served <- nPass,
            phase <- [t \in Threads |-> Phase(t)]

\* The driver keeps the promise of EventLatch (the whole of gpio_read,
\* gpio_open and but_ISR, lines 85-124).
ImplementsLatch == Latch!ASpec
=============================================================================
