------------------------------ MODULE AttrDrv ------------------------------
(***************************************************************************)
(* Any one LED of the device that lecture8/attr_drv.c drives: its sysfs    *)
(* attributes, its timer, which re-arms itself, the file in /dev, loading, *)
(* probe, which can fail at this gpio or at another one, and remove.       *)
(*                                                                         *)
(* A store to an attribute runs in the process that writes the file; two   *)
(* processes that opened the file each are not kept apart.  The timer runs *)
(* in softirq context, on the one processor: its function is one step.     *)
(* Removing the node waits for the stores that are under way.              *)
(***************************************************************************)
EXTENDS Integers

CONSTANTS
    Procs,          \* processes that write the attributes
    Secs,           \* numbers that are stored as delays
    Word,           \* u32 arithmetic is modulo this (2^32)
    HZ              \* ticks per second of the kernel

ASSUME SecsAssumption == Secs \subseteq Nat
ASSUME WordAssumption == Word \in Nat \ {0} /\ HZ \in Nat \ {0}

VARIABLES
    first,          \* this is the first gpio of the device tree node
    stage,          \* "unloaded", "unbound", through probe: "probing", "made",
                    \* "bound", through remove: "timerless", "draining"
    node,           \* the LED has its nodes in /sys and /dev
    requested,      \* the driver holds the gpio ...
    foreign,        \* ... or another driver does
    held,           \* somebody has the file in /dev open
    pc,             \* pc[p]: where p is in delay_store
    timer_flag,     \* the timer was added
    state,          \* 1: toggle the LED
    timeout,        \* timeout_in_sec, 0 when never stored
    expires,        \* the delay in the expires field, in ticks
    pending,        \* the timer is queued ...
    wheel,          \* ... for this delay
    level,          \* the gpio
    trap,           \* what went wrong in the kernel: nothing is modelled after
    raced,          \* history: a delay_store was under way after del_timer
    failed,         \* history: a probe failed and left the LED its nodes
    overlap         \* history: two delay_stores were under way at once

device == <<first, stage, node, requested, foreign, held>>
attrs == <<timer_flag, state, timeout>>
timer == <<expires, pending, wheel>>
history == <<raced, failed, overlap>>
vars == <<device, pc, attrs, timer, level, trap, history>>

InStore == {p \in Procs : pc[p] # "idle"}
Runs == trap = "none"

Init ==
    /\ first \in BOOLEAN
    /\ stage = "unloaded" /\ node = FALSE
    /\ requested = FALSE /\ foreign = FALSE /\ held = FALSE
    /\ pc = [p \in Procs |-> "idle"]
    /\ timer_flag = 0 /\ state = 0 /\ timeout = 0 /\ expires = 0
    /\ pending = FALSE /\ wheel = 0
    /\ level = 0 /\ trap = "none"
    /\ raced = FALSE /\ failed = FALSE /\ overlap = FALSE

\* timeout_in_sec * 1000 / HZ: an u32 product, and no conversion to ticks, which
\* would be * HZ.  delay_show prints the same number.
Ticks(s) == ((s * 1000) % Word) \div HZ

\* add_timer: BUG_ON(timer_pending(timer)).
AddTimer ==
    /\ trap' = IF pending THEN "added twice" ELSE trap
    /\ pending' = TRUE
    /\ wheel' = expires'

-----------------------------------------------------------------------------
(* Loading, and rhino_button_probe for an output.                           *)

\* gpio_init, from zeroed statics.
Load ==
    /\ Runs /\ stage = "unloaded"
    /\ stage' = "unbound"
    /\ timer_flag' = 0 /\ state' = 0 /\ timeout' = 0 /\ expires' = 0
    /\ UNCHANGED <<first, node, requested, foreign, held, pc, pending, wheel, level,
                   trap, history>>

\* gpio_exit, for a device that is not bound; one that is gets removed first.  A
\* timer that is queued, or a node that is left, is then without its code.
Unload ==
    /\ Runs /\ stage = "unbound" /\ ~held
    /\ stage' = "unloaded"
    /\ trap' = IF pending \/ node THEN "code is gone" ELSE trap
    /\ UNCHANGED <<first, node, requested, foreign, held, pc, attrs, timer, level, history>>

\* The loop over the table: the fields, and init_timer, which must not meet a
\* queued timer.  timeout_in_sec keeps what an earlier binding stored.
ProbeTable ==
    /\ Runs /\ stage = "unbound"
    /\ stage' = "probing"
    /\ timer_flag' = 0 /\ state' = 0
    /\ trap' = IF pending THEN "initialised queued" ELSE trap
    /\ raced' = (raced /\ pending)
    /\ overlap' = (overlap /\ InStore # {})
    /\ UNCHANGED <<first, node, requested, foreign, held, pc, timeout, timer, level, failed>>

\* gpio_request, gpio_direction_output, the level of its bit in rhino_custom, and
\* device_create, which keeps a node that is there.
ProbeLed ==
    /\ Runs /\ stage = "probing" /\ ~requested /\ ~foreign
    /\ stage' = "made"
    /\ requested' = TRUE /\ node' = TRUE
    /\ level' \in {0, 1}
    /\ UNCHANGED <<first, foreign, held, pc, attrs, timer, trap, history>>

\* This gpio is refused, or cannot be an output: the ladder frees it, whoever
\* holds it, unless it is the first; or an earlier gpio fails and the ladder
\* does not get here.
ProbeStops ==
    /\ Runs /\ stage = "probing"
    /\ stage' = "unbound"
    /\ \/ ~first /\ requested' = FALSE /\ foreign' = FALSE
       \/ first /\ ~foreign /\ requested' = TRUE /\ UNCHANGED foreign
       \/ UNCHANGED <<requested, foreign>>
    /\ UNCHANGED <<first, node, held, pc, attrs, timer, level, trap, history>>

\* A later gpio fails: the ladder frees this one, unless it is the first, and
\* leaves the nodes.
ProbeFails ==
    /\ Runs /\ stage = "made"
    /\ stage' = "unbound"
    /\ requested' = first
    /\ failed' = TRUE
    /\ UNCHANGED <<first, node, foreign, held, pc, attrs, timer, level, trap, raced, overlap>>

ProbeEnd ==
    /\ Runs /\ stage = "made"
    /\ stage' = "bound"
    /\ failed' = FALSE
    /\ UNCHANGED <<first, node, requested, foreign, held, pc, attrs, timer, level, trap,
                   raced, overlap>>

-----------------------------------------------------------------------------
(* rhino_button_remove: del_timer, ...                                      *)

\* Mutant: the timer is left alone.
RemoveTimerLeft ==
    /\ Runs /\ stage = "bound"
    /\ stage' = "timerless"
    /\ raced' = (InStore # {})
    /\ UNCHANGED <<first, node, requested, foreign, held, pc, attrs, timer, level, trap,
                   failed, overlap>>

RemoveTimer ==
    /\ Runs /\ stage = "bound"
    /\ stage' = "timerless"
    /\ pending' = FALSE
    /\ raced' = (InStore # {})
    /\ UNCHANGED <<first, node, requested, foreign, held, pc, attrs, expires, wheel, level,
                   trap, failed, overlap>>

\* Mutant: the node stays.
RemoveNodeLeft ==
    /\ Runs /\ stage = "timerless"
    /\ stage' = "draining"
    /\ UNCHANGED <<first, node, requested, foreign, held, pc, attrs, timer, level, trap, history>>

\* ... device_destroy, which lets nobody in any more, waits, ...
RemoveNode ==
    /\ Runs /\ stage = "timerless"
    /\ stage' = "draining" /\ node' = FALSE
    /\ UNCHANGED <<first, requested, foreign, held, pc, attrs, timer, level, trap, history>>

\* ... and gpio_free.
RemoveGpio ==
    /\ Runs /\ stage = "draining" /\ InStore = {}
    /\ stage' = "unbound" /\ requested' = FALSE
    /\ UNCHANGED <<first, node, foreign, held, pc, attrs, timer, level, trap, history>>

\* Another driver requests the gpio when it is free, and frees it.
Foreign ==
    /\ Runs /\ ~requested
    /\ foreign' = ~foreign
    /\ UNCHANGED <<first, stage, node, requested, held, pc, attrs, timer, level, trap, history>>

-----------------------------------------------------------------------------
(* The file in /dev: it survives its node.                                  *)

FileOpen ==
    /\ Runs /\ node /\ stage # "unloaded"
    /\ held' = TRUE
    /\ UNCHANGED <<first, stage, node, requested, foreign, pc, attrs, timer, level, trap, history>>

FileClose ==
    /\ Runs /\ held
    /\ held' = FALSE
    /\ UNCHANGED <<first, stage, node, requested, foreign, pc, attrs, timer, level, trap, history>>

\* gpio_write: the number of the gpio is still in the table.
FileWrite ==
    /\ Runs /\ held
    /\ level' \in {0, 1}
    /\ UNCHANGED <<device, pc, attrs, timer, trap, history>>

-----------------------------------------------------------------------------
(* The stores.  One that cannot parse its input changes nothing.            *)

HasNode == Runs /\ node

StateStore ==
    /\ HasNode
    /\ level' \in {0, 1}
    /\ UNCHANGED <<device, pc, attrs, timer, trap, history>>

ToggleStore ==
    /\ HasNode
    /\ state' \in {0, 1}
    /\ UNCHANGED <<device, pc, timer_flag, timeout, timer, level, trap, history>>

Move(p, from, to) ==
    /\ pc[p] = from /\ Runs
    /\ pc' = [pc EXCEPT ![p] = to]

\* rhino_led_delay_store: kstrtou32 into timeout_in_sec, ...
DelayCall(p) ==
    /\ HasNode
    /\ Move(p, "idle", "expires")
    /\ timeout' \in Secs
    /\ raced' = (raced \/ stage = "timerless")
    /\ overlap' = (overlap \/ InStore # {})
    /\ UNCHANGED <<device, timer_flag, state, timer, level, trap, failed>>

\* Mutant: the field is left to timer_funct.
DelayExpiresLeft(p) ==
    /\ Move(p, "expires", "test")
    /\ UNCHANGED <<device, attrs, timer, level, trap, history>>

\* ... the expires field, also of a timer that is queued, ...
DelayExpires(p) ==
    /\ Move(p, "expires", "test")
    /\ expires' = Ticks(timeout)
    /\ UNCHANGED <<device, attrs, pending, wheel, level, trap, history>>

\* Mutant: no test.
DelayTestBlind(p) ==
    /\ Move(p, "test", "add")
    /\ UNCHANGED <<device, attrs, timer, level, trap, history>>

\* ... the test of timer_flag, ...
DelayTest(p) ==
    /\ Move(p, "test", IF timer_flag = 0 THEN "add" ELSE "flag")
    /\ UNCHANGED <<device, attrs, timer, level, trap, history>>

\* ... add_timer ...
DelayAdd(p) ==
    /\ Move(p, "add", "flag")
    /\ expires' = expires
    /\ AddTimer
    /\ UNCHANGED <<device, attrs, level, history>>

\* ... and the flag.
DelayFlag(p) ==
    /\ Move(p, "flag", "idle")
    /\ timer_flag' = 1
    /\ UNCHANGED <<device, state, timeout, timer, level, trap, history>>

-----------------------------------------------------------------------------
\* The timer is taken off the queue, queued again for a delay, or not, and the
\* LED is set.
GoesOff(delay, again, led) ==
    /\ pending /\ Runs
    /\ expires' = delay
    /\ pending' = again
    /\ wheel' = expires'
    /\ level' = led
    /\ UNCHANGED <<device, pc, attrs, trap, history>>

Toggled == IF state = 1 THEN 1 - level ELSE level

\* Mutants of timer_funct: only a LED that toggles is armed again; the delay is
\* added to the field; the timer goes on by its old delay; the LED is lit.
timer_funct_lazy == GoesOff(Ticks(timeout), state = 1, Toggled)
timer_funct_sums == GoesOff(expires + Ticks(timeout), TRUE, Toggled)
timer_funct_period == GoesOff(wheel, TRUE, Toggled)
timer_funct_lit == GoesOff(Ticks(timeout), TRUE, IF state = 1 THEN 1 ELSE level)

\* timer_funct: it queues itself again, by timeout_in_sec, and toggles the LED.
timer_funct == GoesOff(Ticks(timeout), TRUE, Toggled)

DelayStore(p) ==
    DelayExpires(p) \/ DelayTest(p) \/ DelayAdd(p) \/ DelayFlag(p)

Next ==
    \/ Load \/ Unload
    \/ ProbeTable \/ ProbeLed \/ ProbeStops \/ ProbeFails \/ ProbeEnd
    \/ RemoveTimer \/ RemoveNode \/ RemoveGpio
    \/ Foreign
    \/ FileOpen \/ FileClose \/ FileWrite
    \/ StateStore \/ ToggleStore
    \/ \E p \in Procs : DelayCall(p) \/ DelayStore(p)
    \/ timer_funct

Spec == Init /\ [][Next]_vars

\* The clock ticks, and a store or a remove that was called is run.  Nobody has
\* to call one.
FairSpec ==
    /\ Spec
    /\ WF_vars(timer_funct)
    /\ WF_vars(RemoveNode \/ RemoveGpio)
    /\ \A p \in Procs : WF_vars(DelayStore(p))

-----------------------------------------------------------------------------
Delays == {Ticks(s) : s \in Secs \cup {0}}

BooleansOK ==
    /\ first \in BOOLEAN /\ node \in BOOLEAN /\ requested \in BOOLEAN
    /\ foreign \in BOOLEAN /\ held \in BOOLEAN
    /\ pending \in BOOLEAN
    /\ raced \in BOOLEAN /\ failed \in BOOLEAN /\ overlap \in BOOLEAN

RangesOK ==
    /\ stage \in {"unloaded", "unbound", "probing", "made", "bound", "timerless",
                  "draining"}
    /\ pc \in [Procs -> {"idle", "expires", "test", "add", "flag"}]
    /\ timer_flag \in {0, 1} /\ state \in {0, 1} /\ level \in {0, 1}
    /\ timeout \in Secs \cup {0}
    /\ expires \in Delays /\ wheel \in Delays
    /\ trap \in {"none", "added twice", "initialised queued", "code is gone"}

TypeOK == BooleansOK /\ RangesOK

\* add_timer (line 111) never finds the timer queued, unless two delay_stores
\* were under way at once: the flag that is set after it is enough, however the
\* timer fires in between.  Two stores at once can stop the kernel.
NeverAddedTwice == trap = "added twice" => overlap

\* The timer that was armed stays armed while the LED has its nodes: timer_funct
\* re-arms it whatever the attributes say (386), and a delay_store never leaves
\* timer_flag set and the timer unqueued.  A failed probe keeps it armed, too.
ArmedStays == timer_flag = 1 /\ node /\ stage # "timerless" => pending

\* The timer is queued without the gpio, or when its memory is used again (186,
\* or after the module is gone), only if a delay_store was under way when, or
\* called after, del_timer ran (254, before 255), or a probe failed (242) and
\* left the nodes.
DeadUnlessRaced ==
    \/ (~requested \/ stage = "unbound") /\ pending
    \/ trap \in {"initialised queued", "code is gone"}
    => raced \/ failed

\* A queued timer always goes by a delay that somebody stored.
DelayStored == pending => timeout \in Secs /\ wheel \in {Ticks(s) : s \in Secs}

\* While another driver holds the gpio nothing of this one drives it, unless a
\* store raced with remove, a failed probe left its nodes, or the file in /dev is
\* still open (it keeps the number of the gpio, 300).
PinUndisturbed ==
    [][foreign /\ foreign' /\ level' # level => raced \/ failed \/ held]_vars

\* A new delay takes effect after the current period, without being re-armed
\* (103 writes the field of a queued timer, 384 reads timeout_in_sec again).
NewDelayHolds ==
    \A v \in Secs :
        (pending /\ timeout = v) ~> (wheel = Ticks(v) \/ timeout # v \/ ~pending \/ ~Runs)

\* A LED that toggles does: it never gets stuck at a level while its timer is
\* armed.
KeepsToggling ==
    \A l \in {0, 1} :
        (pending /\ state = 1 /\ level = l) ~> (level # l \/ state = 0 \/ ~pending \/ ~Runs)

\* remove comes to its end though stores keep coming: those that device_destroy
\* (255) waits for end, and none gets in behind it.
RemoveEnds == stage = "timerless" ~> (stage = "unbound" \/ ~Runs)
=============================================================================
