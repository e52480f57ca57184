# A TLA+ model of the drivers in gitRepoHAL

The repository holds the exercises of a course on hardware abstraction: Linux
drivers for a Raspberry Pi Zero (buttons, LEDs, an interrupt counter, a platform
driver, an SPI driver for a DAC and an ADC, a driver with sysfs attributes and
timers) and small programs that use them. This directory models the parts that
keep state and run concurrently, checks them with TLC, and proves the core of
them with TLAPS.

The shipped kernel modules carry the version string `4.14.84 preempt
mod_unload modversions ARMv6`. So the kernel the code was built for has **one
processor and full preemption**: an interrupt handler or a timer function is
never interrupted by a process, and a process can be interrupted between any two
instructions. Every module here is written for that machine.

## 1. The system

| Component | Source | State | Operations | Modelled in |
|---|---|---|---|---|
| Interrupt counting button driver | `lecture5/isrcnt/isr_cnt.c` | `flag`, four counters and samples, a wait queue | interrupt, open, read, release, load, unload | `IsrCnt` |
| Init, error and exit paths | `but_gpio_driver.c`, `isr_cnt.c`, `but_isr.c`, `led_gpio_driver.c`, `plat_drv.c`, `attr_drv.c`, `spi_drv.c` | gpios, fixed and dynamic device numbers, names, classes, character devices | init, its ladder of error labels, exit, probe, remove | `Ladders`, `Board` |
| SPI driver, binding | `lecture7/spi_drv.c` | `spi_devs`, `spi_devs_cnt`, the nodes in /dev | probe, remove, init, exit, open, release | `SpiReg` |
| SPI driver, data | `lecture7/spi_drv.c` | `spi_devs[].value`, `result`, the LDAC line, the chips | write, read | `SpiData` |
| Attribute driver | `lecture8/attr_drv.c` | a `button_dev`, a timer and two nodes per LED | load, probe, stores of state, toggle and delay, timer, the file in /dev, remove, unload | `AttrDrv` |
| Platform driver, file operations | `plat_drv.c` | the gpio number of a minor | open, write, release; read | as in `attr_drv.c`: `AttrDrv` |
| LED and button drivers, file operations | `led_gpio_driver.c`, `but_gpio_driver.c` | none beyond the gpio | write; read | `Userland` (write) |
| Simple interrupt driver | `lecture5/simpleisr/` | `flag`, `but_val` | as the counting driver, without the reset | `Board` (init, exit) |
| Test program of the counting driver | `lecture5/isrcnt/isrtest.c` | a table of samples | open, read lines, split, insert, sum up | `IsrTest` |
| Register access | `lecture9/mm.c` | gpio registers | set_output, set and clear a bit | `Userland` |
| Userland loops at gpio 20 | `lecture2/led.c`, `lm75.c`, `web.c` | descriptors, a buffer, sysfs, a page | set up, open, read or write, close, try again | `Userland` |
| Button readers | `lecture2/butread.c`, `lecture4/but_driver/butread.c` | a descriptor | open, read, close | - |
| Text formatter | `lecture3/text_formatter_modified/` | an open file | preamble to postamble | - |
| Hello programs, build files | `lecture1`, `lecture3/km_hello.c`, Makefiles, `.cmd` files | none | - | - |

How they interact:

- The **kernel** calls the drivers: the handler of an interrupt, timer functions,
  probe and remove of a bus, file operations on behalf of processes. Only the
  calls of one bus about the children of one device exclude each other; nothing
  else is serialised, and no driver takes a lock.
- **Processes** share a driver's statics. `isr_cnt.c` lets any number of them
  open the button, and each open resets everything for all. `spi_drv.c` keeps one
  `value` per minor and one `result` for all readers. `attr_drv.c` keeps one
  `button_dev` per LED for all writers of its attributes.
- **Drivers** meet at resources: the button driver and the two interrupt drivers
  claim device number 12:0; the button driver, the simple interrupt driver, the platform
  driver and the attribute driver claim gpio 12; the LED driver and the last two claim
  gpio 21. The platform, the attribute and the SPI driver get 255 device numbers at a
  major the kernel chooses; the first two also want the same class and driver name.
- `isrtest.c` reads lines of `isr_cnt.c`; it expects other separators and
  another order of the columns than the driver writes (see 6).
- **Programs** meet at gpio 20: the thermometers and `led.c` write it through sysfs,
  `mm.c` through the registers behind the kernel's back. The register that gives
  pin 20 its function has that of pin 21 too, which is the LED driver's.

What is hard, and what makes each part correct:

- *Interrupt to reader.* The interrupt can come between the test of `flag` and
  the sleep, between clearing `flag` and loading the counters, or inside an open.
  Correct means: no wake-up is lost, no interrupt goes unreported, nobody is let
  through for nothing, a waiting reader gets its line.
- *Failing half way.* An init has up to five points of failure, a probe three for
  each gpio, each with its own list of releases, some with none, some not looked at,
  one with an error that is not returned. Correct means: what failed leaves nothing
  behind, takes nothing from others, and can be tried again.
- *Bind and unbind.* Files survive unbinding, minors and table entries are given
  out by a counter, and a node can be opened before probe has filled its entry.
  Correct means: a file keeps reaching the chip it was opened for, nodes live as long
  as their chip, the table is big enough.
- *Shared bus.* The LDAC pulse of one write latches the channel of another.
  Correct means: what a write sent is what comes out.
- *Timers that re-arm themselves* against stores that arm them, a probe that fails
  half way and a remove that stops them. Correct means: never queued twice, never
  lost, gone with the device, and nobody else's pin is driven.
- *Loops that never end* over calls that fail. Correct means: the LED and the page
  come right again, no descriptor is lost, and no program disturbs another's pin.

## 2. Modules

- **`EventLatch`** is the abstract specification of a driver that turns interrupts
  into blocking reads: a read is served at most once per event and client, or
  let through by a signal; every event is covered by a later report or dropped
  by an open.
- **`IsrCnt`** is `isr_cnt.c`. `flag`, `isr_but_val`, `read_but_val`, `cnt_isr`,
  `cnt_read` and `wq` are the statics of the driver; `life` says how far
  `gpio_init` got. `pc[t]` walks a process through `gpio_open` (`opening`) and
  `gpio_read`: `check`, `prepare`, `recheck`, `lastcheck`, `asleep` are the wait
  macro of line 96 as the kernel expands it, `clear` is line 97, `sample` line
  98, `incload` and `incstore` line 99, `load` line 101 in any order of the four
  loads, `copy` the rest. `but_ISR` is one step. Counters are modulo `M`.
  `flag` is not volatile and its store in `gpio_open` may be moved among the four
  volatile ones: `ClearPoint` is how many of them come first, 4 in the text, 1
  in the shipped `isr_cnt.ko`.
- **`Ladders`** is the machine behind all init and exit functions: acquire step by
  step (`Acquire`), release what a ladder or exit lists (`Release`). What a failed step
  leads to is `Fault`: the ladder and the error (`Fail`, `Gone`), nothing because the
  result is not looked at (`FailUnseen`), an oops (`Oops`), or the ladder and a return
  of 0 (`LoadedHollow`): such a driver is loaded, `Hollow`, and its exit releases
  everything a second time. A release by number does not look at the owner, as
  `gpio_free`, `cdev_del` and `unregister_chrdev_region` do not; a release through a pointer
  (a class, a registered driver, an irq) reaches only what this load of the driver
  got (`held`). `number` is the device number that `alloc_chrdev_region` chose.
- **`Board`** is the data for it: `XAcq`, `XUndo`, `XExit`, `XFault` are the calls of
  driver X, read off its gotos, labels and unchecked results. Nine tables: seven modules,
  and the probe functions that acquire something, `probe` of `plat_drv.c` and
  `attr_drv.c` and `dac` of `spi_drv.c`. A probe is a driver whose `Parent` is what the
  driver that registered it holds.
- **`SpiReg`**: `devs`, `cnt` and `nodes` follow `spi_drv_probe` and
  `spi_drv_remove`; `file[u]` is the node a process has open. The kernel holds the
  lock of the SPI controller during probe and remove, so they exclude each other, but
  opening a node takes no such lock. So probe (`busy`, `step`) is as many steps as
  it has effects: the room in the table, the LDAC line and its node, for each
  channel the node (291) and the entry (301, 302), the return. `err` is the result of
  line 280, which is returned at the end; `refused` remembers a probe that returned it.
- **`SpiData`**: each access of `spi_drv_write` and `spi_drv_read` to shared state
  is a step: the store of `value`, the copy of the struct, the transfer, the two
  edges of LDAC; the conversion, the store of `result` and its load by
  `snprintf`. The two commands are built and taken apart bit by bit. The chips
  are external: a MCP4802 with input registers that LDAC copies to the
  outputs, a MCP3202 that converts the selected channel.
- **`AttrDrv`** is any one LED of `attr_drv.c`. `stage` walks through load, the three
  parts of probe (the loop over the table, the gpio and the node of this LED, the
  end) and remove (`del_timer`, the removal of the node, which lets nobody in any
  more and waits for stores under way, `gpio_free`). Probe can fail at an earlier
  gpio, at this one or at a later one, and `first` says whether the ladder of
  line 242, which stops before the first gpio, frees it. `delay_store` is five
  steps (the parsed delay, the `expires` field, the test of `timer_flag`,
  `add_timer`, the flag), the timer function one. `wheel` is the delay the timer is
  queued for, which a store to `expires` does not change. `Ticks` is the arithmetic
  of lines 103 and 384, in 32 bits. `held` is a file in /dev that is still open, and
  `foreign` another driver that requests the gpio when it is free. `trap` is a BUG
  or code that is gone: nothing is modelled after it. `raced`, `failed` and
  `overlap` are history: a store was under way at or after `del_timer`, a probe
  failed and left the nodes, two stores were under way at once.
- **`Userland`** has the programs that meet at gpio 20: `Thermo(p)` is the main
  function of `lm75.c` and, with the step `Page`, of `web.c`; `Led` that of `led.c`; `Mm`
  that of `mm.c`, with `FselWord`, `SetBit` and `ClrBit` for `set_output`, `reg_setbit` and
  `reg_clrbit`; `DriverLoad` to `DriverUnload` the LED driver at pin 21. `fsel` and
  `latch` are the function registers and levels of three pins, `mmAt` remembers where
  `mm.c` was when the LED driver was loaded, `exported` and `out` are what sysfs
  thinks of gpio 20, `fds[p]` the files p has open. A system call that can
  fail does so at any time, up to a bound. What a read of a write-only
  register returns is any member of `Junks`. A char has no sign: the shipped `web`
  loads it with `ldrb`.
- **`IsrTest`** is `isrtest.c`, as the one user of `IsrCnt`: `split`, `insert` and
  `treat` are its functions, `Printed` and `Tabled` the columns as the driver prints
  them and as the table names them.
- **`MCIsrCnt`, `MCBoard`, `MCSpiData`, `MCUserland`** hold the instances, and
  **`X_proofs`** the theorems about module X: `IsrCnt_proofs`, `AttrDrv_proofs`,
  `SpiReg_proofs`, `SpiData_proofs`, `Ladders_proofs` with `Board_proofs` on top of
  it, and `Userland_proofs`.

Operators whose comment calls them a mutant are variants of the definition
that follows them. They are used by no specification: with one of them in place of
the original, TLC finds the property it is listed with in `PROJECT.json`
violated.

## 3. Runs

`tlc -config X.cfg M`, with M the module `PROJECT.json` names.

| Run | What it checks | Bounds |
|---|---|---|
| `IsrCnt_race` | `TypeOK`, `NoLostWakeup`, `NothingUnreported`, `PassesBacked`, refinement of `EventLatch` | two processes, three interrupts, one signal, counters modulo 2; 1.5 million states |
| `IsrCnt_line` | `LineBacked`, `EventuallyServed` for a lone reader on the shipped build | three interrupts, two signals, counters that do not wrap |
| `IsrCnt_live` | `EventuallyReported` with two readers | two interrupts |
| `Board_all` | `LeavesNoMore`, `TakesNoMore`, `HasItsOwn` | six boards: the three drivers that want 12:0; `spi` with its DAC, and with another that gets a dynamic number; the two that register `plat_drv`; those that want gpio 12 and 21. Two dynamic numbers, three gpios in the device tree; 366 thousand states |
| `SpiReg_handles` | `HandlesKeepChip`, `NoOrphanNode` | two processes, until the table overflows, which is the third binding; a load only when no node is left |
| `SpiReg_room`, `_nodes` | two statements of comments that do not hold | one process |
| `SpiData_all` | `NothingUnlatched`, `WrittenIsOut`, `ReadCurrent`, `OtherChannelKept` | two processes on one channel and one on the other, three numbers, one failed transfer, three conversions |
| `SpiData_error` | the comment on the returned length, which does not hold | one failed transfer |
| `AttrDrv_led` | `NeverAddedTwice`, `ArmedStays`, `DeadUnlessRaced`, `DelayStored`, `PinUndisturbed`, `NewDelayHolds`, `KeepsToggling`, `RemoveEnds` | two processes, two delays, words of 11 bits |
| `Userland_all` | `NoLeak`, `LedSettles`, `PageSettles`, `Alternates`, `LowersOnlyItsOwn`, `DriverShows` | four pairs of programs, two failed calls, two changes among three temperatures, three results of reading a write-only register |
| `IsrTest_columns` | what the test program says of a line, which does not hold | two lines, three interrupts |

Why the bounds are enough. Two processes and one interrupt more than processes
give each race in `IsrCnt` its participants and a stranger; modulo 2 makes the
counters wrap at once. In `Board` two dynamic numbers are enough for a driver to
be given the one that a hollow `spi` still releases, and of the five gpios of the
overlays the first, one in the middle and the last are taken, which are the two that
others want and one that nobody wants; drivers that share nothing do not influence
each other. Two bounds of `Board` are named in the modules: a driver whose class went
while nodes were in it is not loaded again (`Clean`), and nothing is probed while
`plat_drv.c` has no class to put nodes in (`BoardParent`). In `SpiReg` the states are finite
because nothing is modelled after a write past the table. In `SpiData` three processes give a channel
that is shared and one that is not; of the written numbers 2079 loses something in
the division by 16 and has a bit in each half of the command, -17 is negative
and 32768 has a bit that without the masks would be the channel's. In `AttrDrv` a
second store is the only partner a store can race with besides the timer and
remove; with words of 11 bits one of the two delays wraps. In
`Userland` a pair of programs is what one gpio is contended by; a failed call
can hit the setup and the loop of the same program; the temperatures are the two
sides of the threshold and one below zero. For the safety properties the bounds
are only there to let TLC find a mistake early: the theorems of section 5 state
them without any, `LineBacked` excepted. They matter for the liveness properties.

CHECK_DEADLOCK is FALSE where a bound or a case after which nothing is modelled ends
the behaviour: for `Board` that is the oops of `attr_drv.c`, whose module can
neither be unloaded nor loaded again.

## 4. Fairness

`IsrCnt` assumes that a process which is inside a system call and can run does
run (`WF_vars(Step(t))`): the scheduler of the kernel starves nobody. It assumes nothing
of the button, of signals, of processes that are free to call or not, or of
loading. `AttrDrv` assumes in addition that the clock ticks, so a queued timer
fires, and that a remove that was called goes on; nobody has to store anything
or to remove the device. `Userland` assumes that every program runs, since its calls
return and its sleeps end; that calls stop failing and the weather holds is a
bound (`MaxErr`, `MaxChange`), which is what `LedSettles` means by settling.
Nobody has to use the LED driver.
`EventuallyServed` is stated for a lone reader since two readers can take turns
and starve one of them; `EventuallyReported` is what two readers still get.

## 5. Proofs

Every safety invariant and every action property of the passing runs is a
theorem. Its general form: the type invariant and an inductive invariant are
preserved by each action, and the inductive invariant implies the property. The
properties were checked with TLC before they were proved.

### `tlapm IsrCnt_proofs.tla`

For every finite set of `Threads`, every `M > 1`, `Levels` within {0, 1}, every
`ClearPoint` and every bound:

- `TypeCorrect`: `Spec => []TypeOK`.
- `NeverLostWakeup`: `NoLostWakeup`. Not inductive alone: `Prepare` queues a process
  and `Recheck` looks at `flag`. The invariant `QueueInv` adds that only processes
  at `prepare`, `recheck` or `asleep` can be queued, and that once `flag` is set a
  process still queued is at `recheck`, about to look at it. Of the steps that set
  `flag` there is only the handler, and it empties the queue.
- `AlwaysBacked`: `PassesBacked`. A process that is past the wait has used up an
  interrupt. `PassInv` counts one more: while `flag` is set and the process has not
  taken it yet, it was let through strictly fewer times than there were
  interrupts; after the pass and before line 97 the count may be equal while
  `flag` is still set.
- `AllReported`: `NothingUnreported`, with `ReportInv`: the history variable
  `unseen` is covered by `flag` or by a process that has yet to load `cnt_isr`,
  because line 97 precedes line 101. Its part `UnloadedInv` says that nothing is
  left unseen once the module is unloaded.
- `RefinesLatch`: `Spec => ImplementsLatch`. `events` is `nIsr`, `served` is `nPass`,
  `uncovered` is `unseen`, and the phase of a process is read off its `pc` and of
  the fields it has yet to load. `Serve` needs `PassInv`. Loads of other fields and
  the steps within the wait are stutters.

- `LoneLinesBacked`: `LineBacked`, if there is one process and fewer than `M` interrupts
  in all. Both are conditions, not bounds: two readers do lose a count
  (`isr_cnt.c:99`), and a counter that wrapped says nothing about how many there
  were. While no signal came, `LoneInv` follows the only process through the
  driver. `CountInv` is its heart: the reads counted, those let through and not yet
  counted, and the one a set `flag` will let through (`Owes`) are together at most
  the interrupts counted, plus `Ahead`, which is the one interrupt that can come
  between an early clear of `flag` and the reset of `cnt_isr`. `OpeningInv` says when
  in `gpio_open` that becomes true, for each of the five places of the clear;
  `LineInv` carries it through loads in any order, in which the handler can only
  add to `cnt_isr`. `LifeInv` closes the file before the module goes.

Assumed are the five named assumptions of `IsrCnt`, which TLC evaluates in each
run of `MCIsrCnt`.

### `tlapm AttrDrv_proofs.tla`

For every set of `Procs`, finite or not, every set of delays within Nat, every `Word > 0`
and every `HZ > 0`:

- `TypeCorrect`: `TypeOK`, in two halves, `BooleansOK` and `RangesOK`.
- `StoreInv`, a lemma for all others: a store is under way only while the LED has its
  nodes or remove waits for it, and without the module there is neither a node nor
  a queued timer.
- `AddedOnce`: `NeverAddedTwice`. `SerialInv` adds why the flag suffices for a lone
  store although it is set after `add_timer`: a timer that is queued while the flag is
  down belongs to a store that is at the flag, and who is at `add_timer` saw the
  flag down and nobody else can have set it.
- `StaysArmed`: `ArmedStays`. `ArmInv` adds that a store at the flag has a queued timer, and
  that `timer_flag` is 0 when probe makes new nodes.
- `DeadOnlyRaced`: `DeadUnlessRaced`, and `OthersUndisturbed`: `PinUndisturbed`. Both come from
  `DeadInv`: nodes, a queued timer and stores exist at other times than from the
  making of the node to remove only after a race or a failed probe, and in that time
  the driver holds the gpio.
- `QueuedWasStored`: `DelayStored`. `DelayInv` adds that `timeout_in_sec` was stored, and
  `expires` was computed from a stored number, as soon as a store gets that far; a new
  load, which zeroes both, finds no timer and no store.

Assumed are `SecsAssumption` and `WordAssumption`, which TLC evaluates in `AttrDrv_led`.

### `tlapm SpiReg_proofs.tla`

For every set of processes that open nodes:

- `TypeCorrect`: `TypeOK`, of which the essential part is that the table has no gap
  below the count. `ProbeInv` says where in probe which channel is under way, and
  that only the DAC's can have an error to return.
- `KeepsChip`: `HandlesKeepChip`, and `NoneOrphaned`: `NoOrphanNode`, both from `HandleInv`.
  Every node and every open file stands for a chip of the table or is the one that
  probe has published without its entry (`Stands`). `FillStands` is the heart: the
  entry that probe writes next is that of the early node, and of no other. What
  is left without the module (`UnloadedInv`): a load starts the table afresh, which is
  right only if no node and no open file goes by the old one. `AllDestroyed` is why
  no node is orphaned: while no probe runs every node is in the range remove goes
  through, whatever the count was when probe made it, those of a refused DAC
  included.

The chips, channels and table size are those of the code, so there is no assumption.

### `tlapm SpiData_proofs.tla`

For every set of `Threads`, finite or not, every assignment of nodes to them, every set of
integers written, and any number of failures and conversions:

- Five lemmas about the commands: what the chip takes out of the two bytes (channel,
  output switch, eight bits of data) is what `write_to_DAC` put in, for every int.
- `TypeCorrect`: `TypeOK`.
- `AllLatched`: `NothingUnlatched`, which is inductive, the two edges of LDAC
  included: an output that lags behind is one whose writer has yet to pulse.
- `WriteComesOut`: `WrittenIsOut`. `WriteInv` follows the number of a channel's only writer
  from `arg` to `value`, the copy, the input register and the output. A writer of the
  other channel can only move a register to its output early.
- `ChannelsApart`: `OtherChannelKept`, an action property.
- `ReadsCurrent`: `ReadCurrent`. `FreshInv` adds for every pair of readers that what one has
  converted and not yet stored is not old for the other, and that after a store
  of its own a reader finds nothing old in `result`, whoever stored after it.

Assumed are `ValuesAssumption`, `OpensAssumption` and `BoundsAssumption`, which TLC
evaluates in `SpiData_all`.

### `tlapm Ladders_proofs.tla`, `tlapm Board_proofs.tla`

The first is about any drivers and any tables of calls, the second draws the
conclusions for this repository's.

- `TypeCorrect`: `TypeOK`, with `BrokeInv`: a ladder that runs is that of a step that
  has one, and a hollow driver comes of a step whose error is not returned.
- `LoadedHas`: a loaded driver that is not hollow owns what it acquired. What goes
  through a pointer it always has (`HandleInv`, `HeldInv`). What goes by number it has if
  that is `Secure`: no table of any driver releases it before it was acquired or
  twice (`Orderly`), or no other driver's table releases it at all; and no number is
  secure that the kernel gave, once an init was hollow. `HoldInv` is the invariant: a
  secure resource belongs to whoever passed the step that acquires it and has not
  passed the release (`Has`). This is no more than one driver at a time.
- `OutForgets`: what a driver that is out, or hollow, still owns its exit omits, or some
  ladder if its init ever failed (`Forgets`). `KeepInv`: what a driver owns it has
  passed and not released, or forgets.
- `OnlyDisorderTakes`, an action property: a release takes from another driver
  (`Robs`) only what goes by number and what some table releases out of order, or
  what an exit releases after a hollow load (`CanTake`). It follows from `HoldInv`
  before the step.
- `NothingElseLeft`: `LeavesNoMore`, `NothingElseTaken`: `TakesNoMore`, `LoadedHasItsOwn`:
  `HasItsOwn`. For each of the nine drivers lemmas evaluate its tables: what it forgets
  (the leaks of section 6), what it releases in order and what it uses at all. They
  need no run of the machine. For probe, whose tables grow with the device tree, they
  hold for every number of gpios up to five. `Disordered` is what some table releases
  out of order, `SharedDisorder` that of this only gpio 21 is used by two drivers,
  `OwnDisorder` that the rest is secure, and `DynamicUsers` who has dynamic numbers.

Assumed are the named assumptions of `Ladders` and `Board`, which TLC evaluates in
`Board_all`. Any set of the nine drivers may be in use at once, with any supply of
device numbers. Of the device tree `ProbeAssumption` says that it names up to five
different gpios, that gpio 12 can only be the first, and that gpio 5 (the DAC's) and 19
(`isr_cnt.c`) are not among the others, as in the overlays of the repository; with a gpio
that another driver uses in a later place a failed probe would take that one away, as
it does gpio 21. The two bounds of `Board` hold here, too.

### `tlapm Userland_proofs.tla`

For every choice of programs that run together, every set of temperatures that a
register of eight bits can show, every result of reading a write-only register, and
any number of failed calls:

- `TypeCorrect`: `TypeOK`, in four parts; `DataOK` adds where the loop of `mm.c` is below ten.
- `NoneLeaked`: `NoLeak`. `FdsInv` bounds the open files by where a program stands.
- `DriverShown`: `DriverShows`. `ShowInv` adds that the pin is the driver's as long as
  `mm.c` has not begun, and again after a load when it had; and that `mm.c` writes its
  bits, if the load came before it, while the pin is an input.
- `NoOtherLowered`: `LowersOnlyItsOwn`, an action property.
- `LedAlternates`: `Alternates`, an action property. `BlinkInv` ties the level of the pin to
  the digit that comes next, through failed writes.

Assumed are the four named assumptions of `Userland`, which TLC evaluates in `Userland_all`.

### Only model-checked

The liveness properties `EventuallyServed`, `EventuallyReported`, `NewDelayHolds`,
`KeepsToggling`, `RemoveEnds`, `LedSettles` and `PageSettles`: liveness under fairness
is out of the prover's reach. `IsrTest` has one property, which does not hold.

## 6. What the comments say and the code does not do

- `spi_drv.c:264-265` "Check we are not creating more devices than we have space
  for": the test lets the count reach 5 and remove never lowers it, so the third
  binding writes past the table (`SpiReg_room`).
- `spi_drv.c:320` "Destroy devices created in probe()": remove destroys the nodes
  of the other chip too (`SpiReg_nodes`).
- `spi_drv.c:163` "return length actually written": a failed transfer returns it too
  (`SpiData_error`).
- `isrtest.c:13`, `:26`: the columns of a line are separated by `:` and are `cnt_isr`,
  `val_isr`, `cnt_read`, `val_read`. The driver prints tabs, and the second and third
  column the other way round (`isr_cnt.c:101`, and so does the shipped `isr_cnt.ko`):
  the test ends at the first line, in `atoi` of a token that is not there
  (`IsrTest_columns`).

Seen while modelling, and contradicting no comment. Most are exceptions in
the properties, so that these say what remains true:

- `led_gpio_driver.c:56-63`: two labels free the gpio, which takes it from
  whoever requested it in between, and a failed `cdev_add` leaves it requested.
- `isr_cnt.c:73`: a failed `request_irq` leaves the character device.
- `plat_drv.c:111`, `attr_drv.c:242`: a failed probe frees the gpio it did not get
  and keeps the first one; the nodes stay. `plat_drv.c:224`, `attr_drv.c:360`: a
  failed init unregisters no numbers.
- `spi_drv.c:92`: a failed second registration leaves the first. `spi_drv.c:279`: gpio 5,
  which probe requests for LDAC, is never freed.
- `spi_drv.c:76`, `:102`: when `class_create` fails, `err` is still the 0 of `cdev_add`: the
  ladder runs and init returns 0. The module stays loaded with nothing in its hands, and
  its exit (116) unregisters a device number that another driver may have by then.
- `attr_drv.c:343` writes through what `class_create` returned without a test: also a class
  that an earlier failed load left (348) makes it an oops.
- `spi_drv.c:291`: a node can be opened before its entry is filled (301, 302); a read or
  write then uses an entry of zeros.
- `spi_drv.c:280`, `:305`: a failed `gpio_direction_output` is returned when nodes and
  entries are made: the chip is not bound, and its nodes stay until the next remove.
- `plat_drv.c:211`: here `class_create` is not tested either; `device_create`
  in probe then gets the error.
- `isr_cnt.c:118`: in the shipped build a line can count one read more than
  interrupts. `isr_cnt.c:99`: two readers can lose a count.
- `attr_drv.c:109-116`: two stores at once can queue a timer twice, which is a BUG.
  `attr_drv.c:254`: a store that races with remove leaves the timer running
  after the gpio was freed.
- `attr_drv.c:242`: after a failed probe the nodes stay, and a store through one drives
  a gpio that was freed, and arms a timer that nobody deletes. `attr_drv.c:300`: so
  does a file in /dev that is still open. `attr_drv.c:103`: the delay in ticks is ten times
  the seconds that were stored (with `HZ` 100), not a hundred times.
- `spi_drv.c:175`: a reader can get the number of the other channel.
- `spi_drv.c:281`: the LDAC node has minor 255 and the file operations of the others,
  which index the table of four entries by the minor (line 31); it is the
  exception in `HandlesKeepChip`.
- Pin 21 stays dark after `mm.c` until the LED driver is loaded again (`mm.c:121`).
- `mm.c:118`: `set_output` works for multiples of ten, as the 20 it is called with; for pin 23,
  say, pin 21 would become the output. `mm.c:121`: it makes inputs of the other pins of the register.
  `mm.c:130`, `:136`: whether a bit is cleared, and which others are set, depends on
  what a write-only register reads as.
- `lm75.c:68`, `web.c:92`: the LED is lit below zero, too. `web.c:24`: the byte after
  `ascii_value` is set to 0, which in the shipped `web` is padding. `web.c:86`: 50
  of the 63 characters of the page are written.
- `led.c:21`, `:33`: a failed setup leaves its files open.

## 7. Not modelled

- What the kernel does after a BUG or a write outside a table.
- Multiprocessor kernels.
- The text of lines and logs, the length handling of `copy_to_user`, and file
  positions.
- `attr_drv.c`: the show functions, which change nothing. A toggle value other than
  1 is 0 in the model, as in line 390. An LED is modelled alone: the loops of probe
  and remove over the others are in its failures, and in `Board`.
- `spi_drv.c`: writes to an ADC node and reads from a DAC node, and the lengths of
  `snprintf` and `copy_to_user`. What becomes of the nodes of a refused DAC when the
  module is unloaded and their class destroyed: `SpiReg` loads again only if none is
  left. Loads that fail are in `Board` and not in `SpiReg`, the nodes of the DAC in
  `SpiReg` and not in `Board`.
- Probes of a platform driver that has no class, and loads of one whose class was
  destroyed with nodes in it (`Board`).
- `simpleisr/but_isr.c`: the handler, the wait and the clearing of `flag` are those of
  `IsrCnt` without the counters and the reset. (Line 43 of the source has a stray
  character and `rhino_cdev` is not declared; a `but_isr.ko` was shipped all the same.)
- The races of `mm.c` with the kernel's own read and write of a function register.
- `butread.c`, `isr_read.c`: they read a byte and print it.
- The formatter and the hello programs: straight-line output.

## 8. Plan

Done, in this order: `EventLatch` and `IsrCnt` with their proofs, `Ladders` and
`Board`, `SpiReg`, `SpiData`, `AttrDrv` with its proofs, `Userland`, `IsrTest`, and the proofs
of `SpiData`, `SpiReg`, `Ladders`, `Board`, `Userland` and of `LineBacked`.

Worth adding:

1. The simple interrupt driver as a second implementation of a weaker `EventLatch`,
   with its refinement proved.
2. Several LEDs in `AttrDrv`, with the loops of probe and remove over all of them.
3. A theorem of what two readers of `IsrCnt` can still rely on in a line: how many
   counts can be lost is bounded by the reads that overlapped.
4. The converse of `OnlyDisorderTakes`: that each exception in `MayTake`, and each entry
   of `Leaks`, is reached by some run of the machine.
