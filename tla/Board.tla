------------------------------- MODULE Board -------------------------------
(***************************************************************************)
(* The init, error and exit paths of the repository's drivers, as tables   *)
(* for Ladders.  Drivers on the same board meet at gpio 5, 12 and 21, at   *)
(* device number 12:0 and in the numbers that the kernel gives out.        *)
(***************************************************************************)
EXTENDS Ladders

CONSTANT ProbeGpio      \* the gpios of the device tree node, in order

Gpios == {"gpio5", "gpio12", "gpio16", "gpio19", "gpio20", "gpio21", "gpio26"}
Regions == {"dev12_0", "dev64_1"}
Cdevs == {"but_cdev", "isr_cdev", "simple_cdev", "led_cdev"}
Names == {"irq19", "irq12", "rhino_buttons_cls", "plat_drv", "spi_drv_class", "spi_drv_DAC",
          "spi_drv_ADC"}
\* 255 device numbers at a major the kernel chooses, and the cdev at them.
BoardDynamic == {"region", "map"}

\* gpio_init of but_gpio_driver.c: its ladder releases what was acquired.
ButAcq == <<"gpio12", Nothing, "dev12_0", "but_cdev">>
\* Mutants: a jump to the label after the right one, and to the one before it.
ButUndoLeaky == << <<>>, <<"gpio12">>, <<>>, <<"dev12_0", "gpio12">> >>
ButUndoTooMuch == << <<"gpio12">>, <<"gpio12">>, <<"dev12_0", "gpio12">>,
                     <<"dev12_0", "gpio12">> >>
ButUndo == << <<>>, <<"gpio12">>, <<"gpio12">>, <<"dev12_0", "gpio12">> >>
ButExit == <<"but_cdev", "dev12_0", "gpio12">>

\* gpio_init of isr_cnt.c: when request_irq fails, the cdev stays.
IsrAcq == <<"gpio19", Nothing, "dev12_0", "isr_cdev", "irq19">>
IsrUndo == << <<>>, <<"gpio19">>, <<"gpio19">>, <<"dev12_0", "gpio19">>,
              <<"dev12_0", "gpio19">> >>
IsrExit == <<"irq19", "isr_cdev", "dev12_0", "gpio19">>

\* gpio_init of but_isr.c: the same at gpio 12.
SimpleAcq == <<"gpio12", Nothing, "dev12_0", "simple_cdev", "irq12">>
SimpleUndo == << <<>>, <<"gpio12">>, <<"gpio12">>, <<"dev12_0", "gpio12">>,
                 <<"dev12_0", "gpio12">> >>
SimpleExit == <<"irq12", "simple_cdev", "dev12_0", "gpio12">>

\* led2gpio_init: each label falls through to the next, and they stand in the
\* order of the acquisitions instead of the reverse.  Before devno is set the last
\* label unregisters 0:0, which is nobody's.
LedAcq == <<"gpio21", Nothing, "dev64_1", "led_cdev">>
LedUndo == << <<>>, <<"gpio21", "gpio21">>, <<"gpio21", "dev64_1">>,
              <<"dev64_1">> >>
LedExit == <<"led_cdev", "dev64_1", "gpio21">>

\* gpio_init of plat_drv.c and of attr_drv.c: NUM_OF_BUTS is 0 until a device is
\* probed, so their ladders unregister no number at all.
PlatAcq == <<"region", "rhino_buttons_cls", "map", "plat_drv">>
PlatUndo == << <<>>, <<>>, <<>>, <<>> >>
PlatExit == <<"plat_drv", "rhino_buttons_cls", "map", "region">>
AttrAcq == <<"region", "rhino_buttons_cls", "map", "plat_drv">>
AttrUndo == << <<>>, <<>>, <<>>, <<>> >>
AttrExit == <<"plat_drv", "map", "rhino_buttons_cls", "region">>

\* spi_drv_init: a failed registration of the second driver leaves the first.
SpiAcq == <<"region", "map", "spi_drv_class", "spi_drv_DAC", "spi_drv_ADC">>
SpiUndo == << <<>>, <<"region">>, <<"map", "region">>,
              <<"spi_drv_class", "map", "region">>,
              <<"spi_drv_class", "map", "region">> >>
SpiExit == <<"spi_drv_DAC", "spi_drv_ADC", "spi_drv_class", "map", "region">>

\* spi_drv_probe of the DAC requests gpio 5, does not look at the result, sets its
\* direction and returns that result; nothing frees it.  (Its nodes: SpiReg.)
DacAcq == <<"gpio5", Nothing>>
DacUndo == << <<>>, <<>> >>
DacExit == <<>>

\* rhino_button_probe of both: for each gpio of the device tree request it, set
\* its direction and create its node.
Count == Len(ProbeGpio)
Node(i) == <<"button0", "button1", "button2", "button3", "button4">>[i]
Nodes == {Node(i) : i \in 1..Count}
ProbeAcq ==
    [k \in 1..(3 * Count) |-> LET i == (k + 2) \div 3
                              IN  CASE k % 3 = 1 -> ProbeGpio[i]
                                    [] k % 3 = 2 -> Nothing
                                    [] OTHER     -> Node(i)]

\* Its ladder, for (int d = i; d > 0; d--), releases the gpio that failed (i) and
\* not the first one; the nodes stay.  The table counts from 1.
DownFrom(i, low) == [n \in 1..(i + 1 - low) |-> ProbeGpio[i + 1 - n]]
ProbeUndo == [k \in DOMAIN ProbeAcq |-> DownFrom((k + 2) \div 3, 2)]

\* rhino_button_remove.
ProbeExit ==
    [k \in 1..(2 * Count) |-> IF k % 2 = 1 THEN Node((k + 1) \div 2)
                              ELSE ProbeGpio[k \div 2]]

BoardEntries == Gpios \cup Regions \cup Cdevs \cup Nodes \cup Names \cup BoardDynamic
BoardNumbered == Gpios \cup Regions \cup Nodes
BoardAcq == [but |-> ButAcq, isr |-> IsrAcq, simple |-> SimpleAcq, led |-> LedAcq,
             plat |-> PlatAcq, attr |-> AttrAcq, probe |-> ProbeAcq, spi |-> SpiAcq,
             dac |-> DacAcq]
BoardUndo == [but |-> ButUndo, isr |-> IsrUndo, simple |-> SimpleUndo,
              led |-> LedUndo, plat |-> PlatUndo, attr |-> AttrUndo,
              probe |-> ProbeUndo, spi |-> SpiUndo, dac |-> DacUndo]
BoardExits == [but |-> ButExit, isr |-> IsrExit, simple |-> SimpleExit,
               led |-> LedExit, plat |-> PlatExit, attr |-> AttrExit,
               probe |-> ProbeExit, spi |-> SpiExit, dac |-> DacExit]

\* class_create of plat_drv.c, platform_driver_register, device_create and the
\* request of gpio 5 go unchecked; attr_drv.c writes through what class_create
\* returned; spi_drv_init returns the 0 that cdev_add left in err.
Checked(acq) == [k \in 1..Len(acq) |-> "ladder"]
PlatFault == <<"ladder", "ignored", "ladder", "ignored">>
AttrFault == <<"ladder", "oops", "ladder", "ignored">>
ProbeFault == [k \in DOMAIN ProbeAcq |-> IF k % 3 = 0 THEN "ignored" ELSE "ladder"]
SpiFault == <<"ladder", "ladder", "silent", "ladder", "ladder">>
DacFault == <<"ignored", "ladder">>
BoardFault == [but |-> Checked(ButAcq), isr |-> Checked(IsrAcq),
               simple |-> Checked(SimpleAcq), led |-> Checked(LedAcq),
               plat |-> PlatFault, attr |-> AttrFault, probe |-> ProbeFault,
               spi |-> SpiFault, dac |-> DacFault]

\* The bus calls the probe of the driver that registered the name.  Bound: nothing
\* is probed while plat_drv has no class to put its nodes in.
BoardParent == [but |-> {}, isr |-> {}, simple |-> {}, led |-> {}, plat |-> {}, attr |-> {},
                probe |-> {"plat_drv", "rhino_buttons_cls"}, spi |-> {},
                dac |-> {"spi_drv_DAC"}]
\* A second cdev_add succeeds beside a leaked one.
BoardAgain == Cdevs

ASSUME TablesAssumption ==
    /\ Drivers \subseteq {"but", "isr", "simple", "led", "plat", "attr", "probe", "spi", "dac"}
    /\ Entries = BoardEntries /\ Numbered = BoardNumbered /\ Dynamic = BoardDynamic
    /\ Region = "region" /\ Inside = Nodes
    /\ Acq = BoardAcq /\ Undo = BoardUndo /\ Exits = BoardExits
    /\ Fault = BoardFault /\ Parent = BoardParent /\ Again = BoardAgain
\* As in attr_drv-overlay.dts: up to five gpios, each named once; gpio 12 can only
\* be the first, and those of isr_cnt and of the DAC are not among the others.
ASSUME ProbeAssumption ==
    /\ ProbeGpio \in Seq(Gpios) /\ Count \in 1..5
    /\ \A i, j \in 1..Count : ProbeGpio[i] = ProbeGpio[j] => i = j
    /\ \A i \in 2..Count : ProbeGpio[i] \notin {"gpio5", "gpio12", "gpio19"}

-----------------------------------------------------------------------------
\* What the ladder of a failed init forgets.
Leaks == [but |-> {}, isr |-> {"isr_cdev"}, simple |-> {"simple_cdev"},
          led |-> {"gpio21"}, plat |-> {"region", "rhino_buttons_cls"},
          attr |-> {"region", "rhino_buttons_cls"},
          probe |-> {ProbeGpio[1]} \cup Nodes, spi |-> {"spi_drv_DAC"}, dac |-> {}]
MayLeave(d) == (IF d \in failed THEN Leaks[d] ELSE {}) \cup (IF d = "dac" THEN {"gpio5"} ELSE {})

\* A driver that is out of the kernel, or that is loaded although its init gave
\* everything back, holds nothing but what its failed init is known to forget and
\* the gpio 5 of the DAC, however the drivers interleave and whichever call fails.
LeavesNoMore ==
    \A d \in Drivers : stage[d] = "out" \/ Hollow(d) =>
        \A r \in Pool : owner[r] = d => r[1] \in MayLeave(d)

\* Whose release may hit something of another driver: gpio 21 is freed by the
\* ladders of led_gpio_driver.c (twice) and of the probe (once too often), and
\* once an spi_drv_init has returned 0 after its ladder, the exit that follows
\* gives back a device number that another driver may have by then.
Confused == IF hollowed THEN BoardDynamic ELSE {}
MayTake(d, x) ==
    \/ d \in {"led", "probe"} /\ x = "gpio21"
    \/ d \in {"spi", "plat", "attr"} /\ x \in Confused
TakesNoMore == [][\A d \in Drivers : Robs(d) => MayTake(d, Called(d))]_vars

\* But for these, a driver that is loaded and not hollow has all that it acquired:
\* nobody else's error path or exit takes it away.
HasItsOwn ==
    \A d \in Drivers : stage[d] = "in" /\ ~Hollow(d) =>
        \A k \in 1..Len(Acq[d]) :
            (Fault[d][k] # "ignored" /\ Acq[d][k] \notin {Nothing, "gpio21"} \cup Confused) =>
                owner[Real(d, Acq[d][k])] = d
=============================================================================
