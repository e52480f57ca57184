------------------------------ MODULE Userland ------------------------------
(***************************************************************************)
(* The programs that meet at gpio 20: the thermometers lecture2/lm75.c and *)
(* web.c, and lecture2/led.c, through sysfs; lecture9/mm.c through the     *)
(* registers; and at pin 21, whose function is in the same register, the   *)
(* LED driver of lecture4.  A step is one system call, one access to a     *)
(* register, or a call of the driver.                                      *)
(*                                                                         *)
(* The kernel's sysfs is external: a gpio is exported once, "out" makes it *)
(* an output at level 0, and its value can be written when it is one.      *)
(***************************************************************************)
EXTENDS Integers

CONSTANTS
    Boards,         \* bound: the sets of programs that run together
    Temps,          \* temperatures, one byte of two's complement
    Junks,          \* pins whose bits are 1 in a read of GPSET0 or GPCLR0, which
                    \* are write-only: any
    MaxErr,         \* bound: system calls that fail
    MaxChange       \* bound: changes of the temperature

Thermos == {"lm75", "web"}
Programs == Thermos \cup {"led", "mm", "driver"}
Pins == {16, 20, 21}                \* 16 is somebody else's

ASSUME BoardsAssumption == Boards \subseteq SUBSET Programs
ASSUME TempsAssumption == Temps \subseteq -128..127
ASSUME JunksAssumption == Junks \subseteq SUBSET Pins
ASSUME BoundsAssumption == MaxErr \in Nat /\ MaxChange \in Nat

VARIABLES
    running,        \* the programs on this board
    pc,             \* pc[p]
    fds,            \* fds[p]: the files that p has open
    exported,       \* sysfs: gpio 20 is exported ...
    out,            \* ... and an output
    fsel,           \* fsel[q]: the function of pin q, three bits, 1 is output
    latch,          \* latch[q]: the level pin q has as an output
    temp,           \* the temperature
    reading,        \* reading[p]: buffer[0] of a thermometer
    page,           \* the two characters on the page of web.c, minus '0'
    digit,          \* buffer[0] of led.c
    i,              \* the loop counter of mm.c
    written,        \* what the LED driver was told last, 1 by its init
    nErr, nChange,  \* history: calls that failed, changes of the temperature
    mmAt,          \* history: where mm was when the LED driver was loaded
    blinked         \* history: a write of led.c got through

sysfs == <<exported, out>>
regs == <<fsel, latch>>
weather == <<temp, nChange>>
locals == <<reading, page, digit, i, written>>
vars == <<running, pc, fds, sysfs, regs, weather, locals, nErr, mmAt, blinked>>

Init ==
    /\ running \in Boards
    /\ pc = [p \in Programs |-> IF p = "mm" THEN "fsel"
                                ELSE IF p = "driver" THEN "out" ELSE "export"]
    /\ fds = [p \in Programs |-> {}]
    /\ exported = FALSE /\ out = FALSE
    /\ fsel = [q \in Pins |-> 0]
    /\ latch \in [Pins -> {0, 1}]
    /\ temp \in Temps
    /\ reading = [p \in Thermos |-> 0]
    /\ page = <<0, 0>>
    /\ digit = 0 /\ i = 0 /\ written = 1
    /\ nErr = 0 /\ nChange = 0
    /\ mmAt = "fsel" /\ blinked = FALSE

Move(p, from, to) ==
    /\ p \in running
    /\ pc[p] = from
    /\ pc' = [pc EXCEPT ![p] = to]

Works == UNCHANGED nErr
Fails == nErr < MaxErr /\ nErr' = nErr + 1

Opened(p, f) == fds' = [fds EXCEPT ![p] = @ \cup {f}]
Closed(p, fs) == fds' = [fds EXCEPT ![p] = @ \ fs]

\* The temperature changes.
Weather ==
    /\ nChange < MaxChange
    /\ nChange' = nChange + 1
    /\ temp' \in Temps \ {temp}
    /\ UNCHANGED <<running, pc, fds, sysfs, regs, locals, nErr, mmAt, blinked>>

-----------------------------------------------------------------------------
(* Setting up gpio 20, in lm75.c, web.c and led.c.                          *)

\* A write to export or direction failed: led.c leaves the file open.
NotClosed(p, f) == IF p = "led" THEN Opened(p, f) \/ UNCHANGED fds ELSE UNCHANGED fds

\* That gpio 20 is exported already is an error like others, and no matter.
Export(p) ==
    /\ Move(p, "export", "direction")
    /\ \/ ~exported /\ exported' = TRUE /\ Works /\ UNCHANGED fds
       \/ exported /\ Works /\ NotClosed(p, "export") /\ UNCHANGED exported
       \/ Fails /\ NotClosed(p, "export") /\ UNCHANGED exported
    /\ UNCHANGED <<running, out, regs, weather, locals, mmAt, blinked>>

Direction(p) ==
    /\ Move(p, "direction", "top")
    /\ \/ /\ exported /\ Works
          /\ out' = TRUE
          /\ fsel' = [fsel EXCEPT ![20] = 1]
          /\ latch' = [latch EXCEPT ![20] = 0]
          /\ UNCHANGED fds
       \/ ~exported /\ Works /\ UNCHANGED <<fds, out, regs>>
       \/ exported /\ Fails /\ NotClosed(p, "direction") /\ UNCHANGED <<out, regs>>
    /\ UNCHANGED <<running, exported, weather, locals, mmAt, blinked>>

\* open("/sys/class/gpio/gpio20/value")
OpenValue(p) ==
    \/ exported /\ Works /\ Opened(p, "value")
    \/ ~exported /\ Works /\ UNCHANGED fds
    \/ exported /\ Fails /\ UNCHANGED fds

Writable(p) == "value" \in fds[p] /\ out

-----------------------------------------------------------------------------
(* The loop of the thermometers.                                            *)

OpenI2c(p) ==
    /\ Move(p, "top", "read")
    /\ \/ Works /\ Opened(p, "i2c")
       \/ Fails /\ UNCHANGED fds
    /\ UNCHANGED <<running, sysfs, regs, weather, locals, mmAt, blinked>>

\* Mutant: char is signed.
ByteSigned(t) == t

\* buffer[0]: char has no sign on ARM.
Byte(t) == t % 256

Read(p) ==
    /\ Move(p, "read", "value")
    /\ "i2c" \in fds[p]
    /\ reading' = [reading EXCEPT ![p] = Byte(temp)]
    /\ UNCHANGED <<running, fds, sysfs, regs, weather, page, digit, i, written, nErr, mmAt, blinked>>

ReadFails(p) ==
    /\ Move(p, "read", "retry")
    /\ IF "i2c" \in fds[p] THEN Fails ELSE Works
    /\ UNCHANGED <<running, fds, sysfs, regs, weather, locals, mmAt, blinked>>

\* Mutant: what was opened stays open.
RetryOpen(p) ==
    /\ Move(p, "retry", "top")
    /\ UNCHANGED <<running, fds, sysfs, regs, weather, locals, nErr, mmAt, blinked>>

Retry(p) ==
    /\ Move(p, "retry", "top")
    /\ Closed(p, {"i2c"})
    /\ UNCHANGED <<running, sysfs, regs, weather, locals, nErr, mmAt, blinked>>

ThermoOpen(p) ==
    /\ Move(p, "value", IF p = "web" THEN "page" ELSE "write")
    /\ OpenValue(p)
    /\ UNCHANGED <<running, sysfs, regs, weather, locals, mmAt, blinked>>

\* Mutant: the digits in the wrong order.
AsciiBack(r) == <<r % 10, r \div 10>>

\* int_to_ascii
Ascii(r) == <<r \div 10, r % 10>>

\* web.c opens its page, writes 50 bytes from the beginning (all but 13 of the
\* closing tags), and closes it.
Page ==
    /\ Move("web", "page", "write")
    /\ \/ Works /\ page' = Ascii(reading["web"])
       \/ Fails /\ UNCHANGED page
    /\ UNCHANGED <<running, fds, sysfs, regs, weather, reading, digit, i, written, mmAt, blinked>>

\* The LED is on above 29 degrees; whether the write works is not looked at.
ThermoWrite(p) ==
    /\ Move(p, "write", "close")
    /\ latch' = IF Writable(p)
                THEN [latch EXCEPT ![20] = IF reading[p] > 29 THEN 1 ELSE 0]
                ELSE latch
    /\ UNCHANGED <<running, fds, sysfs, fsel, weather, locals, nErr, mmAt, blinked>>

ThermoClose(p) ==
    /\ Move(p, "close", "top")
    /\ Closed(p, {"i2c", "value"})
    /\ UNCHANGED <<running, sysfs, regs, weather, locals, nErr, mmAt, blinked>>

Thermo(p) ==
    \/ Export(p) \/ Direction(p)
    \/ OpenI2c(p) \/ Read(p) \/ ReadFails(p) \/ Retry(p)
    \/ ThermoOpen(p) \/ (p = "web" /\ Page) \/ ThermoWrite(p) \/ ThermoClose(p)

-----------------------------------------------------------------------------
(* The loop of led.c.                                                       *)

LedOpen ==
    /\ Move("led", "top", "write")
    /\ OpenValue("led")
    /\ UNCHANGED <<running, sysfs, regs, weather, locals, mmAt, blinked>>

LedWrite ==
    /\ Move("led", "write", "toggle")
    /\ Writable("led") /\ Works
    /\ latch' = [latch EXCEPT ![20] = digit]
    /\ blinked' = TRUE
    /\ UNCHANGED <<running, fds, sysfs, fsel, weather, locals, mmAt>>

LedWriteFails ==
    /\ Move("led", "write", "retry")
    /\ IF Writable("led") THEN Fails ELSE Works
    /\ UNCHANGED <<running, fds, sysfs, regs, weather, locals, mmAt, blinked>>

LedToggle ==
    /\ Move("led", "toggle", "top")
    /\ Closed("led", {"value"})
    /\ digit' = 1 - digit
    /\ UNCHANGED <<running, sysfs, regs, weather, reading, page, i, written, nErr, mmAt, blinked>>

\* Mutant: the next digit, though this one was not written.
LedRetryNext ==
    /\ Move("led", "retry", "top")
    /\ Closed("led", {"value"})
    /\ digit' = 1 - digit
    /\ UNCHANGED <<running, sysfs, regs, weather, reading, page, i, written, nErr, mmAt, blinked>>

LedRetry ==
    /\ Move("led", "retry", "top")
    /\ Closed("led", {"value"})
    /\ UNCHANGED <<running, sysfs, regs, weather, locals, nErr, mmAt, blinked>>

Led ==
    \/ Export("led") \/ Direction("led")
    \/ LedOpen \/ LedWrite \/ LedWriteFails \/ LedToggle \/ LedRetry

-----------------------------------------------------------------------------
(* mm.c.                                                                    *)

\* GPIO_OUTPUT << (pin % 10), the word that set_output writes to GPFSEL(pin / 10).
FselWord(pin) == 2 ^ (pin % 10)

\* The function that a word in its register gives to pin q.
Function(word, q) == (word \div 8 ^ (q % 10)) % 8

\* Mutant: the register is that of the last digit.
SetOutputElsewhere ==
    /\ Move("mm", "fsel", "bit")
    /\ fsel' = [q \in Pins |-> IF q \div 10 = 20 % 10 THEN Function(FselWord(20), q)
                               ELSE fsel[q]]
    /\ UNCHANGED <<running, fds, sysfs, latch, weather, locals, nErr, mmAt, blinked>>

SetOutput ==
    /\ Move("mm", "fsel", "bit")
    /\ fsel' = [q \in Pins |-> IF q \div 10 = 20 \div 10 THEN Function(FselWord(20), q)
                               ELSE fsel[q]]
    /\ UNCHANGED <<running, fds, sysfs, latch, weather, locals, nErr, mmAt, blinked>>

\* Mutant: the bit is added to what was read.
ClrBitOr(read, bit) == read \cup {bit}

\* The bits that reg_setbit and reg_clrbit write back to a register read so.
SetBit(read, bit) == read \cup {bit}
ClrBit(read, bit) == read \cap {bit}

\* The loop: GPSET0 if i is odd, else GPCLR0.
Bit ==
    /\ Move("mm", "bit", IF i = 9 THEN "done" ELSE "bit")
    /\ i' = i + 1
    /\ \E read \in Junks :
          latch' = [q \in Pins |-> IF i % 2 = 1
                                   THEN IF q \in SetBit(read, 20) THEN 1 ELSE latch[q]
                                   ELSE IF q \in ClrBit(read, 20) THEN 0 ELSE latch[q]]
    /\ UNCHANGED <<running, fds, sysfs, fsel, weather, reading, page, digit, written, nErr, mmAt,
                   blinked>>

Mm == SetOutput \/ Bit

-----------------------------------------------------------------------------
(* The LED driver of lecture4.                                              *)

\* gpio_direction_output(21, 1), and the rest of led2gpio_init.
DriverLoad ==
    /\ Move("driver", "out", "in")
    /\ fsel' = [fsel EXCEPT ![21] = 1]
    /\ latch' = [latch EXCEPT ![21] = 1]
    /\ written' = 1
    /\ mmAt' = pc["mm"]
    /\ UNCHANGED <<running, fds, sysfs, weather, reading, page, digit, i, nErr, blinked>>

DriverWrite ==
    /\ Move("driver", "in", "in")
    /\ \E v \in {0, 1} :
          /\ latch' = [latch EXCEPT ![21] = v]
          /\ written' = v
    /\ UNCHANGED <<running, fds, sysfs, fsel, weather, reading, page, digit, i, nErr, mmAt, blinked>>

DriverUnload ==
    /\ Move("driver", "in", "out")
    /\ UNCHANGED <<running, fds, sysfs, regs, weather, locals, nErr, mmAt, blinked>>

Next ==
    \/ Weather
    \/ \E p \in Thermos : Thermo(p)
    \/ Led \/ Mm
    \/ DriverLoad \/ DriverWrite \/ DriverUnload

\* The scheduler starves no program; sleeps end.
FairSpec ==
    /\ Init /\ [][Next]_vars
    /\ \A p \in Thermos : WF_vars(Thermo(p))
    /\ WF_vars(Led) /\ WF_vars(Mm)

-----------------------------------------------------------------------------
Pcs == {"export", "direction", "top", "read", "value", "page", "write", "close", "retry",
        "toggle", "fsel", "bit", "done", "out", "in"}

TypeOK ==
    /\ running \in Boards
    /\ pc \in [Programs -> Pcs]
    /\ fds \in [Programs -> SUBSET {"export", "direction", "i2c", "value"}]
    /\ exported \in BOOLEAN /\ out \in BOOLEAN
    /\ fsel \in [Pins -> 0..7] /\ latch \in [Pins -> {0, 1}]
    /\ temp \in Temps /\ reading \in [Thermos -> 0..255]
    /\ page \in (0..25) \X (0..9)
    /\ digit \in {0, 1} /\ i \in 0..10 /\ written \in {0, 1}
    /\ nErr \in 0..MaxErr /\ nChange \in 0..MaxChange
    /\ mmAt \in {"fsel", "bit", "done"} /\ blinked \in BOOLEAN

Lit(q) == fsel[q] = 1 /\ latch[q] = 1

\* No program collects open files as its loop goes round, whichever calls fail
\* (lm75.c 59 and 77, web.c 68 and 101, led.c 49 and 53).  led.c keeps the two
\* of its setup if that failed.
NoLeak ==
    \A p \in Thermos \cup {"led"} : pc[p] = "top" =>
        fds[p] \subseteq (IF p = "led" THEN {"export", "direction"} ELSE {})

\* When the weather holds and calls work again, the LED comes to show it, though
\* two thermometers write it from readings of their own, each sets it up anew,
\* and mm.c drives the pin for a while.  buffer[0] > 29 (lm75.c 68, web.c 92) is
\* a comparison of bytes: the LED is lit below zero, too.
LedSettles ==
    <>[](Thermos \cap running # {} /\ out => (Lit(20) <=> temp > 29 \/ temp < 0))

\* The page comes to show the temperature, of no or one or two digits.
PageSettles ==
    <>[]("web" \in running /\ temp \in 0..99 => 10 * page[1] + page[2] = temp)

\* led.c alone alternates: but for the first, each write that gets through
\* changes the level, however many fail in between (led.c 44-55).
Alternates ==
    [][running = {"led"} /\ blinked /\ pc["led"] = "write" /\ pc'["led"] = "toggle"
            => latch'[20] # latch[20]]_vars

\* mm.c works on pin 20 by registers it reads though they are write-only: what it
\* reads can raise other pins (130), but never lower one (136).
LowersOnlyItsOwn ==
    [][pc["mm"] = "bit" /\ i' # i => \A q \in Pins \ {20} : latch'[q] >= latch[q]]_vars

\* The LED at pin 21 is dark against its driver's will only after a set_output
\* that came after the load (121 makes the nine other pins of the register
\* inputs), and stays so until the driver is loaded again; when it is driven, it
\* shows what was written, though reg_setbit raises the levels of other pins, too
\* (130): that happens while the pin is an input.  Only a load while mm.c is in its
\* loop makes the pin an output under those writes.
DriverShows ==
    pc["driver"] = "in" =>
        /\ fsel[21] # 1 => mmAt = "fsel" /\ pc["mm"] # "fsel"
        /\ fsel[21] = 1 /\ mmAt # "bit" => latch[21] = written
=============================================================================
