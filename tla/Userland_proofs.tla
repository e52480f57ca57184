-------------------------- MODULE Userland_proofs --------------------------
(***************************************************************************)
(* Proofs about the programs at gpio 20 for any boards, temperatures, any  *)
(* bits read from the write-only registers, and any number of failures.    *)
(***************************************************************************)
EXTENDS Userland, TLAPS

-----------------------------------------------------------------------------
(* Type correctness, in four parts.                                         *)

ControlOK ==
    /\ running \in Boards
    /\ pc \in [Programs -> Pcs] /\ pc["mm"] \in {"fsel", "bit", "done"}
    /\ fds \in [Programs -> SUBSET {"export", "direction", "i2c", "value"}]
PinsOK ==
    /\ fsel \in [Pins -> 0..7] /\ latch \in [Pins -> {0, 1}]
    /\ digit \in {0, 1} /\ written \in {0, 1}
FlagsOK ==
    /\ exported \in BOOLEAN /\ out \in BOOLEAN
    /\ mmAt \in {"fsel", "bit", "done"} /\ blinked \in BOOLEAN
\* The counter of mm.c has a next value wherever it is stepped.
DataOK ==
    /\ temp \in Temps /\ reading \in [Thermos -> 0..255]
    /\ page \in (0..25) \X (0..9)
    /\ i \in 0..10 /\ (pc["mm"] \in {"fsel", "bit"} => i \in 0..9)
    /\ nErr \in 0..MaxErr /\ nChange \in 0..MaxChange
TypeInv == ControlOK /\ PinsOK /\ FlagsOK /\ DataOK

LEMMA TypeInit == Init => TypeInv
<1> SUFFICES ASSUME Init PROVE TypeInv
  OBVIOUS
<1>1. ControlOK
  BY BoardsAssumption DEF Init, ControlOK, Programs, Thermos, Pcs
<1>2. PinsOK
  BY DEF Init, PinsOK, Pins
<1>3. DataOK
  BY BoundsAssumption DEF Init, DataOK, Thermos, Programs
<1>4. FlagsOK
  BY DEF Init, FlagsOK
<1> QED
  BY <1>1, <1>2, <1>3, <1>4 DEF TypeInv

\* Every step is one of these.
LEMMA NextSplit ==
    Next => \/ Weather
            \/ \E p \in Thermos \cup {"led"} : Export(p) \/ Direction(p)
            \/ \E p \in Thermos :
                  \/ OpenI2c(p) \/ Read(p) \/ ReadFails(p) \/ Retry(p)
                  \/ ThermoOpen(p) \/ ThermoWrite(p) \/ ThermoClose(p)
            \/ Page
            \/ LedOpen \/ LedWrite \/ LedWriteFails \/ LedToggle \/ LedRetry
            \/ SetOutput \/ Bit
            \/ DriverLoad \/ DriverWrite \/ DriverUnload
  BY DEF Next, Thermo, Led, Mm

LEMMA ControlNext == ControlOK /\ [Next]_vars => ControlOK'
<1> SUFFICES ASSUME ControlOK, [Next]_vars PROVE ControlOK'
  OBVIOUS
<1> USE DEF ControlOK, Move, Opened, Closed, NotClosed, OpenValue, Programs, Thermos, Pcs
<1>1. CASE Weather
  BY <1>1 DEF Weather
<1>2. ASSUME NEW p \in Thermos \cup {"led"}, Export(p) PROVE ControlOK'
  BY <1>2 DEF Export
<1>3. ASSUME NEW p \in Thermos \cup {"led"}, Direction(p) PROVE ControlOK'
  BY <1>3 DEF Direction
<1>4. ASSUME NEW p \in Thermos, OpenI2c(p) PROVE ControlOK'
  BY <1>4 DEF OpenI2c
<1>5. ASSUME NEW p \in Thermos, Read(p) \/ ReadFails(p) PROVE ControlOK'
  BY <1>5 DEF Read, ReadFails
<1>6. ASSUME NEW p \in Thermos, Retry(p) PROVE ControlOK'
  BY <1>6 DEF Retry
<1>7. ASSUME NEW p \in Thermos, ThermoOpen(p) PROVE ControlOK'
  BY <1>7 DEF ThermoOpen
<1>8. ASSUME NEW p \in Thermos, ThermoWrite(p) PROVE ControlOK'
  BY <1>8 DEF ThermoWrite
<1>9. ASSUME NEW p \in Thermos, ThermoClose(p) PROVE ControlOK'
  BY <1>9 DEF ThermoClose
<1>10. CASE Page
  BY <1>10 DEF Page
<1>11. CASE LedOpen
  BY <1>11 DEF LedOpen
<1>12. CASE LedWrite \/ LedWriteFails
  BY <1>12 DEF LedWrite, LedWriteFails
<1>13. CASE LedToggle \/ LedRetry
  BY <1>13 DEF LedToggle, LedRetry
<1>14. CASE SetOutput \/ Bit
  BY <1>14 DEF SetOutput, Bit
<1>15. CASE DriverLoad \/ DriverWrite \/ DriverUnload
  BY <1>15 DEF DriverLoad, DriverWrite, DriverUnload
<1>16. CASE UNCHANGED vars
  BY <1>16 DEF vars
<1> QED
  BY <1>1, <1>2, <1>3, <1>4, <1>5, <1>6, <1>7, <1>8, <1>9, <1>10, <1>11, <1>12, <1>13,
     <1>14, <1>15, <1>16, NextSplit

\* The weights of the functions in a register.
Eight(e) == 8 ^ e

LEMMA PowersOfEight ==
    ASSUME NEW e \in 0..9
    PROVE  Eight(e) \in Nat \ {0} /\ (e = 1 => Eight(e) = 8)
<1>0. CASE e = 0
  BY <1>0, SMT DEF Eight
<1>1. CASE e = 1
  BY <1>1, SMT DEF Eight
<1>2. CASE e = 2
  BY <1>2, SMT DEF Eight
<1>3. CASE e = 3
  BY <1>3, SMT DEF Eight
<1>4. CASE e = 4
  BY <1>4, SMT DEF Eight
<1>5. CASE e = 5
  BY <1>5, SMT DEF Eight
<1>6. CASE e = 6
  BY <1>6, SMT DEF Eight
<1>7. CASE e = 7
  BY <1>7, SMT DEF Eight
<1>8. CASE e = 8
  BY <1>8, SMT DEF Eight
<1>9. CASE e = 9
  BY <1>9, SMT DEF Eight
<1> QED
  BY <1>0, <1>1, <1>2, <1>3, <1>4, <1>5, <1>6, <1>7, <1>8, <1>9

LEMMA PinsNext == PinsOK /\ DataOK /\ [Next]_vars => PinsOK'
<1> SUFFICES ASSUME PinsOK, DataOK, [Next]_vars PROVE PinsOK'
  OBVIOUS
<1> USE DEF PinsOK, Pins, sysfs, regs, locals
<1>1. CASE Weather
  BY <1>1 DEF Weather
<1>2. ASSUME NEW p \in Thermos \cup {"led"}, Export(p) PROVE PinsOK'
  BY <1>2 DEF Export
<1>3. ASSUME NEW p \in Thermos \cup {"led"}, Direction(p) PROVE PinsOK'
  BY <1>3 DEF Direction
<1>4. ASSUME NEW p \in Thermos, OpenI2c(p) \/ Read(p) \/ ReadFails(p) \/ Retry(p) PROVE PinsOK'
  BY <1>4 DEF OpenI2c, Read, ReadFails, Retry
<1>5. ASSUME NEW p \in Thermos, ThermoOpen(p) \/ ThermoClose(p) PROVE PinsOK'
  BY <1>5 DEF ThermoOpen, ThermoClose
<1>6. ASSUME NEW p \in Thermos, ThermoWrite(p) PROVE PinsOK'
  BY <1>6 DEF ThermoWrite
<1>7. CASE Page \/ LedOpen \/ LedWriteFails \/ LedRetry
  BY <1>7 DEF Page, LedOpen, LedWriteFails, LedRetry
<1>8. CASE LedWrite
  BY <1>8 DEF LedWrite
<1>9. CASE LedToggle
  BY <1>9 DEF LedToggle
<1>10. CASE SetOutput
  <2>1. ASSUME NEW q \in Pins PROVE Function(FselWord(20), q) \in 0..7
    <3>1. FselWord(20) = 1
      BY DEF FselWord
    <3>2. q % 10 \in 0..9
      BY <2>1
    <3>3. (1 \div Eight(q % 10)) % 8 \in 0..7
      BY <3>2, PowersOfEight
    <3> QED
      BY <3>1, <3>3 DEF Function, Eight
  <2> QED
    BY <1>10, <2>1 DEF SetOutput
<1>11. CASE Bit
  BY <1>11 DEF Bit
<1>12. CASE DriverLoad
  BY <1>12 DEF DriverLoad
<1>13. CASE DriverWrite \/ DriverUnload
  BY <1>13 DEF DriverWrite, DriverUnload
<1>14. CASE UNCHANGED vars
  BY <1>14 DEF vars
<1> QED
  BY <1>1, <1>2, <1>3, <1>4, <1>5, <1>6, <1>7, <1>8, <1>9, <1>10, <1>11, <1>12, <1>13,
     <1>14, NextSplit

LEMMA FlagsNext == ControlOK /\ FlagsOK /\ [Next]_vars => FlagsOK'
<1> SUFFICES ASSUME ControlOK, FlagsOK, [Next]_vars PROVE FlagsOK'
  OBVIOUS
<1> USE DEF FlagsOK, sysfs
<1>1. CASE Weather
  BY <1>1 DEF Weather
<1>2. ASSUME NEW p \in Thermos \cup {"led"}, Export(p) \/ Direction(p) PROVE FlagsOK'
  BY <1>2 DEF Export, Direction
<1>3. ASSUME NEW p \in Thermos, OpenI2c(p) \/ Read(p) \/ ReadFails(p) \/ Retry(p) PROVE FlagsOK'
  BY <1>3 DEF OpenI2c, Read, ReadFails, Retry
<1>4. ASSUME NEW p \in Thermos, ThermoOpen(p) \/ ThermoWrite(p) \/ ThermoClose(p) PROVE FlagsOK'
  BY <1>4 DEF ThermoOpen, ThermoWrite, ThermoClose
<1>5. CASE Page \/ LedOpen \/ LedWriteFails
  BY <1>5 DEF Page, LedOpen, LedWriteFails
<1>6. CASE LedWrite \/ LedToggle \/ LedRetry
  BY <1>6 DEF LedWrite, LedToggle, LedRetry
<1>7. CASE SetOutput \/ Bit
  BY <1>7 DEF SetOutput, Bit
<1>8. CASE DriverLoad \/ DriverWrite \/ DriverUnload
  BY <1>8 DEF DriverLoad, DriverWrite, DriverUnload, ControlOK
<1>9. CASE UNCHANGED vars
  BY <1>9 DEF vars
<1> QED
  BY <1>1, <1>2, <1>3, <1>4, <1>5, <1>6, <1>7, <1>8, <1>9, NextSplit

LEMMA DataNext == ControlOK /\ DataOK /\ [Next]_vars => DataOK'
<1> SUFFICES ASSUME ControlOK, DataOK, [Next]_vars PROVE DataOK'
  OBVIOUS
<1> USE BoundsAssumption
        DEF DataOK, ControlOK, Move, Works, Fails, OpenValue, Programs, Thermos, weather, locals
<1>1. CASE Weather
  BY <1>1 DEF Weather
<1>2. ASSUME NEW p \in Thermos \cup {"led"}, Export(p) \/ Direction(p) PROVE DataOK'
  BY <1>2 DEF Export, Direction
<1>3. ASSUME NEW p \in Thermos, OpenI2c(p) \/ ReadFails(p) \/ Retry(p) PROVE DataOK'
  BY <1>3 DEF OpenI2c, ReadFails, Retry
<1>4. ASSUME NEW p \in Thermos, Read(p) PROVE DataOK'
  <2>1. Byte(temp) \in 0..255
    BY TempsAssumption DEF Byte
  <2> QED
    BY <1>4, <2>1 DEF Read
<1>5. ASSUME NEW p \in Thermos, ThermoOpen(p) \/ ThermoWrite(p) \/ ThermoClose(p) PROVE DataOK'
  BY <1>5 DEF ThermoOpen, ThermoWrite, ThermoClose
<1>6. CASE Page
  <2>1. \A r \in 0..255 : Ascii(r) \in (0..25) \X (0..9)
    BY DEF Ascii
  <2>2. page' \in (0..25) \X (0..9)
    <3>1. reading["web"] \in 0..255
      OBVIOUS
    <3> QED
      BY <1>6, <2>1, <3>1 DEF Page
  <2> QED
    BY <1>6, <2>2 DEF Page
<1>7. CASE LedOpen \/ LedWrite \/ LedWriteFails
  BY <1>7 DEF LedOpen, LedWrite, LedWriteFails
<1>8. CASE LedToggle \/ LedRetry
  BY <1>8 DEF LedToggle, LedRetry
<1>9. CASE SetOutput
  BY <1>9 DEF SetOutput
<1>10. CASE Bit
  BY <1>10 DEF Bit
<1>11. CASE DriverLoad \/ DriverWrite \/ DriverUnload
  BY <1>11 DEF DriverLoad, DriverWrite, DriverUnload
<1>12. CASE UNCHANGED vars
  BY <1>12 DEF vars
<1> QED
  BY <1>1, <1>2, <1>3, <1>4, <1>5, <1>6, <1>7, <1>8, <1>9, <1>10, <1>11, <1>12, NextSplit

LEMMA TypeNext == TypeInv /\ [Next]_vars => TypeInv'
  BY ControlNext, PinsNext, FlagsNext, DataNext DEF TypeInv

LEMMA Typed == FairSpec => []TypeInv
  BY TypeInit, TypeNext, PTL DEF FairSpec

\* Readings are bytes, the page has two digits (the first may be up to 25), and
\* the loop of mm.c counts to ten.
THEOREM TypeCorrect == FairSpec => []TypeOK
<1>1. TypeInv => TypeOK
  BY DEF TypeInv, TypeOK, ControlOK, PinsOK, FlagsOK, DataOK
<1> QED
  BY <1>1, Typed, PTL

-----------------------------------------------------------------------------
(* Open files.                                                              *)

\* What a program can have open where it stands.
Open(p) ==
    IF p = "led"
    THEN {"export", "direction"} \cup
         (IF pc[p] \in {"write", "toggle", "retry"} THEN {"value"} ELSE {})
    ELSE CASE pc[p] \in {"export", "direction", "top"} -> {}
           [] pc[p] \in {"read", "retry", "value"}     -> {"i2c"}
           [] OTHER                                    -> {"i2c", "value"}
FdsInv == \A p \in Thermos \cup {"led"} : fds[p] \subseteq Open(p)

LEMMA FdsInit == Init => FdsInv
  BY DEF Init, FdsInv, Thermos, Programs

LEMMA FdsNext == ControlOK /\ FdsInv /\ [Next]_vars => FdsInv'
<1> SUFFICES ASSUME ControlOK, FdsInv, [Next]_vars PROVE FdsInv'
  OBVIOUS
<1> USE DEF ControlOK, FdsInv, Open, Move, Opened, Closed, NotClosed, OpenValue,
            Programs, Thermos
<1>1. CASE Weather
  BY <1>1 DEF Weather
<1>2. ASSUME NEW p \in Thermos \cup {"led"}, Export(p) PROVE FdsInv'
  BY <1>2 DEF Export
<1>3. ASSUME NEW p \in Thermos \cup {"led"}, Direction(p) PROVE FdsInv'
  BY <1>3 DEF Direction
<1>4. ASSUME NEW p \in Thermos, OpenI2c(p) PROVE FdsInv'
  BY <1>4 DEF OpenI2c
<1>5. ASSUME NEW p \in Thermos, Read(p) \/ ReadFails(p) PROVE FdsInv'
  BY <1>5 DEF Read, ReadFails
<1>6. ASSUME NEW p \in Thermos, Retry(p) PROVE FdsInv'
  BY <1>6 DEF Retry
<1>7. ASSUME NEW p \in Thermos, ThermoOpen(p) PROVE FdsInv'
  BY <1>7 DEF ThermoOpen
<1>8. ASSUME NEW p \in Thermos, ThermoWrite(p) PROVE FdsInv'
  BY <1>8 DEF ThermoWrite
<1>9. ASSUME NEW p \in Thermos, ThermoClose(p) PROVE FdsInv'
  BY <1>9 DEF ThermoClose
<1>10. CASE Page
  BY <1>10 DEF Page
<1>11. CASE LedOpen
  BY <1>11 DEF LedOpen
<1>12. CASE LedWrite \/ LedWriteFails
  BY <1>12 DEF LedWrite, LedWriteFails
<1>13. CASE LedToggle \/ LedRetry
  BY <1>13 DEF LedToggle, LedRetry
<1>14. CASE SetOutput \/ Bit
  BY <1>14 DEF SetOutput, Bit
<1>15. CASE DriverLoad \/ DriverWrite \/ DriverUnload
  BY <1>15 DEF DriverLoad, DriverWrite, DriverUnload
<1>16. CASE UNCHANGED vars
  BY <1>16 DEF vars
<1> QED
  BY <1>1, <1>2, <1>3, <1>4, <1>5, <1>6, <1>7, <1>8, <1>9, <1>10, <1>11, <1>12, <1>13,
     <1>14, <1>15, <1>16, NextSplit

\* However often open, read and write fail, no loop collects open files.
THEOREM NoneLeaked == FairSpec => []NoLeak
<1>1. FdsInv => NoLeak
  BY DEF FdsInv, Open, NoLeak, Thermos
<1>2. TypeInv /\ FdsInv /\ [Next]_vars => FdsInv'
  BY FdsNext DEF TypeInv
<1> QED
  BY <1>1, <1>2, FdsInit, Typed, PTL DEF FairSpec

-----------------------------------------------------------------------------
(* Pins 20 and 21.                                                          *)

\* While the driver is loaded, its pin is an output but after a set_output that
\* came later, and while mm.c is in its loop then, it is not.
ShowInv ==
    pc["driver"] = "in" =>
        /\ mmAt \in {"bit", "done"} => pc["mm"] # "fsel" /\ fsel[21] = 1
        /\ mmAt = "done" => pc["mm"] = "done"
        /\ pc["mm"] = "fsel" => fsel[21] = 1
        /\ pc["mm"] = "bit" /\ mmAt = "fsel" => fsel[21] # 1
        /\ fsel[21] = 1 /\ mmAt # "bit" => latch[21] = written

LEMMA ShowInit == Init => ShowInv
  BY DEF Init, ShowInv, Programs, Thermos

LEMMA ShowNext == ControlOK /\ PinsOK /\ FlagsOK /\ ShowInv /\ [Next]_vars => ShowInv'
<1> SUFFICES ASSUME ControlOK, PinsOK, FlagsOK, ShowInv, [Next]_vars PROVE ShowInv'
  OBVIOUS
<1> USE DEF ControlOK, PinsOK, FlagsOK, ShowInv, Move, Programs, Thermos, Pins, regs, locals
<1>1. CASE Weather
  BY <1>1 DEF Weather
<1>2. ASSUME NEW p \in Thermos \cup {"led"}, Export(p) PROVE ShowInv'
  BY <1>2 DEF Export
<1>3. ASSUME NEW p \in Thermos \cup {"led"}, Direction(p) PROVE ShowInv'
  BY <1>3 DEF Direction
<1>4. ASSUME NEW p \in Thermos, OpenI2c(p) \/ ReadFails(p) \/ Retry(p) PROVE ShowInv'
  BY <1>4 DEF OpenI2c, ReadFails, Retry
<1>5. ASSUME NEW p \in Thermos, Read(p) \/ ThermoOpen(p) \/ ThermoClose(p) PROVE ShowInv'
  BY <1>5 DEF Read, ThermoOpen, ThermoClose
<1>6. ASSUME NEW p \in Thermos, ThermoWrite(p) PROVE ShowInv'
  BY <1>6 DEF ThermoWrite
<1>7. CASE Page \/ LedOpen \/ LedWriteFails
  BY <1>7 DEF Page, LedOpen, LedWriteFails
<1>8. CASE LedWrite
  BY <1>8 DEF LedWrite
<1>9. CASE LedToggle \/ LedRetry
  BY <1>9 DEF LedToggle, LedRetry
<1>10. CASE SetOutput
  <2>1. fsel'[21] # 1
    <3>1. 21 \div 10 = 20 \div 10 /\ FselWord(20) = 1 /\ Function(1, 21) = (1 \div Eight(1)) % 8
      BY DEF FselWord, Function, Eight
    <3>2. Function(1, 21) = 0
      BY <3>1, PowersOfEight
    <3>3. fsel'[21] = Function(1, 21)
      BY <1>10, <3>1 DEF SetOutput
    <3> QED
      BY <3>2, <3>3
  <2> QED
    BY <1>10, <2>1 DEF SetOutput
<1>11. CASE Bit
  BY <1>11 DEF Bit
<1>12. CASE DriverLoad
  BY <1>12 DEF DriverLoad
<1>13. CASE DriverWrite
  BY <1>13 DEF DriverWrite
<1>14. CASE DriverUnload
  BY <1>14 DEF DriverUnload
<1>15. CASE UNCHANGED vars
  BY <1>15 DEF vars
<1> QED
  BY <1>1, <1>2, <1>3, <1>4, <1>5, <1>6, <1>7, <1>8, <1>9, <1>10, <1>11, <1>12, <1>13,
     <1>14, <1>15, NextSplit

\* The LED is dark against its driver's will only after a set_output of mm.c that
\* came after the load; driven, it shows what was written, whatever bits mm.c reads
\* back and raises, but for a load in the middle of its loop.
THEOREM DriverShown == FairSpec => []DriverShows
<1>1. TypeInv /\ ShowInv => DriverShows
  BY DEF TypeInv, ShowInv, DriverShows, FlagsOK, ControlOK
<1>2. TypeInv /\ ShowInv /\ [Next]_vars => ShowInv'
  BY ShowNext DEF TypeInv
<1> QED
  BY <1>1, <1>2, ShowInit, Typed, PTL DEF FairSpec

\* Whatever mm.c reads from the write-only registers, it lowers no pin but its
\* own: reg_clrbit writes one bit at the most.
THEOREM NoOtherLowered == FairSpec => LowersOnlyItsOwn
<1>1. TypeInv /\ [Next]_vars =>
        [pc["mm"] = "bit" /\ i' # i => \A q \in Pins \ {20} : latch'[q] >= latch[q]]_vars
  <2> SUFFICES ASSUME TypeInv, [Next]_vars, i' # i, NEW q \in Pins \ {20}
               PROVE  latch'[q] >= latch[q]
    OBVIOUS
  <2>1. Bit
    BY NextSplit DEF Weather, Export, Direction, OpenI2c, Read, ReadFails, Retry, ThermoOpen,
       ThermoWrite, ThermoClose, Page, LedOpen, LedWrite, LedWriteFails, LedToggle, LedRetry,
       SetOutput, DriverLoad, DriverWrite, DriverUnload, locals, vars
  <2>2. latch[q] \in {0, 1}
    BY DEF TypeInv, PinsOK
  <2>3. latch'[q] = 1 \/ latch'[q] = latch[q]
    BY <2>1 DEF Bit, ClrBit
  <2> QED
    BY <2>2, <2>3
<1> QED
  BY <1>1, Typed, PTL DEF FairSpec, LowersOnlyItsOwn

\* Alone on the board, led.c has written the digit that is not the next one.
BlinkInv ==
    running = {"led"} /\ blinked =>
        /\ pc["led"] \in {"top", "write", "toggle", "retry"}
        /\ latch[20] = IF pc["led"] = "toggle" THEN digit ELSE 1 - digit

LEMMA BlinkInit == Init => BlinkInv
  BY DEF Init, BlinkInv

LEMMA BlinkNext == ControlOK /\ PinsOK /\ BlinkInv /\ [Next]_vars => BlinkInv'
<1> SUFFICES ASSUME ControlOK, PinsOK, BlinkInv, [Next]_vars, (running = {"led"} /\ blinked)'
             PROVE  /\ pc'["led"] \in {"top", "write", "toggle", "retry"}
                    /\ latch'[20] = IF pc'["led"] = "toggle" THEN digit' ELSE 1 - digit'
  BY DEF BlinkInv
<1> USE DEF ControlOK, PinsOK, BlinkInv, Move, Programs, Thermos, Pins, regs, locals
<1>1. CASE Weather \/ UNCHANGED vars
  BY <1>1 DEF Weather, vars
<1>2. CASE Export("led")
  BY <1>2 DEF Export
<1>3. CASE Direction("led")
  BY <1>3 DEF Direction
<1>4. CASE LedOpen
  BY <1>4 DEF LedOpen
<1>5. CASE LedWrite
  BY <1>5 DEF LedWrite
<1>6. CASE LedWriteFails
  BY <1>6 DEF LedWriteFails
<1>7. CASE LedToggle
  BY <1>7 DEF LedToggle
<1>8. CASE LedRetry
  BY <1>8 DEF LedRetry
<1>9. ASSUME NEW p \in Programs \ {"led"} PROVE p \notin running'
  OBVIOUS
<1>10. ASSUME NEW p \in Thermos PROVE ~Thermo(p)
  BY <1>9, <1>10 DEF Thermo, Export, Direction, OpenI2c, Read, ReadFails, Retry, ThermoOpen,
     ThermoWrite, ThermoClose, Page
<1>11. ~Mm /\ ~DriverLoad /\ ~DriverWrite /\ ~DriverUnload
  BY <1>9 DEF Mm, SetOutput, Bit, DriverLoad, DriverWrite, DriverUnload
<1> QED
  BY <1>1, <1>2, <1>3, <1>4, <1>5, <1>6, <1>7, <1>8, <1>10, <1>11 DEF Next, Led

\* led.c alone alternates between 0 and 1, however many writes fail in between.
THEOREM LedAlternates == FairSpec => Alternates
<1>1. TypeInv /\ BlinkInv /\ [Next]_vars =>
        [running = {"led"} /\ blinked /\ pc["led"] = "write" /\ pc'["led"] = "toggle"
            => latch'[20] # latch[20]]_vars
  <2> SUFFICES ASSUME TypeInv, BlinkInv, Next, running = {"led"}, blinked,
                      pc["led"] = "write", pc'["led"] = "toggle"
               PROVE  latch'[20] # latch[20]
    BY DEF vars
  <2>1. LedWrite
    BY NextSplit DEF TypeInv, ControlOK, Programs, Thermos, Weather, Export, Direction,
       OpenI2c, Read, ReadFails, Retry, ThermoOpen, ThermoWrite, ThermoClose, Page, LedOpen,
       LedWriteFails, LedToggle, LedRetry, SetOutput, Bit, DriverLoad, DriverWrite,
       DriverUnload, Move
  <2>2. latch'[20] = digit /\ latch[20] = 1 - digit
    BY <2>1 DEF LedWrite, BlinkInv, TypeInv, PinsOK, Pins
  <2> QED
    BY <2>2 DEF TypeInv, PinsOK
<1>2. TypeInv /\ BlinkInv /\ [Next]_vars => BlinkInv'
  BY BlinkNext DEF TypeInv
<1> QED
  BY <1>1, <1>2, BlinkInit, Typed, PTL DEF FairSpec, Alternates
=============================================================================
