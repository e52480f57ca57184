--------------------------- MODULE SpiData_proofs ---------------------------
(***************************************************************************)
(* Proofs about SpiData, for any set of processes, whatever each of them   *)
(* has open, any numbers that are written, and any bounds.                 *)
(***************************************************************************)
EXTENDS SpiData, TLAPS

-----------------------------------------------------------------------------
(* The commands.  What the chip takes out of the two bytes is what           *)
(* write_to_DAC put in, for every int.                                       *)

LEMMA DivInt == ASSUME NEW v \in Int PROVE Div16(v) \in Int
  BY DEF Div16

LEMMA ByteType == ASSUME NEW v \in Int PROVE v % 256 \in 0..255
  OBVIOUS

LEMMA CmdIsOn == ASSUME NEW v \in Int, NEW c \in Channels PROVE CmdOn(Cmd(v, c))
  BY DEF CmdOn, Cmd, Channels

LEMMA CmdToChannel ==
    ASSUME NEW v \in Int, NEW c \in Channels PROVE CmdChannel(Cmd(v, c)) = c
  BY DEF CmdChannel, Cmd, Channels

LEMMA CmdHasData ==
    ASSUME NEW v \in Int, NEW c \in Channels PROVE CmdData(Cmd(v, c)) = v % 256
  BY DEF CmdData, Cmd, Channels

LEMMA SelectsChannel == ASSUME NEW c \in Channels PROVE Selected(Select(c)) = c
  BY DEF Selected, Select, Channels

-----------------------------------------------------------------------------
(* Type correctness.                                                        *)

LEMMA ZeroType == 0 \in Sixteenths /\ NoSample \in Sample
<1>1. Div16(0) = 0
  BY DEF Div16
<1>2. NoSample \in Sample
  BY BoundsAssumption DEF NoSample, Sample, Channels
<1> QED
  BY <1>1, <1>2 DEF Sixteenths

LEMMA SixteenthType ==
    /\ \A v \in Values \cup {0} : Div16(v) \in Sixteenths
    /\ Sixteenths \subseteq Int
  BY DivInt, ValuesAssumption DEF Sixteenths

LEMMA FileType ==
    ASSUME TypeOK, NEW t \in Threads
    PROVE  /\ file[t] \in 0..3 /\ Channel(file[t]) \in Channels
           /\ t \in Writers => file[t] \in Channels /\ Channel(file[t]) = file[t]
<1>1. file[t] \in 0..3
  BY OpensAssumption DEF TypeOK
<1>2. Channel(file[t]) \in Channels
  BY <1>1 DEF Channel, Channels
<1>3. t \in Writers => file[t] \in Channels /\ Channel(file[t]) = file[t]
  BY <1>1 DEF Writers, Channel, Channels
<1> QED
  BY <1>1, <1>2, <1>3

LEMMA TypeInit == Init => TypeOK
  BY ZeroType, BoundsAssumption DEF Init, TypeOK, Pcs

LEMMA TypeNext == TypeOK /\ [Next]_vars => TypeOK'
<1> SUFFICES ASSUME TypeOK, [Next]_vars PROVE TypeOK'
  OBVIOUS
<1> USE DEF TypeOK, Pcs, Move, dac, adc
<1>1. ASSUME NEW t \in Writers, WCall(t) PROVE TypeOK'
  BY <1>1 DEF WCall, Writers
<1>2. ASSUME NEW t \in Writers, WStore(t) PROVE TypeOK'
  BY <1>2, SixteenthType DEF WStore, Writers
<1>3. ASSUME NEW t \in Writers, WCopy(t) PROVE TypeOK'
  BY <1>3, FileType DEF WCopy, Writers
<1>4. ASSUME NEW t \in Writers, WSend(t) PROVE TypeOK'
  <2>1. inreg' = [inreg EXCEPT ![Channel(file[t])] = copy[t] % 256]
    BY <1>4, FileType, SixteenthType, CmdIsOn, CmdToChannel, CmdHasData DEF WSend, Writers
  <2>2. copy[t] % 256 \in 0..255
    <3>1. copy[t] \in Int
      BY SixteenthType DEF Writers
    <3> QED
      BY <3>1, ByteType
  <2>3. inreg' \in [Channels -> 0..255]
    BY <2>1, <2>2
  <2>4. outreg' \in [Channels -> 0..255]
    BY <1>4, <2>3 DEF WSend
  <2> QED
    BY <1>4, <2>3, <2>4 DEF WSend, Writers
<1>5. ASSUME NEW t \in Writers, WSendFails(t) PROVE TypeOK'
  BY <1>5, BoundsAssumption DEF WSendFails, Error, Writers
<1>6. ASSUME NEW t \in Writers, WLow(t) PROVE TypeOK'
  BY <1>6 DEF WLow, Writers
<1>7. ASSUME NEW t \in Writers, WHigh(t) PROVE TypeOK'
  BY <1>7 DEF WHigh, Writers
<1>8. ASSUME NEW t \in Threads, Done(t) PROVE TypeOK'
  BY <1>8 DEF Done
<1>9. ASSUME NEW t \in Readers, RCall(t) PROVE TypeOK'
  <2>1. (0..nConv) \subseteq 0..MaxConv
    BY BoundsAssumption
  <2> QED
    BY <1>9, <2>1 DEF RCall, Readers
<1>10. ASSUME NEW t \in Readers, RConvert(t) PROVE TypeOK'
  <2>1. nConv' \in 0..MaxConv
    BY <1>10, BoundsAssumption DEF RConvert
  <2>2. data' \in [Threads -> Sample]
    BY <1>10, <2>1, FileType, SelectsChannel DEF RConvert, Sample, Readers
  <2> QED
    BY <1>10, <2>1, <2>2 DEF RConvert, Readers
<1>11. ASSUME NEW t \in Readers, RConvertFails(t) PROVE TypeOK'
  BY <1>11, BoundsAssumption DEF RConvertFails, Error, Readers
<1>12. ASSUME NEW t \in Readers, RResult(t) PROVE TypeOK'
  BY <1>12 DEF RResult, Readers
<1>13. ASSUME NEW t \in Readers, RPrint(t) PROVE TypeOK'
  BY <1>13 DEF RPrint, Readers
<1>14. CASE UNCHANGED vars
  BY <1>14 DEF vars
<1> QED
  BY <1>1, <1>2, <1>3, <1>4, <1>5, <1>6, <1>7, <1>8, <1>9, <1>10, <1>11, <1>12, <1>13,
     <1>14 DEF Next, Write, Read, Writers, Readers

\* Registers keep eight bits, and the ids of conversions stay among those that were
\* made, whatever ints are written and however calls fail.
THEOREM TypeCorrect == Spec => []TypeOK
  BY TypeInit, TypeNext, PTL DEF Spec

\* What WSend does, with the command taken apart.
LEMMA SendStep ==
    ASSUME TypeOK, NEW t \in Writers, WSend(t)
    PROVE  /\ inreg' = [inreg EXCEPT ![file[t]] = copy[t] % 256]
           /\ file[t] \in Channels
           /\ outreg' = outreg \/ outreg' = inreg'
           /\ pc[t] = "send" /\ pc' = [pc EXCEPT ![t] = "low"]
           /\ UNCHANGED <<file, arg, value, copy, failed>>
  BY FileType, SixteenthType, CmdIsOn, CmdToChannel, CmdHasData
  DEF WSend, TypeOK, Writers, Move

\* A step is of one process, and the others keep what is theirs.
OthersRest(t) ==
    \A u \in Threads \ {t} :
        /\ pc'[u] = pc[u] /\ arg'[u] = arg[u] /\ copy'[u] = copy[u]
        /\ data'[u] = data[u] /\ got'[u] = got[u] /\ old'[u] = old[u]
        /\ failed'[u] = failed[u]

StepOf(t) ==
    /\ OthersRest(t)
    /\ (t \in Writers /\ Write(t)) \/ (t \in Readers /\ Read(t))

LEMMA NobodyElse ==
    ASSUME TypeOK, [Next]_vars
    PROVE  file' = file /\ (UNCHANGED vars \/ \E t \in Threads : StepOf(t))
<1> USE DEF TypeOK, Move, dac, adc, Error
<1>1. ASSUME NEW t \in Threads, Write(t) \/ Read(t) PROVE file' = file /\ OthersRest(t)
  BY <1>1 DEF Write, Read, WCall, WStore, WCopy, WSend, WSendFails, WLow, WHigh, Done,
              RCall, RConvert, RConvertFails, RResult, RPrint, OthersRest
<1>2. ASSUME NEW t \in Writers, Write(t) PROVE t \in Threads /\ file' = file /\ StepOf(t)
  BY <1>1, <1>2 DEF StepOf, Writers
<1>3. ASSUME NEW t \in Readers, Read(t) PROVE t \in Threads /\ file' = file /\ StepOf(t)
  BY <1>1, <1>3 DEF StepOf, Readers
<1>4. CASE UNCHANGED vars
  BY <1>4 DEF vars
<1> QED
  BY <1>2, <1>3, <1>4 DEF Next

-----------------------------------------------------------------------------
(* The LDAC line.                                                           *)

LEMMA LatchNext == TypeOK /\ NothingUnlatched /\ [Next]_vars => NothingUnlatched'
<1> SUFFICES ASSUME TypeOK, NothingUnlatched, [Next]_vars PROVE NothingUnlatched'
  OBVIOUS
<1> USE DEF NothingUnlatched, TypeOK, Move, dac, adc, Writers, Readers
<1>1. ASSUME NEW t \in Writers, WCall(t) PROVE NothingUnlatched'
  BY <1>1 DEF WCall
<1>2. ASSUME NEW t \in Writers, WStore(t) PROVE NothingUnlatched'
  BY <1>2 DEF WStore
<1>3. ASSUME NEW t \in Writers, WCopy(t) PROVE NothingUnlatched'
  BY <1>3 DEF WCopy
<1>4. ASSUME NEW t \in Writers, WSend(t) PROVE NothingUnlatched'
  BY <1>4 DEF WSend
<1>5. ASSUME NEW t \in Writers, WSendFails(t) PROVE NothingUnlatched'
  BY <1>5 DEF WSendFails
<1>6. ASSUME NEW t \in Writers, WLow(t) PROVE NothingUnlatched'
  BY <1>6 DEF WLow
<1>7. ASSUME NEW t \in Writers, WHigh(t) PROVE NothingUnlatched'
  BY <1>7 DEF WHigh
<1>8. ASSUME NEW t \in Threads, Done(t) PROVE NothingUnlatched'
  BY <1>8 DEF Done
<1>9. ASSUME NEW t \in Readers, RCall(t) PROVE NothingUnlatched'
  BY <1>9 DEF RCall
<1>10. ASSUME NEW t \in Readers, RConvert(t) PROVE NothingUnlatched'
  BY <1>10 DEF RConvert
<1>11. ASSUME NEW t \in Readers, RConvertFails(t) PROVE NothingUnlatched'
  BY <1>11 DEF RConvertFails
<1>12. ASSUME NEW t \in Readers, RResult(t) \/ RPrint(t) PROVE NothingUnlatched'
  BY <1>12 DEF RResult, RPrint
<1>13. CASE UNCHANGED vars
  BY <1>13 DEF vars
<1> QED
  BY <1>1, <1>2, <1>3, <1>4, <1>5, <1>6, <1>7, <1>8, <1>9, <1>10, <1>11, <1>12, <1>13
  DEF Next, Write, Read

\* An output that differs from its input register has a pulse of LDAC coming, and
\* LDAC is low only within one (417-426), for any number of writers.
THEOREM AllLatched == Spec => []NothingUnlatched
<1>1. Init => NothingUnlatched
  BY DEF Init, NothingUnlatched
<1> QED
  BY <1>1, LatchNext, TypeCorrect, PTL DEF Spec

-----------------------------------------------------------------------------
(* What was written is out.  The number is followed from arg to value, into *)
(* the copy of the struct, the input register and the output.               *)

Carried(t) ==
    /\ pc[t] = "copy" => value[file[t]] = Div16(arg[t])
    /\ pc[t] = "send" => copy[t] = Div16(arg[t])
    /\ pc[t] \in {"low", "high", "done", "idle"} =>
          inreg[file[t]] = Div16(arg[t]) % 256
    /\ pc[t] \in {"high", "done", "idle"} => outreg[file[t]] = inreg[file[t]]

WriteInv == \A t \in Writers : Alone(t) /\ ~failed[t] => Carried(t)

\* The step of t's own write.
LEMMA OwnWrite ==
    ASSUME TypeOK, NEW t \in Writers, ~failed[t] => Carried(t), Write(t), ~failed'[t]
    PROVE  Carried(t)'
<1> USE DEF Carried, TypeOK, Move, dac, adc, Writers
<1>1. CASE WCall(t)
  BY <1>1 DEF WCall
<1>2. CASE WStore(t)
  BY <1>2, FileType DEF WStore
<1>3. CASE WCopy(t)
  BY <1>3 DEF WCopy
<1>4. CASE WSend(t)
  BY <1>4, SendStep
<1>5. CASE WSendFails(t)
  BY <1>5 DEF WSendFails, Error
<1>6. CASE WLow(t)
  BY <1>6 DEF WLow
<1>7. CASE WHigh(t)
  BY <1>7 DEF WHigh
<1>8. CASE Done(t)
  BY <1>8 DEF Done
<1> QED
  BY <1>1, <1>2, <1>3, <1>4, <1>5, <1>6, <1>7, <1>8 DEF Write

\* A write to the other channel can only latch what is in t's register.
LEMMA OtherWrite ==
    ASSUME TypeOK, NEW t \in Writers, Carried(t),
           NEW u \in Writers, file[u] # file[t], Write(u)
    PROVE  Carried(t)'
<1> USE DEF Carried, TypeOK, Move, dac, adc, Writers
<1>1. CASE WCall(u) \/ WCopy(u) \/ WSendFails(u) \/ WHigh(u) \/ Done(u)
  BY <1>1 DEF WCall, WCopy, WSendFails, WHigh, Done
<1>2. CASE WStore(u)
  BY <1>2, FileType DEF WStore
<1>3. CASE WSend(u)
  <2>1. inreg'[file[t]] = inreg[file[t]]
    BY <1>3, SendStep, FileType
  <2> QED
    BY <1>3, <2>1, SendStep
<1>4. CASE WLow(u)
  BY <1>4, FileType DEF WLow
<1> QED
  BY <1>1, <1>2, <1>3, <1>4 DEF Write

LEMMA ReadsKeepDac ==
    ASSUME TypeOK, NEW u \in Threads, Read(u)
    PROVE  /\ UNCHANGED <<arg, dac>>
           /\ \A t \in Threads \ {u} : pc'[t] = pc[t]
  BY DEF Read, RCall, RConvert, RConvertFails, RResult, RPrint, Done, TypeOK, Move

LEMMA WriteNext == TypeOK /\ WriteInv /\ [Next]_vars => WriteInv'
<1> SUFFICES ASSUME TypeOK, WriteInv, [Next]_vars,
                    NEW t \in Writers, Alone(t), ~failed'[t]
             PROVE  Carried(t)'
  BY NobodyElse DEF WriteInv, Writers, Alone
<1>1. CASE UNCHANGED vars
  BY <1>1 DEF vars, dac, WriteInv, Carried
<1>2. ASSUME NEW u \in Threads, u # t, failed'[t] = failed[t],
             (u \in Writers /\ Write(u)) \/ (u \in Readers /\ Read(u))
      PROVE  Carried(t)'
  <2>1. Carried(t)
    BY <1>2 DEF WriteInv
  <2>2. CASE u \in Writers /\ Write(u)
    BY <1>2, <2>1, <2>2, OtherWrite DEF Alone
  <2>3. CASE u \in Readers /\ Read(u)
    <3>1. file' = file /\ pc'[t] = pc[t] /\ UNCHANGED <<arg, dac>>
      BY <1>2, <2>3, ReadsKeepDac, NobodyElse DEF Writers
    <3> QED
      BY <2>1, <3>1 DEF Carried, dac
  <2> QED
    BY <1>2, <2>2, <2>3
<1>3. CASE Write(t)
  BY <1>3, OwnWrite DEF WriteInv
<1>4. CASE ~UNCHANGED vars
  <2>1. PICK u \in Threads : StepOf(u)
    BY <1>4, NobodyElse
  <2>2. t \in Threads /\ t \notin Readers
    BY DEF Writers, Readers
  <2> QED
    BY <1>2, <1>3, <2>1, <2>2 DEF StepOf, OthersRest
<1> QED
  BY <1>1, <1>4

\* For the only writer of a channel: after a write that returned and did not fail
\* the output has the low eight bits of a sixteenth of the number, for every int,
\* any number of writers of the other channel, and any pulses of LDAC of theirs.
THEOREM WriteComesOut == Spec => []WrittenIsOut
<1>1. Init => WriteInv
  <2>1. Div16(0) % 256 = 0
    BY DEF Div16
  <2> QED
    BY <2>1 DEF Init, WriteInv, Carried, Writers, Channels
<1>2. TypeOK /\ WriteInv => WrittenIsOut
  BY FileType DEF WriteInv, Carried, WrittenIsOut, Writers
<1> QED
  BY <1>1, <1>2, WriteNext, TypeCorrect, PTL DEF Spec

-----------------------------------------------------------------------------
(* A command reaches its own channel.                                       *)

KeepsOther ==
    \A t \in Writers : pc[t] = "send" /\ pc'[t] # "send" =>
        LET c == Channel(file[t])
        IN  /\ inreg'[1 - c] = inreg[1 - c]
            /\ CmdOn(Cmd(copy[t], c))

LEMMA KeepsOtherStep == TypeOK /\ [Next]_vars => KeepsOther
<1> SUFFICES ASSUME TypeOK, [Next]_vars,
                    NEW t \in Writers, pc[t] = "send", pc'[t] # "send"
             PROVE  /\ inreg'[1 - file[t]] = inreg[1 - file[t]]
                    /\ CmdOn(Cmd(copy[t], file[t]))
  BY FileType DEF KeepsOther, Writers
<1>1. CmdOn(Cmd(copy[t], file[t]))
  BY CmdIsOn, FileType, SixteenthType DEF TypeOK, Writers
<1>2. WSend(t) \/ WSendFails(t)
  BY NobodyElse DEF StepOf, OthersRest, vars, Writers, Readers, Write, WCall, WStore, WCopy, WLow, WHigh, Done, Move
<1>3. inreg'[1 - file[t]] = inreg[1 - file[t]]
  BY <1>2, SendStep, FileType DEF TypeOK, WSendFails, dac, Channels
<1> QED
  BY <1>1, <1>3

\* A write never changes the input register of the other channel and is never taken
\* for a command that switches an output off (386-387), whatever int was written.
THEOREM ChannelsApart == Spec => OtherChannelKept
<1>1. TypeOK /\ [Next]_vars => [KeepsOther]_vars
  BY KeepsOtherStep
<1> QED
  BY <1>1, TypeCorrect, PTL DEF Spec, OtherChannelKept, KeepsOther

-----------------------------------------------------------------------------
(* What is read is current: a conversion that a read has not stored yet is  *)
(* not over and done for anybody, and neither is what then gets into result.*)

FreshInv ==
    /\ \A t \in Readers : old[t] \subseteq 0..nConv
    /\ \A t, u \in Readers : pc[u] = "result" => data[u].id \notin old[t]
    /\ \A t \in Readers : pc[t] = "print" /\ ~failed[t] => result.id \notin old[t]
    /\ ReadCurrent

LEMMA WritesKeepAdc ==
    ASSUME TypeOK, NEW u \in Threads, Write(u)
    PROVE  /\ UNCHANGED <<file, adc, nConv>>
           /\ \A t \in Threads \ {u} : pc'[t] = pc[t] /\ failed'[t] = failed[t]
  BY DEF Write, WCall, WStore, WCopy, WSend, WSendFails, WLow, WHigh, Done, TypeOK, Move,
         Error

LEMMA FreshNext == TypeOK /\ FreshInv /\ [Next]_vars => FreshInv'
<1> SUFFICES ASSUME TypeOK, FreshInv, [Next]_vars PROVE FreshInv'
  OBVIOUS
<1> USE DEF FreshInv, ReadCurrent, TypeOK, Move, dac, adc, Readers, Writers
<1>1. ASSUME NEW t \in Writers, Write(t) PROVE FreshInv'
  BY <1>1, WritesKeepAdc
<1>2. ASSUME NEW t \in Readers, RCall(t) PROVE FreshInv'
  BY <1>2 DEF RCall, Late
<1>3. ASSUME NEW t \in Readers, RConvert(t) PROVE FreshInv'
  <2>1. /\ pc[t] = "convert" /\ pc' = [pc EXCEPT ![t] = "result"]
        /\ nConv' = nConv + 1 /\ data'[t].id = nConv + 1
        /\ \A u \in Threads \ {t} : data'[u] = data[u]
        /\ UNCHANGED <<file, result, got, old, failed>>
    BY <1>3 DEF RConvert
  <2>2. \A u \in Readers : old[u] \subseteq 0..nConv'
    BY <2>1, BoundsAssumption
  <2>3. \A u \in Readers : data'[t].id \notin old[u]
    BY <2>1, BoundsAssumption
  <2> QED
    BY <2>1, <2>2, <2>3
<1>4. ASSUME NEW t \in Readers, RConvertFails(t) PROVE FreshInv'
  BY <1>4 DEF RConvertFails, Error
<1>5. ASSUME NEW t \in Readers, RResult(t) PROVE FreshInv'
  BY <1>5 DEF RResult
<1>6. ASSUME NEW t \in Readers, RPrint(t) PROVE FreshInv'
  BY <1>6 DEF RPrint
<1>7. ASSUME NEW t \in Readers, Done(t) PROVE FreshInv'
  BY <1>7 DEF Done
<1>8. CASE UNCHANGED vars
  BY <1>8 DEF vars
<1> QED
  BY <1>1, <1>2, <1>3, <1>4, <1>5, <1>6, <1>7, <1>8 DEF Next, Read

\* A read whose transfer worked returns its own conversion or one of a read that
\* overlaps it, never one that was over when it began, although all readers share
\* result and store and print it in any order (175).
THEOREM ReadsCurrent == Spec => []ReadCurrent
<1>1. Init => FreshInv
  BY DEF Init, FreshInv, ReadCurrent, Readers
<1>2. FreshInv => ReadCurrent
  BY DEF FreshInv
<1> QED
  BY <1>1, <1>2, FreshNext, TypeCorrect, PTL DEF Spec
=============================================================================
