------------------------------ MODULE SpiData ------------------------------
(***************************************************************************)
(* The data path of lecture7/spi_drv.c: writes to the two channels of the  *)
(* DAC and reads from the two channels of the ADC, by processes that share *)
(* spi_devs[minor].value, the LDAC line, the bus and the static result of  *)
(* spi_drv_read.  Minors 0 and 1 are the channels of the DAC, 2 and 3      *)
(* those of the ADC (the order of spi_drv_init, see SpiReg).               *)
(*                                                                         *)
(* The chips are external: a MCP4802 keeps what it is sent in an input     *)
(* register per channel and copies both to its outputs while LDAC is low;  *)
(* a MCP3202 answers with a conversion of the channel asked for.           *)
(***************************************************************************)
EXTENDS Integers

CONSTANTS
    Threads,        \* the processes
    Opens,          \* who has what open: functions from Threads to minors
    Values,         \* the numbers that are written: any int, uninitialised if the
                    \* text is no number (144)
    MaxErr,         \* bound: failed transfers
    MaxConv         \* bound: conversions

ASSUME ValuesAssumption == Values \subseteq Int
ASSUME OpensAssumption == Opens \subseteq [Threads -> 0..3]
ASSUME BoundsAssumption == MaxErr \in Nat /\ MaxConv \in Nat

Channels == {0, 1}
NoSample == [ch |-> 0, id |-> 0]        \* result before the first conversion

VARIABLES
    file,           \* file[t]: the minor t has open, from now on
    pc,             \* pc[t]
    arg,            \* arg[t]: the number t writes, or wrote last
    value,          \* value[m]: spi_devs[m].value
    copy,           \* copy[t]: the value in write_to_DAC's copy of the struct
    inreg, outreg,  \* the DAC's input registers and outputs
    ldac,           \* the level of LDAC
    result,         \* the static variable of spi_drv_read
    data,           \* data[t]: the conversion in t's receive buffer
    got,            \* got[t]: what t's last read returned
    old,            \* history: old[t], conversions over and done when t's read began
    failed,         \* history: failed[t], the transfer of t's last call did
    nErr, nConv     \* history: failed transfers, conversions

dac == <<value, copy, inreg, outreg, ldac>>
adc == <<result, data, got, old>>
vars == <<file, pc, arg, dac, adc, failed, nErr, nConv>>

Writers == {t \in Threads : file[t] \in {0, 1}}
Readers == Threads \ Writers
Channel(m) == m % 2                     \* bit 7 of spi_devs[m].channel

Init ==
    /\ file \in Opens
    /\ pc = [t \in Threads |-> "idle"]
    /\ arg = [t \in Threads |-> 0]
    /\ value = [m \in Channels |-> 0]
    /\ copy = [t \in Threads |-> 0]
    /\ inreg = [c \in Channels |-> 0] /\ outreg = inreg
    /\ ldac = 1                         \* probe sets it high
    /\ result = NoSample
    /\ data = [t \in Threads |-> NoSample]
    /\ got = [t \in Threads |-> NoSample]
    /\ old = [t \in Threads |-> {}]
    /\ failed = [t \in Threads |-> FALSE]
    /\ nErr = 0 /\ nConv = 0

Move(t, from, to) ==
    /\ pc[t] = from
    /\ pc' = [pc EXCEPT ![t] = to]

\* spi_sync fails.
Error(t) ==
    /\ nErr < MaxErr
    /\ nErr' = nErr + 1
    /\ failed' = [failed EXCEPT ![t] = TRUE]

-----------------------------------------------------------------------------
(* spi_drv_write.                                                           *)

WCall(t) ==
    /\ Move(t, "idle", "store")
    /\ \E v \in Values : arg' = [arg EXCEPT ![t] = v]
    /\ failed' = [failed EXCEPT ![t] = FALSE]
    /\ UNCHANGED <<file, dac, adc, nErr, nConv>>

\* The division of C, towards 0.
Div16(v) == IF v >= 0 THEN v \div 16 ELSE -((-v) \div 16)

\* Mutant: twelve bits in an eight bit DAC.
WStoreWhole(t) ==
    /\ Move(t, "store", "copy")
    /\ value' = [value EXCEPT ![file[t]] = arg[t]]
    /\ UNCHANGED <<file, arg, copy, inreg, outreg, ldac, adc, failed, nErr, nConv>>

\* spi_devs[minor].value = value / 16
WStore(t) ==
    /\ Move(t, "store", "copy")
    /\ value' = [value EXCEPT ![file[t]] = Div16(arg[t])]
    /\ UNCHANGED <<file, arg, copy, inreg, outreg, ldac, adc, failed, nErr, nConv>>

\* The struct is passed by value.
WCopy(t) ==
    /\ Move(t, "copy", "send")
    /\ copy' = [copy EXCEPT ![t] = value[file[t]]]
    /\ UNCHANGED <<file, arg, value, inreg, outreg, ldac, adc, failed, nErr, nConv>>

\* Mutant: the value is not moved into place.
CmdUnshifted(v, c) == << c * 128 + 16, v % 256 >>

\* Mutant: no mask, so that bits above the eighth reach the channel.
CmdUnmasked(v, c) == << (c * 128 + 16 + v \div 16) % 256, (v * 16) % 256 >>

\* The two bytes of write_to_DAC: the channel in bit 7 of the first, 0x10
\* (output on), and the low eight bits of v in the middle, whatever int v is.
Cmd(v, c) == << c * 128 + 16 + (v % 256) \div 16, (v * 16) % 256 >>

\* What the chip makes of them.
CmdChannel(b) == b[1] \div 128
CmdOn(b) == (b[1] \div 16) % 2 = 1
CmdData(b) == (b[1] % 16) * 16 + b[2] \div 16

\* Mutant: LDAC is not pulsed.
WSendOnly(t) ==
    /\ inreg' = [inreg EXCEPT ![Channel(file[t])] = copy[t]]
    /\ outreg' = IF ldac = 0 THEN inreg' ELSE outreg
    /\ Move(t, "send", "done")
    /\ UNCHANGED <<file, arg, value, copy, ldac, adc, failed, nErr, nConv>>

WSend(t) ==
    /\ LET b == Cmd(copy[t], Channel(file[t]))
       IN  inreg' = [inreg EXCEPT ![CmdChannel(b)] = IF CmdOn(b) THEN CmdData(b) ELSE 0]
    /\ outreg' = IF ldac = 0 THEN inreg' ELSE outreg
    /\ Move(t, "send", "low")
    /\ UNCHANGED <<file, arg, value, copy, ldac, adc, failed, nErr, nConv>>

\* write_to_DAC returns -EFAULT and does not pulse LDAC; spi_drv_write does
\* not look at that.
WSendFails(t) ==
    /\ Move(t, "send", "done")
    /\ Error(t)
    /\ UNCHANGED <<file, arg, dac, adc, nConv>>

\* toggleLDAC.
WLow(t) ==
    /\ Move(t, "low", "high")
    /\ ldac' = 0
    /\ outreg' = inreg
    /\ UNCHANGED <<file, arg, value, copy, inreg, adc, failed, nErr, nConv>>

WHigh(t) ==
    /\ Move(t, "high", "done")
    /\ ldac' = 1
    /\ UNCHANGED <<file, arg, value, copy, inreg, outreg, adc, failed, nErr, nConv>>

\* return len, whatever happened.
Done(t) ==
    /\ Move(t, "done", "idle")
    /\ UNCHANGED <<file, arg, dac, adc, failed, nErr, nConv>>

Write(t) ==
    \/ WCall(t) \/ WStore(t) \/ WCopy(t) \/ WSend(t) \/ WSendFails(t)
    \/ WLow(t) \/ WHigh(t) \/ Done(t)

-----------------------------------------------------------------------------
(* spi_drv_read.                                                            *)

\* Reads that have a conversion and have not stored it yet.
Late == {u \in Readers : pc[u] = "result"}

RCall(t) ==
    /\ Move(t, "idle", "convert")
    /\ old' = [old EXCEPT ![t] = (0..nConv) \ {data[u].id : u \in Late}]
    /\ failed' = [failed EXCEPT ![t] = FALSE]
    /\ UNCHANGED <<file, arg, dac, result, data, got, nErr, nConv>>

\* Bit 6 of the second byte, (channel >> 1) & 0x40, selects the channel.
Select(c) == 128 + ((c * 128) \div 2) + 32
Selected(b) == (b \div 64) % 2

RConvert(t) ==
    /\ Move(t, "convert", "result")
    /\ nConv < MaxConv
    /\ nConv' = nConv + 1
    /\ data' = [data EXCEPT ![t] = [ch |-> Selected(Select(Channel(file[t]))),
                                    id |-> nConv']]
    /\ UNCHANGED <<file, arg, dac, result, got, old, failed, nErr>>

\* read_from_ADC returns -EFAULT and leaves result alone; spi_drv_read does
\* not look at that either.
RConvertFails(t) ==
    /\ Move(t, "convert", "print")
    /\ Error(t)
    /\ UNCHANGED <<file, arg, dac, adc, nConv>>

\* Mutant: result keeps its first conversion.
RKeep(t) ==
    /\ Move(t, "result", "print")
    /\ result' = IF result = NoSample THEN data[t] ELSE result
    /\ UNCHANGED <<file, arg, dac, data, got, old, failed, nErr, nConv>>

\* *value = temp
RResult(t) ==
    /\ Move(t, "result", "print")
    /\ result' = data[t]
    /\ UNCHANGED <<file, arg, dac, data, got, old, failed, nErr, nConv>>

\* snprintf reads result again.
RPrint(t) ==
    /\ Move(t, "print", "done")
    /\ got' = [got EXCEPT ![t] = result]
    /\ UNCHANGED <<file, arg, dac, result, data, old, failed, nErr, nConv>>

Read(t) ==
    \/ RCall(t) \/ RConvert(t) \/ RConvertFails(t) \/ RResult(t) \/ RPrint(t)
    \/ Done(t)

Next == \/ \E t \in Writers : Write(t)
        \/ \E t \in Readers : Read(t)

Spec == Init /\ [][Next]_vars

-----------------------------------------------------------------------------
Pcs == {"idle", "store", "copy", "send", "low", "high", "convert", "result",
        "print", "done"}
Sample == [ch : Channels, id : 0..MaxConv]
Sixteenths == {Div16(v) : v \in Values \cup {0}}

TypeOK ==
    /\ file \in Opens
    /\ pc \in [Threads -> Pcs]
    /\ arg \in [Threads -> Values \cup {0}]
    /\ value \in [Channels -> Sixteenths] /\ copy \in [Threads -> Sixteenths]
    /\ inreg \in [Channels -> 0..255] /\ outreg \in [Channels -> 0..255]
    /\ ldac \in {0, 1}
    /\ result \in Sample /\ data \in [Threads -> Sample] /\ got \in [Threads -> Sample]
    /\ old \in [Threads -> SUBSET (0..MaxConv)]
    /\ failed \in [Threads -> BOOLEAN]
    /\ nErr \in 0..MaxErr /\ nConv \in 0..MaxConv

\* toggleLDAC is not atomic, and one line latches both channels (417-426): still
\* no value is left in an input register.  An output that lags has a pulse of
\* LDAC coming, and LDAC is not left low.
NothingUnlatched ==
    /\ outreg # inreg => \E t \in Writers : pc[t] = "low"
    /\ ldac = 0 => \E t \in Writers : pc[t] = "high"

Alone(t) == \A u \in Threads \ {t} : file[u] # file[t]

\* For the only writer of a channel: when its write has returned and no transfer
\* failed, the output has the low eight bits of a sixteenth of what was written,
\* which are the upper eight of twelve bits (lines 150, 159, 386-387), whatever
\* the writers of the other channel do to LDAC.
WrittenIsOut ==
    \A t \in Writers : Alone(t) /\ pc[t] = "idle" /\ ~failed[t] =>
        outreg[Channel(file[t])] = Div16(arg[t]) % 256

\* A command reaches no channel but that of the file it was written to, and is not
\* taken for another command, though the number can be anything: negative, too
\* big, or the uninitialised one of line 144.
OtherChannelKept ==
    [][\A t \in Writers : pc[t] = "send" /\ pc'[t] # "send" =>
        LET c == Channel(file[t])
        IN  /\ inreg'[1 - c] = inreg[1 - c]
            /\ CmdOn(Cmd(copy[t], c))]_vars

\* A read whose transfer worked returns a conversion of a read that was not over
\* when it began: its own, or one of a read that overlaps it.  result is shared
\* by all readers (line 175), so no more can be said: the other read can be of
\* the other channel, and its conversion can be older than this call.
ReadCurrent ==
    \A t \in Readers : pc[t] = "done" /\ ~failed[t] => got[t].id \notin old[t]

\* "return length actually written", line 163: a write that returned is out, for
\* the only writer of a channel.
LengthWritten ==
    \A t \in Writers : Alone(t) /\ pc[t] = "idle" =>
        outreg[Channel(file[t])] = arg[t] \div 16
=============================================================================
