----------------------------- MODULE MCSpiData -----------------------------
(* Instances of SpiData for TLC.                                            *)
EXTENDS SpiData

\* Two processes on one channel and one on the other, of the DAC or the ADC.
BusyOpens == {[a |-> 0, b |-> 0, c |-> 1], [a |-> 2, b |-> 2, c |-> 3]}

\* A sixteenth of 2079 is 129, with a bit in each half, and something is lost; -17
\* is divided towards 0; 32768 has a bit that would land on that of the channel.
Numbers == {2079, -17, 32768}
=============================================================================
