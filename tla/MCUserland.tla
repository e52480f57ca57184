----------------------------- MODULE MCUserland -----------------------------
(* Instances of Userland for TLC.                                           *)
EXTENDS Userland

\* Two thermometers; one and mm.c; led.c alone; mm.c and the LED driver.
Meetings == {{"lm75", "web"}, {"web", "mm"}, {"led"}, {"mm", "driver"}}

\* Frost, and the two sides of the threshold.
Days == {-3, 29, 30}

\* All bits are 0, or 1, or those of the pin of mm.c and of another's.
Reads == {{}, {16, 20}, Pins}
=============================================================================
