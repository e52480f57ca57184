----------------------------- MODULE EventLatch -----------------------------
(***************************************************************************)
(* What a driver that turns interrupts into blocking reads promises, with  *)
(* no queue, no flag and no counter: a read is served at most once per     *)
(* event and client, and every event is either covered by the report of a  *)
(* later read or dropped when somebody (re)opens or unloads the device.    *)
(*                                                                         *)
(* IsrCnt (lecture5/isrcnt/isr_cnt.c) is shown to implement this module.   *)
(***************************************************************************)
EXTENDS Naturals

CONSTANT Threads            \* the processes that call the driver

VARIABLES
    events,                 \* how many events (button edges) there were
    uncovered,              \* TRUE: an event is in no report yet
    served,                 \* served[t]: reads of t served by an event
    phase                   \* phase[t]: where t is in its current read

avars == <<events, uncovered, served, phase>>

Phases == {"idle", "waiting", "serving", "reported"}

AInit ==
    /\ events = 0
    /\ uncovered = FALSE
    /\ served = [t \in Threads |-> 0]
    /\ phase = [t \in Threads |-> "idle"]

Move(t, from, to) ==
    /\ phase[t] = from
    /\ phase' = [phase EXCEPT ![t] = to]

\* The interrupt fires.
Event ==
    /\ events' = events + 1
    /\ uncovered' = TRUE
    /\ UNCHANGED <<served, phase>>

\* An open, or the unloading of the module, forgets what is pending.
Drop ==
    /\ uncovered' = FALSE
    /\ UNCHANGED <<events, served, phase>>

\* A process blocks in read().
Call(t) ==
    /\ Move(t, "idle", "waiting")
    /\ UNCHANGED <<events, uncovered, served>>

\* An event lets it through: never more often than there were events.
Serve(t) ==
    /\ served[t] < events
    /\ Move(t, "waiting", "serving")
    /\ served' = [served EXCEPT ![t] = @ + 1]
    /\ UNCHANGED <<events, uncovered>>

\* A signal lets it through: such a read is backed by no event.
Interrupted(t) ==
    /\ Move(t, "waiting", "serving")
    /\ UNCHANGED <<events, uncovered, served>>

\* The event counter is taken into the report: all events so far are covered.
Report(t) ==
    /\ Move(t, "serving", "reported")
    /\ uncovered' = FALSE
    /\ UNCHANGED <<events, served>>

Return(t) ==
    /\ Move(t, "reported", "idle")
    /\ UNCHANGED <<events, uncovered, served>>

ANext ==
    \/ Event
    \/ Drop
    \/ \E t \in Threads : Call(t) \/ Serve(t) \/ Interrupted(t)
                             \/ Report(t) \/ Return(t)

ASpec == AInit /\ [][ANext]_avars
=============================================================================
