------------------------------- MODULE SpiReg -------------------------------
(***************************************************************************)
(* Which chip a minor number of lecture7/spi_drv.c stands for.  probe      *)
(* creates a node for each of the two channels of a chip and appends an    *)
(* entry for each to the table spi_devs; remove destroys nodes; reads and  *)
(* writes index the table with the minor of the file they were called on.  *)
(*                                                                         *)
(* Both chips sit on one SPI controller, and the kernel binds and unbinds  *)
(* the children of a device under its lock: no two probes or removes run   *)
(* at once.  Processes open, use and close nodes at any time.              *)
(***************************************************************************)
EXTENDS Integers

CONSTANTS
    Users,          \* processes that open the nodes
    NoFile          \* a user without an open file

Chips == {"DAC", "ADC"}
Channels == {0, 1}
Len4 == 4                       \* spi_devs_len
LdacMinor == 255

VARIABLES
    loaded,         \* the module is in the kernel
    bound,          \* the chips this driver is bound to
    busy,           \* the chip that probe runs for, or "none"
    step,           \* the next step of probe
    j, err,         \* locals of probe: the channel, whether line 280 failed
    cnt,            \* spi_devs_cnt
    devs,           \* spi_devs: the entries written so far
    nodes,          \* the nodes in /dev: [minor, chip, ch] as the name says
    file,           \* file[u]: the node that u has open
    refused,        \* history: a probe of the DAC failed and nothing was removed since
    overrun         \* history: an index outside spi_devs was written

probing == <<busy, step, j, err>>
table == <<cnt, devs>>
vars == <<loaded, bound, probing, table, nodes, file, refused, overrun>>

Entry(chip, ch) == [chip |-> chip, ch |-> ch]
NodeOf(m, chip, ch) == [minor |-> m, chip |-> chip, ch |-> ch]

Init ==
    /\ loaded = FALSE /\ bound = {}
    /\ busy = "none" /\ step = "idle" /\ j = 0 /\ err = FALSE
    /\ cnt = 0
    /\ devs = [m \in {} |-> Entry("DAC", 0)]
    /\ nodes = {}
    /\ file = [u \in Users |-> NoFile]
    /\ refused = FALSE /\ overrun = FALSE

\* What a write past the table does to the kernel is not modelled: nothing
\* happens after it.
Alive == loaded /\ ~overrun

\* spi_drv_init: the statics of a fresh module.  Registering the two drivers
\* probes the chips that are present (Probe).  Bound: nodes that outlived their
\* class, left by a refused DAC, are not followed into the next load.
Load ==
    /\ ~loaded /\ nodes = {}
    /\ loaded' = TRUE
    /\ cnt' = 0
    /\ devs' = [m \in {} |-> Entry("DAC", 0)]
    /\ UNCHANGED <<bound, probing, nodes, file, refused, overrun>>

-----------------------------------------------------------------------------
(* spi_drv_probe.                                                           *)

\* The check of the room in the table: a chip that is refused changes nothing.
TooMany == cnt > Len4

Probe(chip) ==
    /\ Alive /\ busy = "none" /\ chip \notin bound
    /\ ~TooMany
    /\ busy' = chip
    /\ step' = IF chip = "DAC" THEN "ldac" ELSE "node"
    /\ j' = 0 /\ err' = FALSE
    /\ UNCHANGED <<loaded, bound, table, nodes, file, refused, overrun>>

Goes(from, to) ==
    /\ Alive /\ busy # "none" /\ step = from
    /\ step' = to
    /\ UNCHANGED <<loaded, file>>

\* device_create: its failure is not acted upon.  It always fails for a minor or
\* a name that exists.
Create(n) ==
    \/ /\ \A o \in nodes : o.minor # n.minor /\ <<o.chip, o.ch>> # <<n.chip, n.ch>>
       /\ nodes' = nodes \cup {n}
    \/ UNCHANGED nodes

\* The DAC's LDAC line: the result of gpio_request is overwritten by that of
\* gpio_direction_output, which is kept to the end.  (The gpio: Board.)
Ldac ==
    /\ Goes("ldac", "node")
    /\ err' \in BOOLEAN
    /\ Create(NodeOf(LdacMinor, "LDAC", 0))
    /\ UNCHANGED <<bound, busy, j, table, refused, overrun>>

\* The node of channel j can be opened from here on ...
Node ==
    /\ Goes("node", "entry")
    /\ Create(NodeOf(cnt, busy, j))
    /\ UNCHANGED <<bound, busy, j, err, table, refused, overrun>>

\* Mutant: the channel is the index in the table.
FilledByIndex == Entry(busy, cnt)

Filled == Entry(busy, j)

\* ... and its entry is there from here on.
Fill ==
    /\ Goes("entry", IF j = 1 THEN "end" ELSE "node")
    /\ devs' = [m \in DOMAIN devs \cup {cnt} |-> IF m = cnt THEN Filled ELSE devs[m]]
    /\ cnt' = cnt + 1
    /\ overrun' = (cnt >= Len4)
    /\ j' = j + 1
    /\ UNCHANGED <<bound, busy, err, nodes, refused>>

\* return err: the chip is not bound if line 280 failed, and its nodes stay.
End ==
    /\ Goes("end", "idle")
    /\ busy' = "none"
    /\ bound' = IF err THEN bound ELSE bound \cup {busy}
    /\ refused' = (refused \/ err)
    /\ UNCHANGED <<j, err, table, nodes, overrun>>

-----------------------------------------------------------------------------
\* Mutant: the nodes of the first two minors.
DestroyedFirst == {n \in nodes : n.minor \in {0, 1, LdacMinor}}

\* spi_drv_remove: every minor up to spi_devs_cnt, and the LDAC node.
Destroyed == {n \in nodes : n.minor \in (0..cnt) \cup {LdacMinor}}

\* Mutant: it gives the two entries back.
RemoveCountsBack(chip) ==
    /\ Alive /\ busy = "none" /\ chip \in bound
    /\ bound' = bound \ {chip}
    /\ nodes' = nodes \ Destroyed
    /\ refused' = FALSE
    /\ cnt' = cnt - 2 /\ devs' = [m \in 0..(cnt - 3) |-> devs[m]]
    /\ UNCHANGED <<loaded, probing, file, overrun>>

Remove(chip) ==
    /\ Alive /\ busy = "none" /\ chip \in bound
    /\ bound' = bound \ {chip}
    /\ nodes' = nodes \ Destroyed
    /\ refused' = FALSE
    /\ UNCHANGED <<loaded, probing, table, file, overrun>>

\* spi_drv_exit: unregistering the drivers removes the chips that are bound.
\* Nobody has a file open then: the module has an owner.
Exit ==
    /\ Alive /\ busy = "none"
    /\ \A u \in Users : file[u] = NoFile
    /\ loaded' = FALSE /\ bound' = {}
    /\ nodes' = IF bound = {} THEN nodes ELSE nodes \ Destroyed
    /\ refused' = (refused /\ bound = {})
    /\ UNCHANGED <<probing, table, file, overrun>>

\* gpio_open and gpio_release only log.
Open(u) ==
    /\ Alive
    /\ file[u] = NoFile
    /\ \E n \in nodes : file' = [file EXCEPT ![u] = n]
    /\ UNCHANGED <<loaded, bound, probing, table, nodes, refused, overrun>>

Close(u) ==
    /\ Alive
    /\ file[u] # NoFile
    /\ file' = [file EXCEPT ![u] = NoFile]
    /\ UNCHANGED <<loaded, bound, probing, table, nodes, refused, overrun>>

Next ==
    \/ Load \/ Exit
    \/ \E chip \in Chips : Probe(chip) \/ Remove(chip)
    \/ Ldac \/ Node \/ Fill \/ End
    \/ \E u \in Users : Open(u) \/ Close(u)

Spec == Init /\ [][Next]_vars

-----------------------------------------------------------------------------
Handles == (nodes \cup {file[u] : u \in Users}) \ {NoFile}

NodeNames == [minor : Nat, chip : Chips \cup {"LDAC"}, ch : Channels]
Steps == {"idle", "ldac", "node", "entry", "end"}

TypeOK ==
    /\ loaded \in BOOLEAN /\ err \in BOOLEAN /\ refused \in BOOLEAN /\ overrun \in BOOLEAN
    /\ bound \subseteq Chips
    /\ busy \in Chips \cup {"none"} /\ step \in Steps /\ j \in 0..2
    /\ cnt \in Nat
    /\ DOMAIN devs = 0..(cnt - 1)
    /\ \A m \in DOMAIN devs : devs[m] \in [chip : Chips, ch : Channels]
    /\ nodes \subseteq NodeNames
    /\ file \in [Users -> NodeNames \cup {NoFile}]

\* The node that probe has published without having filled its entry.
Early(n) == step = "entry" /\ n = NodeOf(cnt, busy, j)

\* A node, and a file that is open on it, stands for the chip and channel its
\* name says, whatever was bound, unbound and refused since it was opened: the
\* table only grows, and a minor is never used for a second entry (290).  The
\* exceptions are the LDAC node, which has no entry, and the node that probe is
\* about to fill the entry of (291 to 302): a call on it finds none.
HandlesKeepChip ==
    ~overrun => \A n \in Handles : n.minor # LdacMinor /\ ~Early(n) =>
        /\ n.minor \in DOMAIN devs
        /\ devs[n.minor] = Entry(n.chip, n.ch)

\* A chip that is not bound, and not just being bound, has no node left (318):
\* remove reaches every node that its probe made, wherever the count was then.
\* The exception is a DAC whose probe returned the error of line 280, until the
\* next remove.
NoOrphanNode ==
    \A n \in nodes :
        LET chip == IF n.chip = "LDAC" THEN "DAC" ELSE n.chip
        IN  chip \in bound \/ chip = busy \/ (chip = "DAC" /\ refused)

(* What comments of the code say, and the code does not do.                 *)

\* Lines 264-265: "Check we are not creating more devices than we have space
\* for".
RoomForAll == ~overrun

\* Line 320: remove destroys the "devices created in probe()" of its chip.
OwnNodesOnly ==
    [][\A chip \in bound \ bound' : loaded' =>
        \A n \in nodes \ nodes' : n.chip = chip \/ (n.chip = "LDAC" /\ chip = "DAC")]_vars
=============================================================================
