--------------------------- MODULE SpiReg_proofs ---------------------------
(***************************************************************************)
(* Proofs about SpiReg, for any set of processes that open the nodes.      *)
(***************************************************************************)
EXTENDS SpiReg, TLAPS

-----------------------------------------------------------------------------
(* Type correctness.  While probe has a channel left, it is one of the two. *)

ProbeInv ==
    /\ step \in {"node", "entry"} => j \in Channels
    /\ busy = "none" <=> step = "idle"
    /\ step = "ldac" => busy = "DAC" /\ j = 0
    /\ err /\ busy # "none" => busy = "DAC"

LEMMA TypeInit == Init => TypeOK /\ ProbeInv
<1> SUFFICES ASSUME Init PROVE TypeOK /\ ProbeInv
  OBVIOUS
<1>1. devs = [m \in {} |-> Entry("DAC", 0)] /\ DOMAIN devs = {} /\ 0..(cnt - 1) = {}
  BY DEF Init
<1>2. ProbeInv
  BY DEF Init, ProbeInv
<1>3. cnt \in Nat /\ j \in 0..2 /\ step \in Steps /\ file \in [Users -> NodeNames \cup {NoFile}]
  BY DEF Init, Steps
<1> QED
  BY <1>1, <1>2, <1>3 DEF Init, TypeOK

LEMMA TypeNext == TypeOK /\ ProbeInv /\ [Next]_vars => TypeOK' /\ ProbeInv'
<1> SUFFICES ASSUME TypeOK, ProbeInv, [Next]_vars PROVE TypeOK' /\ ProbeInv'
  OBVIOUS
<1> USE DEF TypeOK, ProbeInv, Chips, Channels, Steps, probing, table
<1>1. CASE Load
  <2>1. devs' = [m \in {} |-> Entry("DAC", 0)] /\ DOMAIN devs' = {} /\ 0..(cnt' - 1) = {}
    BY <1>1 DEF Load
  <2> QED
    BY <1>1, <2>1 DEF Load
<1>2. CASE Exit
  BY <1>2 DEF Exit
<1>3. ASSUME NEW chip \in Chips, Probe(chip) PROVE TypeOK' /\ ProbeInv'
  <2>1. /\ step' \in {"ldac", "node"} /\ (step' = "ldac" => chip = "DAC")
        /\ busy' = chip /\ chip # "none" /\ j' = 0 /\ err' = FALSE
    BY <1>3 DEF Probe
  <2>2. ProbeInv' /\ step' \in Steps /\ j' \in 0..2 /\ busy' \in Chips
    BY <2>1
  <2> QED
    BY <1>3, <2>1, <2>2 DEF Probe
<1>4. CASE Ldac
  <2>1. nodes' \subseteq NodeNames
    BY <1>4 DEF Ldac, Create, NodeOf, NodeNames, LdacMinor
  <2> QED
    BY <1>4, <2>1 DEF Ldac, Goes
<1>5. CASE Node
  <2>1. nodes' \subseteq NodeNames
    BY <1>5 DEF Node, Goes, Create, NodeOf, NodeNames
  <2> QED
    BY <1>5, <2>1 DEF Node, Goes
<1>6. CASE Fill
  <2>1. DOMAIN devs' = 0..(cnt' - 1)
    BY <1>6 DEF Fill
  <2>2. \A m \in DOMAIN devs' : devs'[m] \in [chip : Chips, ch : Channels]
    BY <1>6 DEF Fill, Goes, Filled, Entry
  <2>3. cnt' \in Nat /\ overrun' \in BOOLEAN /\ j' \in 0..2
    BY <1>6 DEF Fill, Goes
  <2>4. step' \in {"end", "node"} /\ ProbeInv'
    BY <1>6 DEF Fill, Goes
  <2> QED
    BY <1>6, <2>1, <2>2, <2>3, <2>4 DEF Fill, Goes
<1>7. CASE End
  BY <1>7 DEF End, Goes
<1>8. ASSUME NEW chip \in Chips, Remove(chip) PROVE TypeOK' /\ ProbeInv'
  BY <1>8 DEF Remove
<1>9. ASSUME NEW u \in Users, Open(u) \/ Close(u) PROVE TypeOK' /\ ProbeInv'
  <2>1. file' \in [Users -> NodeNames \cup {NoFile}]
    BY <1>9 DEF Open, Close
  <2>2. UNCHANGED <<loaded, bound, busy, step, j, err, cnt, devs, nodes, refused, overrun>>
    BY <1>9 DEF Open, Close
  <2> QED
    BY <2>1, <2>2
<1>10. CASE UNCHANGED vars
  BY <1>10 DEF vars
<1> QED
  BY <1>1, <1>2, <1>3, <1>4, <1>5, <1>6, <1>7, <1>8, <1>9, <1>10 DEF Next

LEMMA Typed == Spec => [](TypeOK /\ ProbeInv)
  BY TypeInit, TypeNext, PTL DEF Spec

\* The table is filled from 0 without a gap, each entry with a chip and one of its two
\* channels, and nodes have such names, over all probes and removes.
THEOREM TypeCorrect == Spec => []TypeOK
  BY Typed, PTL

-----------------------------------------------------------------------------
(* Nodes and files keep their chip.                                         *)

\* The table has what node n is called after, or will have it after the next step
\* of the probe that runs.
Stands(n) ==
    n.minor # LdacMinor => \/ /\ n.minor \in DOMAIN devs
                              /\ devs[n.minor] = Entry(n.chip, n.ch)
                           \/ Early(n)

\* Without the module no chip is bound and no file open; a node is left only of a
\* refused chip.
UnloadedInv ==
    ~loaded => bound = {} /\ busy = "none" /\ \A u \in Users : file[u] = NoFile

HandleInv ==
    /\ \A n \in nodes : Stands(n)
    /\ \A u \in Users : file[u] # NoFile => Stands(file[u])
    /\ NoOrphanNode
    /\ UnloadedInv

\* remove and exit run while no probe does, and then reach every node.
LEMMA AllDestroyed ==
    TypeOK /\ ProbeInv /\ HandleInv /\ busy = "none" => nodes \subseteq Destroyed
  BY DEF TypeOK, ProbeInv, HandleInv, Stands, Early, Destroyed

\* What has its entry, or gets it with this step, stands for its chip afterwards.
LEMMA FillStands ==
    ASSUME TypeOK, ProbeInv, Fill, NEW n, Stands(n)
    PROVE  Stands(n)'
<1>1. /\ cnt \notin DOMAIN devs /\ cnt \in DOMAIN devs'
      /\ devs'[cnt] = Entry(busy, j)
      /\ \A m \in DOMAIN devs : m \in DOMAIN devs' /\ devs'[m] = devs[m]
  BY DEF TypeOK, Fill, Filled
<1>2. CASE Early(n)
  BY <1>1, <1>2 DEF Early, NodeOf, Stands
<1>3. CASE ~Early(n)
  BY <1>1, <1>3 DEF Stands
<1> QED
  BY <1>2, <1>3

\* A step that leaves the table and the probe alone leaves this alone.
LEMMA SameStands ==
    ASSUME NEW n, devs' = devs, Stands(n), ~Early(n) \/ UNCHANGED <<cnt, probing>>
    PROVE  Stands(n)'
  BY DEF Stands, Early, probing

LEMMA HandleNext == TypeOK /\ ProbeInv /\ HandleInv /\ [Next]_vars => HandleInv'
<1> SUFFICES ASSUME TypeOK, ProbeInv, HandleInv, [Next]_vars PROVE HandleInv'
  OBVIOUS
<1> USE DEF HandleInv, NoOrphanNode, UnloadedInv, probing, table
<1>1. CASE Load
  BY <1>1 DEF Load
<1>2. CASE Exit
  <2>1. \A n : Stands(n) => Stands(n)'
    BY <1>2, SameStands DEF Exit
  <2>2. NoOrphanNode'
    BY <1>2, AllDestroyed DEF Exit
  <2> QED
    BY <1>2, <2>1, <2>2 DEF Exit
<1>3. ASSUME NEW chip \in Chips, Probe(chip) PROVE HandleInv'
  <2>1. \A n : Stands(n) => Stands(n)'
    BY <1>3, SameStands DEF Probe, Early, ProbeInv
  <2> QED
    BY <1>3, <2>1 DEF Probe, Alive, TypeOK, NodeNames, Chips
<1>4. CASE Ldac
  <2>1. \A n : Stands(n) => Stands(n)'
    BY <1>4, SameStands DEF Ldac, Goes, Early
  <2>2. Stands(NodeOf(LdacMinor, "LDAC", 0))'
    BY DEF Stands, NodeOf
  <2>3. \A n \in nodes' : n \in nodes \/ n = NodeOf(LdacMinor, "LDAC", 0)
    BY <1>4 DEF Ldac, Create
  <2>4. NoOrphanNode'
    BY <1>4, <2>3 DEF Ldac, Goes, NodeOf, ProbeInv
  <2> QED
    BY <1>4, <2>1, <2>2, <2>3, <2>4 DEF Ldac, Goes
<1>5. CASE Node
  <2>1. \A n : Stands(n) => Stands(n)'
    BY <1>5, SameStands DEF Node, Goes, Early
  <2>2. Stands(NodeOf(cnt, busy, j))'
    BY <1>5 DEF Stands, Early, Node, Goes
  <2>3. \A n \in nodes' : n \in nodes \/ n = NodeOf(cnt, busy, j)
    BY <1>5 DEF Node, Create
  <2>4. NoOrphanNode'
    BY <1>5, <2>3 DEF Node, Goes, NodeOf, TypeOK, Chips
  <2> QED
    BY <1>5, <2>1, <2>2, <2>3, <2>4 DEF Node, Goes
<1>6. CASE Fill
  BY <1>6, FillStands DEF Fill, Goes
<1>7. CASE End
  <2>1. \A n : Stands(n) => Stands(n)'
    BY <1>7, SameStands DEF End, Goes, Early
  <2>2. err => busy = "DAC"
    BY <1>7 DEF End, Goes, ProbeInv
  <2>3. NoOrphanNode'
    BY <1>7, <2>2 DEF End, Goes
  <2> QED
    BY <1>7, <2>1, <2>3 DEF End, Goes
<1>8. ASSUME NEW chip \in Chips, Remove(chip) PROVE HandleInv'
  <2>1. \A n : Stands(n) => Stands(n)'
    BY <1>8, SameStands DEF Remove
  <2> QED
    BY <1>8, <2>1, AllDestroyed DEF Remove, Alive
<1>9. ASSUME NEW u \in Users, Open(u) \/ Close(u) PROVE HandleInv'
  <2>1. \A n : Stands(n) => Stands(n)'
    BY <1>9, SameStands DEF Open, Close
  <2> QED
    BY <1>9, <2>1 DEF Open, Close, Alive, TypeOK
<1>10. CASE UNCHANGED vars
  <2>1. \A n : Stands(n) => Stands(n)'
    BY <1>10, SameStands DEF vars
  <2> QED
    BY <1>10, <2>1 DEF vars
<1> QED
  BY <1>1, <1>2, <1>3, <1>4, <1>5, <1>6, <1>7, <1>8, <1>9, <1>10 DEF Next

LEMMA Handled == Spec => []HandleInv
<1>1. Init => HandleInv
  BY DEF Init, HandleInv, NoOrphanNode, UnloadedInv, Stands
<1> QED
  BY <1>1, HandleNext, Typed, PTL DEF Spec

\* A node, and a file opened on it whenever, stands for the chip and channel of its
\* name once probe has filled its entry (302): the table only grows, each minor is
\* used for one entry (290), and a failed device_create leaves its minor unused.
THEOREM KeepsChip == Spec => []HandlesKeepChip
<1>1. HandleInv => HandlesKeepChip
  BY DEF HandleInv, HandlesKeepChip, Handles, Stands
<1> QED
  BY <1>1, Handled, PTL

\* remove reaches every node of its chip, wherever the count was when probe made
\* it (318): a node is left only of a chip that is bound or being bound, or of the
\* DAC after a probe that returned the error of line 280.
THEOREM NoneOrphaned == Spec => []NoOrphanNode
<1>1. HandleInv => NoOrphanNode
  BY DEF HandleInv
<1> QED
  BY <1>1, Handled, PTL
=============================================================================
