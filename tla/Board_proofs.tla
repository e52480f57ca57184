---------------------------- MODULE Board_proofs ----------------------------
(***************************************************************************)
(* What the tables of the repository's drivers forget and what they        *)
(* release out of order, and with the theorems of Ladders_proofs what that *)
(* makes of any board, whichever of the drivers it has.                    *)
(***************************************************************************)
EXTENDS Board, Ladders_proofs, SequenceTheorems

-----------------------------------------------------------------------------
(* The tables of the eight drivers whose length is fixed: what they forget, *)
(* what they release in order, and what they use at all.                    *)

Uses == [but |-> {"gpio12", "dev12_0", "but_cdev"},
         isr |-> {"gpio19", "dev12_0", "isr_cdev", "irq19"},
         simple |-> {"gpio12", "dev12_0", "simple_cdev", "irq12"},
         led |-> {"gpio21", "dev64_1", "led_cdev"},
         plat |-> {"region", "rhino_buttons_cls", "map", "plat_drv"},
         attr |-> {"region", "rhino_buttons_cls", "map", "plat_drv"},
         probe |-> {ProbeGpio[i] : i \in 1..Count} \cup Nodes,
         spi |-> {"region", "map", "spi_drv_class", "spi_drv_DAC", "spi_drv_ADC"},
         dac |-> {"gpio5"}]

\* What goes by number.
ByNumber == Gpios \cup Regions \cup BoardDynamic
            \cup {"button0", "button1", "button2", "button3", "button4"}

LEMMA ListsOne == \A a : \A x \in {a} : Lists(<<a>>, x)
<1> SUFFICES ASSUME NEW a, NEW x \in {a}
             PROVE  \E m \in 1..1 : <<a>>[m] = x
  BY DEF Lists
<1>1. <<a>>[1] = a
  OBVIOUS
<1> QED
  BY <1>1

LEMMA ListsTwo == \A a, b : \A x \in {a, b} : Lists(<<a, b>>, x)
<1> SUFFICES ASSUME NEW a, NEW b, NEW x \in {a, b}
             PROVE  \E m \in 1..2 : <<a, b>>[m] = x
  BY DEF Lists
<1>1. <<a, b>>[1] = a /\ <<a, b>>[2] = b
  OBVIOUS
<1> QED
  BY <1>1

LEMMA ListsThree == \A a, b, c : \A x \in {a, b, c} : Lists(<<a, b, c>>, x)
<1> SUFFICES ASSUME NEW a, NEW b, NEW c, NEW x \in {a, b, c}
             PROVE  \E m \in 1..3 : <<a, b, c>>[m] = x
  BY DEF Lists
<1>1. <<a, b, c>>[1] = a /\ <<a, b, c>>[2] = b /\ <<a, b, c>>[3] = c
  OBVIOUS
<1> QED
  BY <1>1

LEMMA ListsFour == \A a, b, c, d : \A x \in {a, b, c, d} : Lists(<<a, b, c, d>>, x)
<1> SUFFICES ASSUME NEW a, NEW b, NEW c, NEW d, NEW x \in {a, b, c, d}
             PROVE  \E m \in 1..4 : <<a, b, c, d>>[m] = x
  BY DEF Lists
<1>1. /\ <<a, b, c, d>>[1] = a /\ <<a, b, c, d>>[2] = b
      /\ <<a, b, c, d>>[3] = c /\ <<a, b, c, d>>[4] = d
  OBVIOUS
<1> QED
  BY <1>1

LEMMA ListsFive == \A a, b, c, d, e : \A x \in {a, b, c, d, e} : Lists(<<a, b, c, d, e>>, x)
<1> SUFFICES ASSUME NEW a, NEW b, NEW c, NEW d, NEW e, NEW x \in {a, b, c, d, e}
             PROVE  \E m \in 1..5 : <<a, b, c, d, e>>[m] = x
  BY DEF Lists
<1>1. /\ <<a, b, c, d, e>>[1] = a /\ <<a, b, c, d, e>>[2] = b
      /\ <<a, b, c, d, e>>[3] = c /\ <<a, b, c, d, e>>[4] = d
      /\ <<a, b, c, d, e>>[5] = e
  OBVIOUS
<1> QED
  BY <1>1

LEMMA ButTables ==
    ASSUME "but" \in Drivers
    PROVE  /\ Acq["but"] = ButAcq /\ Len(Acq["but"]) = 4 /\ Steps("but") = 1..4
           /\ Undo["but"] = ButUndo /\ Exits["but"] = ButExit
           /\ \A k \in 1..4 : ToLadder("but", k) <=> k \in 1..4
           /\ \A k \in 1..4 : Fault["but"][k] # "ignored"
           /\ \A k \in 1..4 : Fault["but"][k] # "silent"
<1>1. Acq["but"] = ButAcq /\ Undo["but"] = ButUndo /\ Exits["but"] = ButExit
  BY TablesAssumption DEF BoardAcq, BoardUndo, BoardExits
<1>2. Len(ButAcq) = 4
  BY DEF ButAcq
<1>3. Fault["but"] = Checked(ButAcq)
  BY TablesAssumption DEF BoardFault
<1>4. Len(Acq["but"]) = 4 /\ Steps("but") = 1..4
  BY <1>1, <1>2 DEF Steps
<1> QED
  BY <1>1, <1>2, <1>3, <1>4 DEF ToLadder, Checked

LEMMA ButForgets ==
    ASSUME "but" \in Drivers, NEW x, x # Nothing, Forgets("but", x)
    PROVE  "but" \in failed /\ x \in {}
<1>1. PICK j \in 1..4 :
        /\ ButAcq[j] = x
        /\ \/ ~Lists(ButExit, x)
           \/ "but" \in failed /\ \E k \in 1..4 : j < k /\ ~Lists(ButUndo[k], x)
  BY ButTables DEF Forgets
<1>2. Lists(ButExit, x)
  BY <1>1, ListsThree DEF ButExit, ButAcq
<1>3. \A k \in 1..4 : j < k /\ x \notin {} => Lists(ButUndo[k], x)
  BY <1>1, ListsOne, ListsTwo DEF ButUndo, ButAcq
<1> QED
  BY <1>1, <1>2, <1>3

LEMMA ButOrderly ==
    ASSUME "but" \in Drivers, NEW x \in ByNumber
    PROVE  OrderlyFor("but", x)
<1>1. Len(Acq["but"]) = 4
  BY ButTables
<1>2. Steps("but") = 1..4 /\ Len(Acq["but"]) + 1 = 5
  BY <1>1, ButTables
<1>3. /\ Got("but", 1, "gpio12") /\ Got("but", 3, "dev12_0")
      /\ Got("but", 4, "but_cdev")
  BY ButTables DEF Got, ButAcq
<1>4. OrderlyIn("but", 5, ButExit, x)
  BY <1>2, <1>3 DEF OrderlyIn, Freed, ButExit, ByNumber, Gpios, Regions,
     BoardDynamic
<1>5. ASSUME NEW k \in 1..4 PROVE OrderlyIn("but", k, ButUndo[k], x)
  BY <1>2, <1>3, <1>5 DEF OrderlyIn, Freed, ButUndo, ByNumber, Gpios, Regions,
     BoardDynamic
<1> QED
  BY ButTables, <1>2, <1>4, <1>5 DEF OrderlyFor

LEMMA ButUses ==
    ASSUME "but" \in Drivers, NEW x, x # Nothing, Wants("but", x) \/ Frees("but", x)
    PROVE  x \in Uses["but"]
<1>1. CASE Wants("but", x)
  BY ButTables, <1>1 DEF Wants, Uses, ButAcq
<1>2. ASSUME Lists(ButExit, x) PROVE x \in Uses["but"]
  BY <1>2 DEF Lists, Uses, ButExit
<1>3. ASSUME NEW k \in 1..4, Lists(ButUndo[k], x) PROVE x \in Uses["but"]
  BY <1>3 DEF Lists, Uses, ButUndo
<1> QED
  BY ButTables, <1>1, <1>2, <1>3 DEF Frees

LEMMA IsrTables ==
    ASSUME "isr" \in Drivers
    PROVE  /\ Acq["isr"] = IsrAcq /\ Len(Acq["isr"]) = 5 /\ Steps("isr") = 1..5
           /\ Undo["isr"] = IsrUndo /\ Exits["isr"] = IsrExit
           /\ \A k \in 1..5 : ToLadder("isr", k) <=> k \in 1..5
           /\ \A k \in 1..5 : Fault["isr"][k] # "ignored"
           /\ \A k \in 1..5 : Fault["isr"][k] # "silent"
<1>1. Acq["isr"] = IsrAcq /\ Undo["isr"] = IsrUndo /\ Exits["isr"] = IsrExit
  BY TablesAssumption DEF BoardAcq, BoardUndo, BoardExits
<1>2. Len(IsrAcq) = 5
  BY DEF IsrAcq
<1>3. Fault["isr"] = Checked(IsrAcq)
  BY TablesAssumption DEF BoardFault
<1>4. Len(Acq["isr"]) = 5 /\ Steps("isr") = 1..5
  BY <1>1, <1>2 DEF Steps
<1> QED
  BY <1>1, <1>2, <1>3, <1>4 DEF ToLadder, Checked

LEMMA IsrForgets ==
    ASSUME "isr" \in Drivers, NEW x, x # Nothing, Forgets("isr", x)
    PROVE  "isr" \in failed /\ x \in {"isr_cdev"}
<1>1. PICK j \in 1..5 :
        /\ IsrAcq[j] = x
        /\ \/ ~Lists(IsrExit, x)
           \/ "isr" \in failed /\ \E k \in 1..5 : j < k /\ ~Lists(IsrUndo[k], x)
  BY IsrTables DEF Forgets
<1>2. Lists(IsrExit, x)
  BY <1>1, ListsFour DEF IsrExit, IsrAcq
<1>3. \A k \in 1..5 : j < k /\ x \notin {"isr_cdev"} => Lists(IsrUndo[k], x)
  BY <1>1, ListsOne, ListsTwo DEF IsrUndo, IsrAcq
<1> QED
  BY <1>1, <1>2, <1>3

LEMMA IsrOrderly ==
    ASSUME "isr" \in Drivers, NEW x \in ByNumber
    PROVE  OrderlyFor("isr", x)
<1>1. Len(Acq["isr"]) = 5
  BY IsrTables
<1>2. Steps("isr") = 1..5 /\ Len(Acq["isr"]) + 1 = 6
  BY <1>1, IsrTables
<1>3. /\ Got("isr", 1, "gpio19") /\ Got("isr", 3, "dev12_0")
      /\ Got("isr", 4, "isr_cdev") /\ Got("isr", 5, "irq19")
  BY IsrTables DEF Got, IsrAcq
<1>4. OrderlyIn("isr", 6, IsrExit, x)
  BY <1>2, <1>3 DEF OrderlyIn, Freed, IsrExit, ByNumber, Gpios, Regions,
     BoardDynamic
<1>5. ASSUME NEW k \in 1..5 PROVE OrderlyIn("isr", k, IsrUndo[k], x)
  BY <1>2, <1>3, <1>5 DEF OrderlyIn, Freed, IsrUndo, ByNumber, Gpios, Regions,
     BoardDynamic
<1> QED
  BY IsrTables, <1>2, <1>4, <1>5 DEF OrderlyFor

LEMMA IsrUses ==
    ASSUME "isr" \in Drivers, NEW x, x # Nothing, Wants("isr", x) \/ Frees("isr", x)
    PROVE  x \in Uses["isr"]
<1>1. CASE Wants("isr", x)
  BY IsrTables, <1>1 DEF Wants, Uses, IsrAcq
<1>2. ASSUME Lists(IsrExit, x) PROVE x \in Uses["isr"]
  BY <1>2 DEF Lists, Uses, IsrExit
<1>3. ASSUME NEW k \in 1..5, Lists(IsrUndo[k], x) PROVE x \in Uses["isr"]
  BY <1>3 DEF Lists, Uses, IsrUndo
<1> QED
  BY IsrTables, <1>1, <1>2, <1>3 DEF Frees

LEMMA SimpleTables ==
    ASSUME "simple" \in Drivers
    PROVE  /\ Acq["simple"] = SimpleAcq /\ Len(Acq["simple"]) = 5 /\ Steps("simple") = 1..5
           /\ Undo["simple"] = SimpleUndo /\ Exits["simple"] = SimpleExit
           /\ \A k \in 1..5 : ToLadder("simple", k) <=> k \in 1..5
           /\ \A k \in 1..5 : Fault["simple"][k] # "ignored"
           /\ \A k \in 1..5 : Fault["simple"][k] # "silent"
<1>1. Acq["simple"] = SimpleAcq /\ Undo["simple"] = SimpleUndo /\ Exits["simple"] = SimpleExit
  BY TablesAssumption DEF BoardAcq, BoardUndo, BoardExits
<1>2. Len(SimpleAcq) = 5
  BY DEF SimpleAcq
<1>3. Fault["simple"] = Checked(SimpleAcq)
  BY TablesAssumption DEF BoardFault
<1>4. Len(Acq["simple"]) = 5 /\ Steps("simple") = 1..5
  BY <1>1, <1>2 DEF Steps
<1> QED
  BY <1>1, <1>2, <1>3, <1>4 DEF ToLadder, Checked

LEMMA SimpleForgets ==
    ASSUME "simple" \in Drivers, NEW x, x # Nothing, Forgets("simple", x)
    PROVE  "simple" \in failed /\ x \in {"simple_cdev"}
<1>1. PICK j \in 1..5 :
        /\ SimpleAcq[j] = x
        /\ \/ ~Lists(SimpleExit, x)
           \/ "simple" \in failed /\ \E k \in 1..5 : j < k /\ ~Lists(SimpleUndo[k], x)
  BY SimpleTables DEF Forgets
<1>2. Lists(SimpleExit, x)
  BY <1>1, ListsFour DEF SimpleExit, SimpleAcq
<1>3. \A k \in 1..5 : j < k /\ x \notin {"simple_cdev"} => Lists(SimpleUndo[k], x)
  BY <1>1, ListsOne, ListsTwo DEF SimpleUndo, SimpleAcq
<1> QED
  BY <1>1, <1>2, <1>3

LEMMA SimpleOrderly ==
    ASSUME "simple" \in Drivers, NEW x \in ByNumber
    PROVE  OrderlyFor("simple", x)
<1>1. Len(Acq["simple"]) = 5
  BY SimpleTables
<1>2. Steps("simple") = 1..5 /\ Len(Acq["simple"]) + 1 = 6
  BY <1>1, SimpleTables
<1>3. /\ Got("simple", 1, "gpio12") /\ Got("simple", 3, "dev12_0")
      /\ Got("simple", 4, "simple_cdev") /\ Got("simple", 5, "irq12")
  BY SimpleTables DEF Got, SimpleAcq
<1>4. OrderlyIn("simple", 6, SimpleExit, x)
  BY <1>2, <1>3 DEF OrderlyIn, Freed, SimpleExit, ByNumber, Gpios, Regions,
     BoardDynamic
<1>5. ASSUME NEW k \in 1..5 PROVE OrderlyIn("simple", k, SimpleUndo[k], x)
  BY <1>2, <1>3, <1>5 DEF OrderlyIn, Freed, SimpleUndo, ByNumber, Gpios, Regions,
     BoardDynamic
<1> QED
  BY SimpleTables, <1>2, <1>4, <1>5 DEF OrderlyFor

LEMMA SimpleUses ==
    ASSUME "simple" \in Drivers, NEW x, x # Nothing, Wants("simple", x) \/ Frees("simple", x)
    PROVE  x \in Uses["simple"]
<1>1. CASE Wants("simple", x)
  BY SimpleTables, <1>1 DEF Wants, Uses, SimpleAcq
<1>2. ASSUME Lists(SimpleExit, x) PROVE x \in Uses["simple"]
  BY <1>2 DEF Lists, Uses, SimpleExit
<1>3. ASSUME NEW k \in 1..5, Lists(SimpleUndo[k], x) PROVE x \in Uses["simple"]
  BY <1>3 DEF Lists, Uses, SimpleUndo
<1> QED
  BY SimpleTables, <1>1, <1>2, <1>3 DEF Frees

LEMMA LedTables ==
    ASSUME "led" \in Drivers
    PROVE  /\ Acq["led"] = LedAcq /\ Len(Acq["led"]) = 4 /\ Steps("led") = 1..4
           /\ Undo["led"] = LedUndo /\ Exits["led"] = LedExit
           /\ \A k \in 1..4 : ToLadder("led", k) <=> k \in 1..4
           /\ \A k \in 1..4 : Fault["led"][k] # "ignored"
           /\ \A k \in 1..4 : Fault["led"][k] # "silent"
<1>1. Acq["led"] = LedAcq /\ Undo["led"] = LedUndo /\ Exits["led"] = LedExit
  BY TablesAssumption DEF BoardAcq, BoardUndo, BoardExits
<1>2. Len(LedAcq) = 4
  BY DEF LedAcq
<1>3. Fault["led"] = Checked(LedAcq)
  BY TablesAssumption DEF BoardFault
<1>4. Len(Acq["led"]) = 4 /\ Steps("led") = 1..4
  BY <1>1, <1>2 DEF Steps
<1> QED
  BY <1>1, <1>2, <1>3, <1>4 DEF ToLadder, Checked

LEMMA LedForgets ==
    ASSUME "led" \in Drivers, NEW x, x # Nothing, Forgets("led", x)
    PROVE  "led" \in failed /\ x \in {"gpio21"}
<1>1. PICK j \in 1..4 :
        /\ LedAcq[j] = x
        /\ \/ ~Lists(LedExit, x)
           \/ "led" \in failed /\ \E k \in 1..4 : j < k /\ ~Lists(LedUndo[k], x)
  BY LedTables DEF Forgets
<1>2. Lists(LedExit, x)
  BY <1>1, ListsThree DEF LedExit, LedAcq
<1>3. \A k \in 1..4 : j < k /\ x \notin {"gpio21"} => Lists(LedUndo[k], x)
  BY <1>1, ListsOne, ListsTwo, ListsThree DEF LedUndo, LedAcq
<1> QED
  BY <1>1, <1>2, <1>3

LEMMA LedOrderly ==
    ASSUME "led" \in Drivers, NEW x \in ByNumber, x \notin {"gpio21", "dev64_1"}
    PROVE  OrderlyFor("led", x)
<1>1. Len(Acq["led"]) = 4
  BY LedTables
<1>2. Steps("led") = 1..4 /\ Len(Acq["led"]) + 1 = 5
  BY <1>1, LedTables
<1>3. /\ Got("led", 1, "gpio21") /\ Got("led", 3, "dev64_1")
      /\ Got("led", 4, "led_cdev")
  BY LedTables DEF Got, LedAcq
<1>4. OrderlyIn("led", 5, LedExit, x)
  BY <1>2, <1>3 DEF OrderlyIn, Freed, LedExit, ByNumber, Gpios, Regions,
     BoardDynamic
<1>5. ASSUME NEW k \in 1..4 PROVE OrderlyIn("led", k, LedUndo[k], x)
  BY <1>2, <1>3, <1>5 DEF OrderlyIn, Freed, LedUndo, ByNumber, Gpios, Regions,
     BoardDynamic
<1> QED
  BY LedTables, <1>2, <1>4, <1>5 DEF OrderlyFor

LEMMA LedUses ==
    ASSUME "led" \in Drivers, NEW x, x # Nothing, Wants("led", x) \/ Frees("led", x)
    PROVE  x \in Uses["led"]
<1>1. CASE Wants("led", x)
  BY LedTables, <1>1 DEF Wants, Uses, LedAcq
<1>2. ASSUME Lists(LedExit, x) PROVE x \in Uses["led"]
  BY <1>2 DEF Lists, Uses, LedExit
<1>3. ASSUME NEW k \in 1..4, Lists(LedUndo[k], x) PROVE x \in Uses["led"]
  BY <1>3 DEF Lists, Uses, LedUndo
<1> QED
  BY LedTables, <1>1, <1>2, <1>3 DEF Frees

LEMMA PlatTables ==
    ASSUME "plat" \in Drivers
    PROVE  /\ Acq["plat"] = PlatAcq /\ Len(Acq["plat"]) = 4 /\ Steps("plat") = 1..4
           /\ Undo["plat"] = PlatUndo /\ Exits["plat"] = PlatExit
           /\ \A k \in 1..4 : ToLadder("plat", k) <=> k \in {1, 3}
           /\ \A k \in {1, 3} : Fault["plat"][k] # "ignored"
           /\ \A k \in 1..4 : Fault["plat"][k] # "silent"
<1>1. Acq["plat"] = PlatAcq /\ Undo["plat"] = PlatUndo /\ Exits["plat"] = PlatExit
  BY TablesAssumption DEF BoardAcq, BoardUndo, BoardExits
<1>2. Len(PlatAcq) = 4
  BY DEF PlatAcq
<1>3. Fault["plat"] = PlatFault
  BY TablesAssumption DEF BoardFault
<1>4. Len(Acq["plat"]) = 4 /\ Steps("plat") = 1..4
  BY <1>1, <1>2 DEF Steps
<1> QED
  BY <1>1, <1>2, <1>3, <1>4 DEF ToLadder, PlatFault

LEMMA PlatForgets ==
    ASSUME "plat" \in Drivers, NEW x, x # Nothing, Forgets("plat", x)
    PROVE  "plat" \in failed /\ x \in {"region", "rhino_buttons_cls"}
<1>1. PICK j \in 1..4 :
        /\ PlatAcq[j] = x
        /\ \/ ~Lists(PlatExit, x)
           \/ "plat" \in failed /\ \E k \in {1, 3} : j < k /\ ~Lists(PlatUndo[k], x)
  BY PlatTables DEF Forgets
<1>2. Lists(PlatExit, x)
  BY <1>1, ListsFour DEF PlatExit, PlatAcq
<1>3. \A k \in {1, 3} : j < k /\ x \notin {"region", "rhino_buttons_cls"} => Lists(PlatUndo[k], x)
  BY <1>1 DEF PlatUndo, PlatAcq
<1> QED
  BY <1>1, <1>2, <1>3

LEMMA PlatOrderly ==
    ASSUME "plat" \in Drivers, NEW x \in ByNumber
    PROVE  OrderlyFor("plat", x)
<1>1. Len(Acq["plat"]) = 4
  BY PlatTables
<1>2. Steps("plat") = 1..4 /\ Len(Acq["plat"]) + 1 = 5
  BY <1>1, PlatTables
<1>3. Got("plat", 1, "region") /\ Got("plat", 3, "map")
  BY PlatTables DEF Got, PlatAcq
<1>4. OrderlyIn("plat", 5, PlatExit, x)
  BY <1>2, <1>3 DEF OrderlyIn, Freed, PlatExit, ByNumber, Gpios, Regions,
     BoardDynamic
<1>5. ASSUME NEW k \in {1, 3} PROVE OrderlyIn("plat", k, PlatUndo[k], x)
  BY <1>2, <1>3, <1>5 DEF OrderlyIn, Freed, PlatUndo, ByNumber, Gpios, Regions,
     BoardDynamic
<1> QED
  BY PlatTables, <1>2, <1>4, <1>5 DEF OrderlyFor

LEMMA PlatUses ==
    ASSUME "plat" \in Drivers, NEW x, x # Nothing, Wants("plat", x) \/ Frees("plat", x)
    PROVE  x \in Uses["plat"]
<1>1. CASE Wants("plat", x)
  BY PlatTables, <1>1 DEF Wants, Uses, PlatAcq
<1>2. ASSUME Lists(PlatExit, x) PROVE x \in Uses["plat"]
  BY <1>2 DEF Lists, Uses, PlatExit
<1>3. ASSUME NEW k \in {1, 3}, Lists(PlatUndo[k], x) PROVE x \in Uses["plat"]
  BY <1>3 DEF Lists, Uses, PlatUndo
<1> QED
  BY PlatTables, <1>1, <1>2, <1>3 DEF Frees

LEMMA AttrTables ==
    ASSUME "attr" \in Drivers
    PROVE  /\ Acq["attr"] = AttrAcq /\ Len(Acq["attr"]) = 4 /\ Steps("attr") = 1..4
           /\ Undo["attr"] = AttrUndo /\ Exits["attr"] = AttrExit
           /\ \A k \in 1..4 : ToLadder("attr", k) <=> k \in {1, 3}
           /\ \A k \in 1..3 : Fault["attr"][k] # "ignored"
           /\ \A k \in 1..4 : Fault["attr"][k] # "silent"
<1>1. Acq["attr"] = AttrAcq /\ Undo["attr"] = AttrUndo /\ Exits["attr"] = AttrExit
  BY TablesAssumption DEF BoardAcq, BoardUndo, BoardExits
<1>2. Len(AttrAcq) = 4
  BY DEF AttrAcq
<1>3. Fault["attr"] = AttrFault
  BY TablesAssumption DEF BoardFault
<1>4. Len(Acq["attr"]) = 4 /\ Steps("attr") = 1..4
  BY <1>1, <1>2 DEF Steps
<1> QED
  BY <1>1, <1>2, <1>3, <1>4 DEF ToLadder, AttrFault

LEMMA AttrForgets ==
    ASSUME "attr" \in Drivers, NEW x, x # Nothing, Forgets("attr", x)
    PROVE  "attr" \in failed /\ x \in {"region", "rhino_buttons_cls"}
<1>1. PICK j \in 1..4 :
        /\ AttrAcq[j] = x
        /\ \/ ~Lists(AttrExit, x)
           \/ "attr" \in failed /\ \E k \in {1, 3} : j < k /\ ~Lists(AttrUndo[k], x)
  BY AttrTables DEF Forgets
<1>2. Lists(AttrExit, x)
  BY <1>1, ListsFour DEF AttrExit, AttrAcq
<1>3. \A k \in {1, 3} : j < k /\ x \notin {"region", "rhino_buttons_cls"} => Lists(AttrUndo[k], x)
  BY <1>1 DEF AttrUndo, AttrAcq
<1> QED
  BY <1>1, <1>2, <1>3

LEMMA AttrOrderly ==
    ASSUME "attr" \in Drivers, NEW x \in ByNumber
    PROVE  OrderlyFor("attr", x)
<1>1. Len(Acq["attr"]) = 4
  BY AttrTables
<1>2. Steps("attr") = 1..4 /\ Len(Acq["attr"]) + 1 = 5
  BY <1>1, AttrTables
<1>3. Got("attr", 1, "region") /\ Got("attr", 3, "map")
  BY AttrTables DEF Got, AttrAcq
<1>4. OrderlyIn("attr", 5, AttrExit, x)
  BY <1>2, <1>3 DEF OrderlyIn, Freed, AttrExit, ByNumber, Gpios, Regions,
     BoardDynamic
<1>5. ASSUME NEW k \in {1, 3} PROVE OrderlyIn("attr", k, AttrUndo[k], x)
  BY <1>2, <1>3, <1>5 DEF OrderlyIn, Freed, AttrUndo, ByNumber, Gpios, Regions,
     BoardDynamic
<1> QED
  BY AttrTables, <1>2, <1>4, <1>5 DEF OrderlyFor

LEMMA AttrUses ==
    ASSUME "attr" \in Drivers, NEW x, x # Nothing, Wants("attr", x) \/ Frees("attr", x)
    PROVE  x \in Uses["attr"]
<1>1. CASE Wants("attr", x)
  BY AttrTables, <1>1 DEF Wants, Uses, AttrAcq
<1>2. ASSUME Lists(AttrExit, x) PROVE x \in Uses["attr"]
  BY <1>2 DEF Lists, Uses, AttrExit
<1>3. ASSUME NEW k \in {1, 3}, Lists(AttrUndo[k], x) PROVE x \in Uses["attr"]
  BY <1>3 DEF Lists, Uses, AttrUndo
<1> QED
  BY AttrTables, <1>1, <1>2, <1>3 DEF Frees

LEMMA SpiTables ==
    ASSUME "spi" \in Drivers
    PROVE  /\ Acq["spi"] = SpiAcq /\ Len(Acq["spi"]) = 5 /\ Steps("spi") = 1..5
           /\ Undo["spi"] = SpiUndo /\ Exits["spi"] = SpiExit
           /\ \A k \in 1..5 : ToLadder("spi", k) <=> k \in 1..5
           /\ \A k \in 1..5 : Fault["spi"][k] # "ignored"
<1>1. Acq["spi"] = SpiAcq /\ Undo["spi"] = SpiUndo /\ Exits["spi"] = SpiExit
  BY TablesAssumption DEF BoardAcq, BoardUndo, BoardExits
<1>2. Len(SpiAcq) = 5
  BY DEF SpiAcq
<1>3. Fault["spi"] = SpiFault
  BY TablesAssumption DEF BoardFault
<1>4. Len(Acq["spi"]) = 5 /\ Steps("spi") = 1..5
  BY <1>1, <1>2 DEF Steps
<1> QED
  BY <1>1, <1>2, <1>3, <1>4 DEF ToLadder, SpiFault

LEMMA SpiForgets ==
    ASSUME "spi" \in Drivers, NEW x, x # Nothing, Forgets("spi", x)
    PROVE  "spi" \in failed /\ x \in {"spi_drv_DAC"}
<1>1. PICK j \in 1..5 :
        /\ SpiAcq[j] = x
        /\ \/ ~Lists(SpiExit, x)
           \/ "spi" \in failed /\ \E k \in 1..5 : j < k /\ ~Lists(SpiUndo[k], x)
  BY SpiTables DEF Forgets
<1>2. Lists(SpiExit, x)
  BY <1>1, ListsFive DEF SpiExit, SpiAcq
<1>3. \A k \in 1..5 : j < k /\ x \notin {"spi_drv_DAC"} => Lists(SpiUndo[k], x)
  BY <1>1, ListsOne, ListsTwo, ListsThree DEF SpiUndo, SpiAcq
<1> QED
  BY <1>1, <1>2, <1>3

LEMMA SpiOrderly ==
    ASSUME "spi" \in Drivers, NEW x \in ByNumber, ~(hollowed /\ x \in BoardDynamic)
    PROVE  OrderlyFor("spi", x)
<1>1. Len(Acq["spi"]) = 5
  BY SpiTables
<1>2. Steps("spi") = 1..5 /\ Len(Acq["spi"]) + 1 = 6
  BY <1>1, SpiTables
<1>3. Got("spi", 1, "region") /\ Got("spi", 2, "map")
  BY SpiTables DEF Got, SpiAcq
<1>4. OrderlyIn("spi", 6, SpiExit, x)
  BY <1>2, <1>3 DEF OrderlyIn, Freed, SpiExit, ByNumber, Gpios, Regions,
     BoardDynamic
<1>5. ASSUME NEW k \in 1..5 PROVE OrderlyIn("spi", k, SpiUndo[k], x)
  BY <1>2, <1>3, <1>5 DEF OrderlyIn, Freed, SpiUndo, ByNumber, Gpios, Regions,
     BoardDynamic
<1>6. hollowed => ~Lists(SpiExit, x)
  BY DEF Lists, SpiExit, ByNumber, Gpios, Regions, BoardDynamic
<1> QED
  BY SpiTables, <1>2, <1>4, <1>5, <1>6 DEF OrderlyFor

LEMMA SpiUses ==
    ASSUME "spi" \in Drivers, NEW x, x # Nothing, Wants("spi", x) \/ Frees("spi", x)
    PROVE  x \in Uses["spi"]
<1>1. CASE Wants("spi", x)
  BY SpiTables, <1>1 DEF Wants, Uses, SpiAcq
<1>2. ASSUME Lists(SpiExit, x) PROVE x \in Uses["spi"]
  BY <1>2 DEF Lists, Uses, SpiExit
<1>3. ASSUME NEW k \in 1..5, Lists(SpiUndo[k], x) PROVE x \in Uses["spi"]
  BY <1>3 DEF Lists, Uses, SpiUndo
<1> QED
  BY SpiTables, <1>1, <1>2, <1>3 DEF Frees

LEMMA DacTables ==
    ASSUME "dac" \in Drivers
    PROVE  /\ Acq["dac"] = DacAcq /\ Len(Acq["dac"]) = 2 /\ Steps("dac") = 1..2
           /\ Undo["dac"] = DacUndo /\ Exits["dac"] = DacExit
           /\ \A k \in 1..2 : ToLadder("dac", k) <=> k = 2
           /\ \A k \in 1..2 : Fault["dac"][k] # "silent"
<1>1. Acq["dac"] = DacAcq /\ Undo["dac"] = DacUndo /\ Exits["dac"] = DacExit
  BY TablesAssumption DEF BoardAcq, BoardUndo, BoardExits
<1>2. Len(DacAcq) = 2
  BY DEF DacAcq
<1>3. Fault["dac"] = DacFault
  BY TablesAssumption DEF BoardFault
<1>4. Len(Acq["dac"]) = 2 /\ Steps("dac") = 1..2
  BY <1>1, <1>2 DEF Steps
<1> QED
  BY <1>1, <1>3, <1>4 DEF ToLadder, DacFault

LEMMA DacReleases == \A x : ~Lists(DacExit, x) /\ \A k \in 1..2 : ~Lists(DacUndo[k], x)
  BY DEF Lists, DacExit, DacUndo

LEMMA DacForgets ==
    ASSUME "dac" \in Drivers, NEW x, x # Nothing, Forgets("dac", x)
    PROVE  x = "gpio5"
  BY DacTables DEF Forgets, DacAcq

LEMMA DacOrderly == ASSUME "dac" \in Drivers, NEW x PROVE OrderlyFor("dac", x)
<1>1. \A k \in 1..2 : OrderlyIn("dac", k, DacUndo[k], x)
  BY DacReleases DEF OrderlyIn, Lists
<1>2. \A k : OrderlyIn("dac", k, DacExit, x)
  BY DacReleases DEF OrderlyIn, Lists
<1> QED
  BY <1>1, <1>2, DacTables DEF OrderlyFor

LEMMA DacUses ==
    ASSUME "dac" \in Drivers, NEW x, x # Nothing, Wants("dac", x) \/ Frees("dac", x)
    PROVE  x \in Uses["dac"]
<1>1. ~Frees("dac", x)
  BY DacTables, DacReleases DEF Frees
<1> QED
  BY <1>1, DacTables DEF Wants, Uses, DacAcq

-----------------------------------------------------------------------------
(* The tables of rhino_button_probe, for any number of gpios.               *)

LEMMA LenDomain ==
    ASSUME NEW S, NEW s \in Seq(S), NEW n \in Nat, DOMAIN s = 1..n
    PROVE  Len(s) = n
  OBVIOUS

LEMMA ProbeTables ==
    ASSUME "probe" \in Drivers
    PROVE  /\ Acq["probe"] = ProbeAcq /\ Undo["probe"] = ProbeUndo
           /\ Exits["probe"] = ProbeExit
           /\ \A k \in Steps("probe") : /\ ToLadder("probe", k) <=> k % 3 # 0
                                        /\ Fault["probe"][k] # "silent"
           /\ Len(Acq["probe"]) = 3 * Count /\ Steps("probe") = 1..(3 * Count)
           /\ Len(ProbeExit) = 2 * Count
<1>1. /\ Acq["probe"] = ProbeAcq /\ Undo["probe"] = ProbeUndo
      /\ Exits["probe"] = ProbeExit
      /\ Fault["probe"] = ProbeFault
  BY TablesAssumption DEF BoardAcq, BoardUndo, BoardExits, BoardFault
<1>2. Count \in 1..5
  BY ProbeAssumption
<1>3. DOMAIN ProbeAcq = 1..(3 * Count) /\ DOMAIN ProbeExit = 1..(2 * Count)
  BY DEF ProbeAcq, ProbeExit
<1>4. ProbeAcq \in Seq(Entries \cup {Nothing}) /\ ProbeExit \in Seq(Entries)
  BY <1>1, TableAssumption
<1>5. Len(ProbeAcq) = 3 * Count
  BY <1>2, <1>3, <1>4, LenDomain
<1>6. Len(ProbeExit) = 2 * Count
  BY <1>2, <1>3, <1>4, LenDomain
<1>7. Steps("probe") = 1..(3 * Count)
  BY <1>1, <1>5 DEF Steps
<1>8. \A k \in 1..(3 * Count) :
        Fault["probe"][k] = IF k % 3 = 0 THEN "ignored" ELSE "ladder"
  BY <1>1, <1>3 DEF ProbeFault
<1>9. \A k \in Steps("probe") : /\ ToLadder("probe", k) <=> k % 3 # 0
                                /\ Fault["probe"][k] # "silent"
  BY <1>7, <1>8 DEF ToLadder
<1> QED
  BY <1>1, <1>5, <1>6, <1>7, <1>9

\* The step that requests gpio i, and the release of gpio i and of node i.
LEMMA ProbeSteps ==
    ASSUME NEW i \in 1..Count
    PROVE  /\ 3 * i - 2 \in 1..(3 * Count) /\ ProbeAcq[3 * i - 2] = ProbeGpio[i]
           /\ 2 * i \in 1..(2 * Count) /\ ProbeExit[2 * i] = ProbeGpio[i]
           /\ 2 * i - 1 \in 1..(2 * Count) /\ ProbeExit[2 * i - 1] = Node(i)
<1>1. Count \in 1..5
  BY ProbeAssumption
<1>2. 3 * i - 2 \in 1..(3 * Count) /\ (3 * i - 2) % 3 = 1 /\ ((3 * i - 2) + 2) \div 3 = i
  BY <1>1
<1>3. 2 * i \in 1..(2 * Count) /\ (2 * i) % 2 = 0 /\ (2 * i) \div 2 = i
  BY <1>1
<1>4. 2 * i - 1 \in 1..(2 * Count) /\ (2 * i - 1) % 2 = 1 /\ ((2 * i - 1) + 1) \div 2 = i
  BY <1>1
<1>5. ProbeAcq[3 * i - 2] = ProbeGpio[i]
  BY <1>2 DEF ProbeAcq
<1>6. ProbeExit[2 * i] = ProbeGpio[i]
  BY <1>3 DEF ProbeExit
<1>7. ProbeExit[2 * i - 1] = Node(i)
  BY <1>4 DEF ProbeExit
<1> QED
  BY <1>2, <1>3, <1>4, <1>5, <1>6, <1>7

\* What a step of the probe acquires and what each release of its tables is.
LEMMA ProbeEntries ==
    /\ \A k \in 1..(3 * Count) : ProbeAcq[k] # Nothing =>
           \/ ProbeAcq[k] \in Nodes
           \/ \E i \in 1..Count : k = 3 * i - 2 /\ ProbeAcq[k] = ProbeGpio[i]
    /\ \A k \in 1..(2 * Count) :
           \/ ProbeExit[k] \in Nodes
           \/ \E i \in 1..Count : k = 2 * i /\ ProbeExit[k] = ProbeGpio[i]
<1>1. Count \in 1..5
  BY ProbeAssumption
<1>2. ASSUME NEW k \in 1..(3 * Count), ProbeAcq[k] # Nothing
      PROVE  \/ ProbeAcq[k] \in Nodes
             \/ \E i \in 1..Count : k = 3 * i - 2 /\ ProbeAcq[k] = ProbeGpio[i]
  <2> DEFINE i == (k + 2) \div 3
  <2>1. i \in 1..Count /\ (k % 3 = 1 => k = 3 * i - 2)
    BY <1>1
  <2> HIDE DEF i
  <2>2. ProbeAcq[k] = CASE k % 3 = 1 -> ProbeGpio[i]
                         [] k % 3 = 2 -> Nothing
                         [] OTHER     -> Node(i)
    BY DEF ProbeAcq, i
  <2>3. CASE k % 3 = 1
    BY <2>1, <2>2, <2>3
  <2>4. CASE k % 3 # 1
    <3>1. ProbeAcq[k] = Node(i)
      BY <1>2, <2>2, <2>4
    <3> QED
      BY <2>1, <3>1 DEF Nodes
  <2> QED
    BY <2>3, <2>4
<1>3. ASSUME NEW k \in 1..(2 * Count)
      PROVE  \/ ProbeExit[k] \in Nodes
             \/ \E i \in 1..Count : k = 2 * i /\ ProbeExit[k] = ProbeGpio[i]
  <2>1. CASE k % 2 = 1
    <3>1. (k + 1) \div 2 \in 1..Count
      BY <1>1
    <3>2. ProbeExit[k] = Node((k + 1) \div 2)
      BY <2>1 DEF ProbeExit
    <3> QED
      BY <3>1, <3>2 DEF Nodes
  <2>2. CASE k % 2 # 1
    <3>1. k \div 2 \in 1..Count /\ k = 2 * (k \div 2)
      BY <1>1, <2>2
    <3>2. ProbeExit[k] = ProbeGpio[k \div 2]
      BY <2>2 DEF ProbeExit
    <3> QED
      BY <3>1, <3>2
  <2> QED
    BY <2>1, <2>2
<1> QED
  BY <1>2, <1>3

\* The ladder of a step at gpio i releases gpios i down to 2.
LEMMA ProbeLadder ==
    ASSUME "probe" \in Drivers, NEW k \in 1..(3 * Count)
    PROVE  LET i == (k + 2) \div 3
           IN  /\ i \in 1..Count /\ Len(ProbeUndo[k]) = i - 1
               /\ \A n \in 1..(i - 1) : ProbeUndo[k][n] = ProbeGpio[i + 1 - n]
<1> DEFINE i == (k + 2) \div 3
<1>1. Count \in 1..5
  BY ProbeAssumption
<1>2. i \in 1..Count
  BY <1>1
<1>3. ProbeUndo[k] = DownFrom(i, 2)
  BY DEF ProbeUndo, ProbeAcq
<1>4. ProbeUndo[k] \in Seq(Entries)
  <2>1. Len(Acq["probe"]) = 3 * Count /\ Undo["probe"] = ProbeUndo
    BY ProbeTables
  <2> QED
    BY <2>1, TableAssumption
<1> HIDE DEF i
<1>5. DownFrom(i, 2) = [n \in 1..(i - 1) |-> ProbeGpio[i + 1 - n]]
  BY <1>1, <1>2 DEF DownFrom
<1>6. i - 1 \in Nat
  BY <1>1, <1>2
<1>7. Len(ProbeUndo[k]) = i - 1
  BY <1>3, <1>4, <1>5, <1>6, LenDomain
<1> QED
  BY <1>2, <1>3, <1>5, <1>7 DEF i

LEMMA ProbeForgets ==
    ASSUME "probe" \in Drivers, NEW x, x # Nothing, Forgets("probe", x)
    PROVE  "probe" \in failed /\ x \in {ProbeGpio[1]} \cup Nodes
<1>1. PICK j \in 1..(3 * Count) :
        /\ ProbeAcq[j] = x
        /\ \/ "probe" \in failed /\ \E k \in 1..(3 * Count) : j < k /\ ~Lists(ProbeUndo[k], x)
           \/ ~Lists(ProbeExit, x)
  BY ProbeTables DEF Forgets
<1>2. Lists(ProbeExit, x)
  BY <1>1, ProbeEntries, ProbeSteps, ProbeTables DEF Lists, Nodes
<1>3. ASSUME x \notin {ProbeGpio[1]} \cup Nodes,
             NEW k \in 1..(3 * Count), j < k
      PROVE  Lists(ProbeUndo[k], x)
  <2> DEFINE h == (k + 2) \div 3
  <2>1. PICK i \in 1..Count : j = 3 * i - 2 /\ x = ProbeGpio[i]
    BY <1>1, <1>3, ProbeEntries
  <2>2. Count \in 1..5 /\ i # 1
    BY <1>3, <2>1, ProbeAssumption
  <2>3. h \in 1..Count /\ i <= h
    BY <1>3, <2>1, <2>2
  <2>4. /\ Len(ProbeUndo[k]) = h - 1
        /\ \A n \in 1..(h - 1) : ProbeUndo[k][n] = ProbeGpio[h + 1 - n]
    BY ProbeLadder
  <2> HIDE DEF h
  <2>5. (h + 1 - i) \in 1..(h - 1) /\ h + 1 - (h + 1 - i) = i
    BY <2>2, <2>3
  <2>6. ProbeUndo[k][h + 1 - i] = x
    BY <2>1, <2>4, <2>5
  <2> QED
    BY <2>4, <2>5, <2>6 DEF Lists
<1> QED
  BY <1>1, <1>2, <1>3

LEMMA ProbeOrderly ==
    ASSUME "probe" \in Drivers, NEW x, \A i \in 2..Count : x # ProbeGpio[i], x \notin Nodes
    PROVE  OrderlyFor("probe", x)
<1>1. Count \in 1..5
  BY ProbeAssumption
<1>2. ASSUME NEW k \in 1..(3 * Count) PROVE OrderlyIn("probe", k, ProbeUndo[k], x)
  <2>1. ASSUME NEW n \in 1..Len(ProbeUndo[k]) PROVE ProbeUndo[k][n] # x
    <3> DEFINE h == (k + 2) \div 3
    <3>1. h \in 1..Count /\ n \in 1..(h - 1) /\ ProbeUndo[k][n] = ProbeGpio[h + 1 - n]
      BY <2>1, ProbeLadder
    <3> HIDE DEF h
    <3>2. h + 1 - n \in 2..Count
      BY <1>1, <3>1
    <3> QED
      BY <3>1, <3>2
  <2> QED
    BY <2>1 DEF OrderlyIn
<1>3. ASSUME NEW n \in 1..(2 * Count), ProbeExit[n] = x
      PROVE  n = 2 /\ x = ProbeGpio[1]
  <2>1. PICK i \in 1..Count : n = 2 * i /\ x = ProbeGpio[i]
    BY <1>3, ProbeEntries
  <2>2. i \notin 2..Count
    BY <2>1
  <2> QED
    BY <1>1, <2>1, <2>2
<1>4. Got("probe", 1, ProbeGpio[1])
  <2>1. 1 \in 1..Count
    BY <1>1
  <2>2. ProbeAcq[1] = ProbeGpio[1]
    <3>1. 3 * 1 - 2 = 1
      OBVIOUS
    <3> QED
      BY <2>1, <3>1, ProbeSteps
  <2>3. 1 \in Steps("probe") /\ ToLadder("probe", 1)
    BY <1>1, ProbeTables
  <2> QED
    BY <2>2, <2>3, ProbeTables DEF Got, ToLadder
<1>5. ~Freed(ProbeExit, 2, x)
  BY <1>3, ProbeTables DEF Freed
<1>6. OrderlyIn("probe", 3 * Count + 1, ProbeExit, x)
  <2>1. 1 \in Steps("probe") /\ 1 < 3 * Count + 1
    BY <1>1, ProbeTables
  <2> QED
    BY <1>3, <1>4, <1>5, <2>1, ProbeTables DEF OrderlyIn
<1>7. Len(Acq["probe"]) = 3 * Count
  BY ProbeTables
<1> QED
  BY <1>2, <1>6, <1>7, ProbeTables DEF OrderlyFor

LEMMA ProbeUses ==
    ASSUME "probe" \in Drivers, NEW x, x # Nothing, Wants("probe", x) \/ Frees("probe", x)
    PROVE  x \in Uses["probe"]
<1>1. Uses["probe"] = {ProbeGpio[i] : i \in 1..Count} \cup Nodes
  BY DEF Uses
<1>2. CASE Wants("probe", x)
  BY <1>1, <1>2, ProbeTables, ProbeEntries DEF Wants
<1>3. ASSUME Lists(ProbeExit, x) PROVE x \in Uses["probe"]
  BY <1>1, <1>3, ProbeTables, ProbeEntries DEF Lists
<1>4. ASSUME NEW k \in 1..(3 * Count), Lists(ProbeUndo[k], x) PROVE x \in Uses["probe"]
  <2> DEFINE h == (k + 2) \div 3
  <2>1. h \in 1..Count /\ Len(ProbeUndo[k]) = h - 1
        /\ \A n \in 1..(h - 1) : ProbeUndo[k][n] = ProbeGpio[h + 1 - n]
    BY ProbeLadder
  <2> HIDE DEF h
  <2>2. PICK n \in 1..(h - 1) : x = ProbeGpio[h + 1 - n]
    BY <1>4, <2>1 DEF Lists
  <2>3. h + 1 - n \in 1..Count
    BY <2>1, ProbeAssumption
  <2> QED
    BY <1>1, <2>2, <2>3
<1> QED
  BY <1>2, <1>3, <1>4, ProbeTables DEF Frees

-----------------------------------------------------------------------------
(* All drivers.                                                             *)

LEMMA NineDrivers ==
    \A d \in Drivers :
        d \in {"but", "isr", "simple", "led", "plat", "attr", "probe", "spi", "dac"}
  BY TablesAssumption

LEMMA ForgetsLeaks ==
    ASSUME NEW d \in Drivers, NEW x \in Entries, Forgets(d, x) PROVE x \in MayLeave(d)
<1>1. x # Nothing
  BY EntriesAssumption
<1>2. CASE d \in {"but", "isr", "simple", "led"}
  BY <1>1, <1>2, ButForgets, IsrForgets, SimpleForgets, LedForgets DEF MayLeave, Leaks
<1>3. CASE d \in {"plat", "attr", "spi", "dac"}
  BY <1>1, <1>3, PlatForgets, AttrForgets, SpiForgets, DacForgets DEF MayLeave, Leaks
<1>4. CASE d = "probe"
  BY <1>1, <1>4, ProbeForgets DEF MayLeave, Leaks
<1> QED
  BY <1>2, <1>3, <1>4, NineDrivers

\* A driver that is out of the kernel, or loaded with nothing, owns only what its
\* own failed init forgot and the gpio 5 of the DAC: every other error path and
\* every exit has released what it should.
THEOREM NothingElseLeft == Spec => []LeavesNoMore
<1>1. TypeOK /\ (\A d \in Drivers, r \in Pool :
          (stage[d] = "out" \/ Hollow(d)) /\ owner[r] = d => Forgets(d, r[1])) => LeavesNoMore
  <2> SUFFICES ASSUME NEW d \in Drivers, NEW r \in Pool, Forgets(d, r[1])
               PROVE  r[1] \in MayLeave(d)
    BY DEF LeavesNoMore
  <2>1. r[1] \in Entries
    BY EntriesAssumption DEF Pool
  <2> QED
    BY <2>1, ForgetsLeaks
<1> QED
  BY <1>1, TypeCorrect, OutForgets, PTL

\* What some table releases out of order.
Disordered == {"gpio21", "dev64_1"} \cup {ProbeGpio[i] : i \in 2..Count} \cup Nodes

LEMMA OrderlyBoard ==
    ASSUME NEW x \in ByNumber, x \notin Disordered, ~(hollowed /\ x \in BoardDynamic)
    PROVE  Orderly(x)
<1>1. x \notin {"gpio21", "dev64_1"} /\ x \notin Nodes /\ \A i \in 2..Count : x # ProbeGpio[i]
  BY DEF Disordered
<1>2. ASSUME NEW d \in Drivers, d \in {"but", "isr", "simple", "led"} PROVE OrderlyFor(d, x)
  BY <1>1, <1>2, ButOrderly, IsrOrderly, SimpleOrderly, LedOrderly
<1>3. ASSUME NEW d \in Drivers, d \in {"plat", "attr", "spi", "dac"} PROVE OrderlyFor(d, x)
  BY <1>3, PlatOrderly, AttrOrderly, SpiOrderly, DacOrderly
<1>4. ASSUME NEW d \in Drivers, d = "probe" PROVE OrderlyFor(d, x)
  BY <1>1, <1>4, ProbeOrderly
<1> QED
  BY <1>2, <1>3, <1>4, NineDrivers DEF Orderly

LEMMA BoardUses ==
    ASSUME NEW d \in Drivers, NEW x \in Entries, Wants(d, x) \/ Frees(d, x)
    PROVE  x \in Uses[d]
<1>1. x # Nothing
  BY EntriesAssumption
<1>2. CASE d \in {"but", "isr", "simple", "led"}
  BY <1>1, <1>2, ButUses, IsrUses, SimpleUses, LedUses
<1>3. CASE d \in {"plat", "attr", "spi", "dac"}
  BY <1>1, <1>3, PlatUses, AttrUses, SpiUses, DacUses
<1>4. CASE d = "probe"
  BY <1>1, <1>4, ProbeUses
<1> QED
  BY <1>2, <1>3, <1>4, NineDrivers

LEMMA ProbeNames ==
    /\ Nodes \subseteq {"button0", "button1", "button2", "button3", "button4"}
    /\ \A i \in 1..Count : ProbeGpio[i] \in Gpios
    /\ \A i \in 2..Count : ProbeGpio[i] \in Gpios \ {"gpio5", "gpio12", "gpio19"}
<1>1. Count \in 1..5
  BY ProbeAssumption
<1>2. Nodes \subseteq {"button0", "button1", "button2", "button3", "button4"}
  <2>1. ASSUME NEW i \in 1..5
        PROVE  Node(i) \in {"button0", "button1", "button2", "button3", "button4"}
    BY DEF Node
  <2> QED
    BY <1>1, <2>1 DEF Nodes
<1>3. \A i \in 1..Count : ProbeGpio[i] \in Gpios
  BY <1>1, ProbeAssumption DEF Count
<1> QED
  BY <1>1, <1>2, <1>3, ProbeAssumption

LEMMA NumberedEntries == \A x \in Entries \ Handles : x \in ByNumber
<1>1. Entries \ Handles \subseteq BoardNumbered \cup BoardDynamic
  BY TablesAssumption DEF Handles
<1> QED
  BY <1>1, ProbeNames DEF BoardNumbered, ByNumber

\* What two drivers use and some table releases out of order is gpio 21.
LEMMA SharedDisorder ==
    ASSUME NEW d \in Drivers, NEW e \in Drivers \ {d}, NEW x \in Disordered,
           x \in Uses[d], x \in Uses[e]
    PROVE  x = "gpio21" /\ d \in {"led", "probe"}
<1>1. CASE x \in Nodes
  BY <1>1, ProbeNames, NineDrivers DEF Uses, Gpios
<1>2. CASE x \in Gpios
  BY <1>2, ProbeNames, NineDrivers DEF Uses, Gpios, Disordered
<1>3. CASE x = "dev64_1"
  BY <1>3, ProbeNames, NineDrivers DEF Uses, Gpios
<1> QED
  BY <1>1, <1>2, <1>3, ProbeNames DEF Disordered, Gpios

LEMMA DynamicUsers ==
    ASSUME NEW d \in Drivers, NEW x \in BoardDynamic, x \in Uses[d]
    PROVE  d \in {"spi", "plat", "attr"}
  BY ProbeNames, NineDrivers DEF Uses, Gpios, BoardDynamic

\* Whatever calls fail, no release of any of the nine drivers takes away what
\* another one has, but for gpio 21 and, once spi_drv_init has returned 0 after
\* its ladder, the device numbers the kernel gave.
THEOREM NothingElseTaken == Spec => TakesNoMore
<1>1. ASSUME NEW d \in Drivers, Robs(d) => CanTake(d, Called(d)), Robs(d)
      PROVE  MayTake(d, Called(d))
  <2> DEFINE x == Called(d)
  <2>1. CanTake(d, x)
    BY <1>1
  <2> HIDE DEF x
  <2>2. /\ x \in Entries \ Handles /\ x \in ByNumber
        /\ (x \in Dynamic /\ hollowed) \/ ~Orderly(x)
        /\ x \in Uses[d]
    BY <2>1, BoardUses, NumberedEntries DEF CanTake
  <2>3. PICK e \in Drivers \ {d} : x \in Uses[e]
    BY <2>1, <2>2, BoardUses DEF CanTake
  <2>4. CASE hollowed /\ x \in BoardDynamic
    BY <2>2, <2>4, DynamicUsers DEF MayTake, Confused, x
  <2>5. CASE ~(hollowed /\ x \in BoardDynamic)
    <3>1. x \in Disordered
      BY <2>2, <2>5, OrderlyBoard, TablesAssumption
    <3> QED
      BY <2>2, <2>3, <3>1, SharedDisorder DEF MayTake, x
  <2> QED
    BY <2>4, <2>5
<1>2. (\A d \in Drivers : Robs(d) => CanTake(d, Called(d)))
      => (\A d \in Drivers : Robs(d) => MayTake(d, Called(d)))
  BY <1>1
<1> QED
  BY <1>2, OnlyDisorderTakes, PTL DEF TakesNoMore

\* What one driver only can release out of order is secure.
LEMMA OwnDisorder ==
    ASSUME NEW e \in Drivers, NEW x \in Entries \ Handles, x \in Disordered, x # "gpio21",
           x \in Uses[e]
    PROVE  Secure(e, x)
<1>1. \A d \in Drivers \ {e} : ~Frees(d, x)
  BY BoardUses, SharedDisorder
<1>2. x \notin Dynamic
  BY TablesAssumption, ProbeNames DEF Disordered, BoardDynamic, Gpios
<1> QED
  BY <1>1, <1>2 DEF Secure

\* A loaded driver has all its init acquired, whatever the others do and whichever
\* calls fail, but for gpio 21, and for the device numbers the kernel gave once a
\* spi_drv_init has returned 0 after its ladder.
THEOREM LoadedHasItsOwn == Spec => []HasItsOwn
<1> DEFINE P == \A d \in Drivers : stage[d] = "in" /\ ~Hollow(d) =>
                  \A k \in Steps(d) :
                      LET x == Acq[d][k]
                      IN  (/\ Fault[d][k] # "ignored" /\ x # Nothing
                           /\ x \in Handles \/ Secure(d, x)) => owner[Real(d, x)] = d
<1>1. P => HasItsOwn
  <2> SUFFICES ASSUME NEW d \in Drivers, NEW k \in Steps(d),
                      Acq[d][k] \notin {Nothing, "gpio21"} \cup Confused,
                      Acq[d][k] \notin Handles
               PROVE  Secure(d, Acq[d][k])
    BY DEF HasItsOwn, Steps
  <2> DEFINE x == Acq[d][k]
  <2>1. x \in Entries \ Handles /\ x \in ByNumber
    BY TableAssumption, NumberedEntries DEF Steps
  <2>2. Wants(d, x)
    BY DEF Wants
  <2>3. x # "gpio21" /\ ~(hollowed /\ x \in BoardDynamic)
    BY DEF Confused
  <2> HIDE DEF x
  <2>4. ASSUME x \in Disordered PROVE Secure(d, x)
    BY <2>1, <2>2, <2>3, <2>4, BoardUses, OwnDisorder
  <2>5. ASSUME x \notin Disordered PROVE Secure(d, x)
    <3>1. Orderly(x)
      BY <2>1, <2>3, <2>5, OrderlyBoard
    <3>2. ~(x \in Dynamic /\ hollowed)
      BY <2>3, TablesAssumption
    <3> QED
      BY <3>1, <3>2 DEF Secure
  <2> QED
    BY <2>4, <2>5 DEF x
<1> QED
  BY <1>1, LoadedHas, PTL
=============================================================================
