-------------------------------- MODULE Irq -----------------------------------
(***************************************************************************)
(* The generic IRQ layer (kernel/irq): kernel IRQ numbers, the linear maps *)
(* from controllers' lines to them, and the descriptors that hold the      *)
(* handlers.  Controllers are set up as i8259_init does it; drivers find   *)
(* their IRQ through a map and request it, as i8254_probe does.            *)
(***************************************************************************)
EXTENDS Integers, FiniteSets, FiniteSetsExt

CONSTANTS
  IRQ_MAX,   \* kernel IRQs
  Map,       \* the irq_map objects, one for each controller
  HwRanges,  \* the lines of a controller, as <<first, count>>
  Handler    \* drivers' handlers

ASSUME IrqAssumption == IRQ_MAX \in Nat /\ HwRanges \subseteq Nat \X Nat

(* No map and no handler: the null pointers of a descriptor.               *)
NOBODY == "none"

ASSUME NoneAssumption == NOBODY \notin Map \cup Handler

IrqNumbers == 0 .. (IRQ_MAX - 1)
NoDesc == [hwirq |-> 0, map |-> NOBODY, handler |-> NOBODY]

VARIABLES
  allocated,  \* irq_allocated
  maps,       \* first_irq, first_hwirq and count of each map
  descs,      \* irq_descs; the chip is set together with the map
  live,       \* ghost: the maps initialised and not destroyed since
  ready,      \* ghost: those whose controller was set up without an error
  owner       \* ghost: what each handler was requested for, as <<map, hwirq>>

irq_vars == <<allocated, maps, descs, live, ready, owner>>

Zeroed == [first_irq |-> 0, first_hwirq |-> 0, count |-> 0]

IrqInit ==
  /\ allocated = {} /\ maps = [m \in Map |-> Zeroed]
  /\ descs = [i \in IrqNumbers |-> NoDesc]
  /\ live = {} /\ ready = {} /\ owner = [h \in Handler |-> <<>>]

Run(first, n) == first .. (first + n - 1)

(* The lowest run of n free numbers; irq_alloc_range's scan.               *)
FreeRuns_EndsOnly(n) ==
  {i \in 0 .. (IRQ_MAX - n) : {i, i + n - 1} \cap allocated = {}}

FreeRuns(n) == {i \in 0 .. (IRQ_MAX - n) : Run(i, n) \cap allocated = {}}

irq_map_hwirq_to_irq(map, hwirq) ==
  IF hwirq < map.first_hwirq \/ hwirq >= map.first_hwirq + map.count
    THEN -1 ELSE map.first_irq + (hwirq - map.first_hwirq)

(* irq_desc_configure; FALSE when it refuses.                              *)
CanConfigure(alloc, ds, irq, hwirq, map) ==
  /\ irq \in IrqNumbers /\ irq \in alloc
  /\ ds[irq].map = NOBODY
  /\ hwirq >= map.first_hwirq /\ hwirq < map.first_hwirq + map.count

(* One turn of the loop of i8259_init, which stops at the first descriptor *)
(* that it cannot configure.                                               *)
ConfigureStep(t, hwirq, alloc, m, map) ==
  LET irq == irq_map_hwirq_to_irq(map, hwirq)
  IN  IF t.ok /\ CanConfigure(alloc, t.ds, irq, hwirq, map)
        THEN [t EXCEPT !.ds[irq] = [hwirq |-> hwirq, map |-> m, handler |-> @.handler]]
        ELSE [t EXCEPT !.ok = FALSE]

(* The descriptors after the loop, and whether it got to its end.          *)
Configure(alloc, m, map) ==
  LET after[k \in 0 .. map.count] ==
        IF k = 0 THEN [ds |-> descs, ok |-> TRUE]
        ELSE ConfigureStep(after[k - 1], map.first_hwirq + k - 1, alloc, m, map)
  IN  after[map.count]

(* irq_map_init and the configuration of a controller's descriptors.       *)
ChipInit(m, first_hwirq, n) ==
  LET map == [first_irq |-> Min(FreeRuns(n)), first_hwirq |-> first_hwirq, count |-> n]
      alloc == allocated \cup Run(map.first_irq, n)
      c   == Configure(alloc, m, map)
  IN  /\ m \notin live
      /\ n > 0 /\ n <= IRQ_MAX /\ FreeRuns(n) # {}
      /\ allocated' = alloc
      /\ maps' = [maps EXCEPT ![m] = map]
      /\ descs' = c.ds
      /\ live' = live \cup {m}
      /\ ready' = IF c.ok THEN ready \cup {m} ELSE ready
      /\ UNCHANGED owner

(* Gives the numbers back; the map keeps its fields, and the descriptors   *)
(* keep their map and handler.                                             *)
irq_map_destroy(m) ==
  /\ m \in live
  /\ Run(maps[m].first_irq, maps[m].count) \subseteq allocated
  /\ allocated' = allocated \ Run(maps[m].first_irq, maps[m].count)
  /\ live' = live \ {m} /\ ready' = ready \ {m}
  /\ owner' = [h \in Handler |-> IF owner[h] # <<>> /\ owner[h][1] = m
                                   THEN <<>> ELSE owner[h]]
  /\ UNCHANGED <<descs, maps>>

Requestable_AlsoBusy(irq) == irq \in allocated /\ descs[irq].map # NOBODY

Requestable(irq) ==
  /\ irq \in allocated
  /\ descs[irq].map # NOBODY
  /\ descs[irq].handler = NOBODY

(* A driver resolves its line and requests the IRQ.                        *)
irq_request(m, hwirq, h) ==
  LET irq == irq_map_hwirq_to_irq(maps[m], hwirq)
  IN  /\ m \in ready /\ irq # -1 /\ owner[h] = <<>>
      /\ Requestable(irq)
      /\ descs' = [descs EXCEPT ![irq].handler = h]
      /\ owner' = [owner EXCEPT ![h] = <<m, hwirq>>]
      /\ UNCHANGED <<allocated, maps, live, ready>>

irq_free(m, hwirq) ==
  LET irq == irq_map_hwirq_to_irq(maps[m], hwirq)
  IN  /\ m \in ready /\ irq \in allocated
      /\ descs[irq].map # NOBODY /\ descs[irq].handler # NOBODY
      /\ owner' = [owner EXCEPT ![descs[irq].handler] = <<>>]
      /\ descs' = [descs EXCEPT ![irq].handler = NOBODY]
      /\ UNCHANGED <<allocated, maps, live, ready>>

(* The handler that an interrupt of the line calls, if any.                *)
irq_dispatch(m, hwirq) ==
  LET irq == irq_map_hwirq_to_irq(maps[m], hwirq)
  IN  IF irq = -1 THEN NOBODY ELSE descs[irq].handler

HwIrqs == UNION {Run(r[1], r[2]) : r \in HwRanges}

IrqNext ==
  \/ \E m \in Map, r \in HwRanges : ChipInit(m, r[1], r[2])
  \/ \E m \in Map : irq_map_destroy(m)
  \/ \E m \in Map, hwirq \in HwIrqs :
       \/ irq_free(m, hwirq)
       \/ \E h \in Handler : irq_request(m, hwirq, h)

IrqSpec == IrqInit /\ [][IrqNext]_irq_vars
-----------------------------------------------------------------------------
(* The state has its types.                                                *)
IrqTypeOK ==
  /\ allocated \subseteq IrqNumbers
  /\ maps \in [Map -> [first_irq : Nat, first_hwirq : Nat, count : Nat]]
  /\ \A i \in IrqNumbers :
       descs[i].hwirq \in Nat /\ descs[i].map \in Map \cup {NOBODY}
         /\ descs[i].handler \in Handler \cup {NOBODY}
  /\ live \subseteq Map /\ ready \subseteq live
  /\ \A h \in Handler : owner[h] = <<>> \/ owner[h] \in Map \X Nat

(* The maps' ranges of kernel IRQs never overlap and are exactly the       *)
(* allocated ones, after any sequence of set-ups and destructions.         *)
MapsPartitionIrqs ==
  /\ allocated = UNION {Run(maps[m].first_irq, maps[m].count) : m \in live}
  /\ \A m, n \in live : m # n =>
       Run(maps[m].first_irq, maps[m].count) \cap Run(maps[n].first_irq, maps[n].count) = {}

(* For a controller that was set up without an error, the way from a line  *)
(* to a descriptor and back is closed: the descriptor names that line and  *)
(* that controller, it calls the handler that was requested for the line,  *)
(* and no requested handler has been displaced by another driver's.        *)
HandlersServeTheirLine ==
  /\ IrqTypeOK
  /\ \A m \in ready : \A hwirq \in Run(maps[m].first_hwirq, maps[m].count) :
       LET d == descs[irq_map_hwirq_to_irq(maps[m], hwirq)]
       IN  /\ d.hwirq = hwirq /\ d.map = m
           /\ {h \in Handler : owner[h] = <<m, hwirq>>} = {irq_dispatch(m, hwirq)} \ {NOBODY}
=============================================================================
