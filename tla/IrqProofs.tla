------------------------------ MODULE IrqProofs -------------------------------
(***************************************************************************)
(* The maps divide the kernel's IRQ numbers among them, for any number of  *)
(* controllers and any lines.                                              *)
(***************************************************************************)
EXTENDS Irq, BasicFacts

Desc == [hwirq : Nat, map : Map \cup {NOBODY}, handler : Handler \cup {NOBODY}]

IrqTypes ==
  /\ allocated \subseteq IrqNumbers
  /\ maps \in [Map -> [first_irq : Nat, first_hwirq : Nat, count : Nat]]
  /\ descs \in [IrqNumbers -> Desc]
  /\ live \subseteq Map /\ ready \subseteq live
  /\ owner \in [Handler -> {<<>>} \cup (Map \X Nat)]

(* A descriptor that belongs to no controller has no handler.              *)
Unconfigured(ds) ==
  \A i \in IrqNumbers : ds[i].map = NOBODY => ds[i].handler = NOBODY

(* The descriptor of each line of a controller that was set up.            *)
LinesServed ==
  \A m \in ready : \A hwirq \in Run(maps[m].first_hwirq, maps[m].count) :
    LET d == descs[maps[m].first_irq + (hwirq - maps[m].first_hwirq)]
    IN  /\ d.hwirq = hwirq /\ d.map = m
        /\ \A h \in Handler : owner[h] = <<m, hwirq>> <=> d.handler = h

(* A handler is only ever requested for a line of such a controller.       *)
OwnersReady ==
  \A h \in Handler : owner[h] # <<>> =>
    /\ owner[h][1] \in ready
    /\ owner[h][2] \in Run(maps[owner[h][1]].first_hwirq, maps[owner[h][1]].count)

IrqInv ==
  /\ IrqTypes
  /\ MapsPartitionIrqs
  /\ Unconfigured(descs)
  /\ LinesServed
  /\ OwnersReady

-----------------------------------------------------------------------------
(* The scan of irq_alloc_range ends at a run that is free.                 *)
LEMMA ScanFindsFree ==
  ASSUME NEW n \in Nat, FreeRuns(n) # {}
  PROVE  /\ Min(FreeRuns(n)) \in 0 .. (IRQ_MAX - n)
         /\ Run(Min(FreeRuns(n)), n) \cap allocated = {}
  <1>1. FreeRuns(n) \in SUBSET Nat
    BY IrqAssumption DEF FreeRuns
  <1>2. Min(FreeRuns(n)) \in FreeRuns(n)
    BY <1>1, MinIsLeast
  <1> QED
    BY <1>1, <1>2 DEF FreeRuns

LEMMA InitIrqInv == IrqInit => IrqInv
  <1> SUFFICES ASSUME IrqInit PROVE IrqInv
    OBVIOUS
  <1>1. IrqTypes
    BY DEF IrqInit, IrqTypes, Zeroed, NoDesc, Desc
  <1>2. MapsPartitionIrqs
    BY DEF IrqInit, MapsPartitionIrqs
  <1> QED
    BY <1>1, <1>2 DEF IrqInit, IrqInv, Unconfigured, LinesServed, OwnersReady, NoDesc

-----------------------------------------------------------------------------
(* The loop of i8259_init.  Before each turn the descriptors outside the   *)
(* map's numbers are as they were and, while nothing was refused, those of *)
(* the lines that were passed belong to the map and have no handler.       *)
LoopState == [ds : [IrqNumbers -> Desc], ok : BOOLEAN]

LoopInv(t, k, m, map) ==
  /\ t \in LoopState
  /\ Unconfigured(t.ds)
  /\ \A i \in IrqNumbers \ Run(map.first_irq, map.count) : t.ds[i] = descs[i]
  /\ t.ok => \A j \in 0 .. (k - 1) :
       t.ds[map.first_irq + j] = [hwirq |-> map.first_hwirq + j, map |-> m, handler |-> NOBODY]

LEMMA StepType ==
  ASSUME NEW t \in LoopState, NEW hwirq \in Nat, NEW alloc, NEW m \in Map,
         NEW map \in [first_irq : Nat, first_hwirq : Nat, count : Nat]
  PROVE  ConfigureStep(t, hwirq, alloc, m, map) \in LoopState
  <1> DEFINE irq == irq_map_hwirq_to_irq(map, hwirq)
  <1>1. CASE t.ok /\ CanConfigure(alloc, t.ds, irq, hwirq, map)
    <2>1. irq \in IrqNumbers
      BY <1>1 DEF CanConfigure
    <2>2. ConfigureStep(t, hwirq, alloc, m, map)
            = [t EXCEPT !.ds = [t.ds EXCEPT ![irq] =
                 [hwirq |-> hwirq, map |-> m, handler |-> t.ds[irq].handler]]]
      BY <1>1 DEF ConfigureStep
    <2> HIDE DEF irq
    <2> QED
      BY <2>1, <2>2 DEF LoopState, Desc
  <1>2. CASE ~(t.ok /\ CanConfigure(alloc, t.ds, irq, hwirq, map))
    <2>1. ConfigureStep(t, hwirq, alloc, m, map) = [t EXCEPT !.ok = FALSE]
      BY <1>2 DEF ConfigureStep
    <2> QED
      BY <2>1 DEF LoopState
  <1> QED
    BY <1>1, <1>2

LEMMA StepKeeps ==
  ASSUME NEW m \in Map, NEW map \in [first_irq : Nat, first_hwirq : Nat, count : Nat],
         NEW alloc, NEW k \in Nat, k < map.count, NEW t, LoopInv(t, k, m, map)
  PROVE  LoopInv(ConfigureStep(t, map.first_hwirq + k, alloc, m, map), k + 1, m, map)
  <1> DEFINE hwirq == map.first_hwirq + k
             irq == map.first_irq + k
             u == ConfigureStep(t, hwirq, alloc, m, map)
  <1> SUFFICES LoopInv(u, k + 1, m, map)
    OBVIOUS
  <1>1. /\ map.first_irq \in Nat /\ map.first_hwirq \in Nat /\ map.count \in Nat
        /\ hwirq \in Nat /\ irq \in Nat
    OBVIOUS
  <1>2. irq_map_hwirq_to_irq(map, hwirq) = irq
    BY <1>1 DEF irq_map_hwirq_to_irq
  <1>3. t \in LoopState /\ u \in LoopState
    BY <1>1, StepType DEF LoopInv
  <1>4. CASE t.ok /\ CanConfigure(alloc, t.ds, irq, hwirq, map)
    <2>1. irq \in IrqNumbers /\ t.ds[irq].map = NOBODY /\ t.ds[irq].handler = NOBODY
      BY <1>4 DEF CanConfigure, LoopInv, Unconfigured
    <2>2. u = [t EXCEPT !.ds = [t.ds EXCEPT ![irq] =
                 [hwirq |-> hwirq, map |-> m, handler |-> t.ds[irq].handler]]]
      BY <1>2, <1>4 DEF ConfigureStep
    <2>3. irq \in Run(map.first_irq, map.count)
      BY <1>1 DEF Run
    <2>4. /\ u.ds[irq] = [hwirq |-> hwirq, map |-> m, handler |-> NOBODY]
          /\ \A i \in IrqNumbers : i # irq => u.ds[i] = t.ds[i]
          /\ u.ok = t.ok
      BY <1>3, <2>1, <2>2 DEF LoopState, Desc
    <2>5. Unconfigured(u.ds)
      BY <2>4, NoneAssumption DEF LoopInv, Unconfigured
    <2>6. \A i \in IrqNumbers \ Run(map.first_irq, map.count) : u.ds[i] = descs[i]
      BY <2>3, <2>4 DEF LoopInv
    <2>7. ASSUME NEW j \in 0 .. k
          PROVE  u.ds[map.first_irq + j] = [hwirq |-> map.first_hwirq + j, map |-> m, handler |-> NOBODY]
      <3>1. CASE j = k
        BY <2>4, <3>1
      <3>2. CASE j # k
        <4>1. j \in 0 .. (k - 1) /\ map.first_irq + j # irq /\ map.first_irq + j \in Nat
          BY <1>1, <3>2
        <4>2. map.first_irq + j \in IrqNumbers
          BY <1>1, <2>1, <4>1, IrqAssumption DEF IrqNumbers
        <4> QED
          BY <1>4, <2>4, <4>1, <4>2 DEF LoopInv
      <3> QED
        BY <3>1, <3>2
    <2> HIDE DEF u
    <2> QED
      BY <1>3, <2>5, <2>6, <2>7 DEF LoopInv
  <1>5. CASE ~(t.ok /\ CanConfigure(alloc, t.ds, irq, hwirq, map))
    <2>1. u = [t EXCEPT !.ok = FALSE]
      BY <1>2, <1>5 DEF ConfigureStep
    <2>2. u.ds = t.ds /\ u.ok = FALSE
      BY <1>3, <2>1 DEF LoopState
    <2> HIDE DEF u
    <2> QED
      BY <1>3, <2>2 DEF LoopInv
  <1> QED
    BY <1>4, <1>5

(* What the loop leaves behind.                                            *)
LEMMA ConfigureResult ==
  ASSUME IrqTypes, Unconfigured(descs), NEW alloc, NEW m \in Map,
         NEW map \in [first_irq : Nat, first_hwirq : Nat, count : Nat]
  PROVE  LoopInv(Configure(alloc, m, map), map.count, m, map)
  <1> DEFINE n == map.count
             base == [ds |-> descs, ok |-> TRUE]
             Turn(f, k) == IF k = 0 THEN base
                           ELSE ConfigureStep(f[k - 1], map.first_hwirq + k - 1, alloc, m, map)
             it == CHOOSE f : f = [k \in 0 .. n |-> Turn(f, k)]
             F == [x \in (1 .. n) \X LoopState |->
                     ConfigureStep(x[2], map.first_hwirq + x[1] - 1, alloc, m, map)]
  <1>1. n \in Nat /\ base \in LoopState /\ map.first_hwirq \in Nat
    BY DEF LoopState, IrqTypes
  <1>2. \A k \in 1 .. n : map.first_hwirq + k - 1 \in Nat
    BY <1>1
  <1>3. F \in [(1 .. n) \X LoopState -> LoopState]
    BY <1>2, StepType
  <1>4. \E f : f = [k \in 0 .. n |-> Turn(f, k)]
    <2>1. PICK h : IsLoop(h, LoopState, base, F, n)
      <3> HIDE DEF n, base, F
      <3> QED
        BY <1>1, <1>3, LoopExists
    <2>2. ASSUME NEW k \in 0 .. n PROVE h[k] = Turn(h, k)
      <3>1. k # 0 => k \in 1 .. n /\ h[k - 1] \in LoopState
        BY <1>1, <2>1 DEF IsLoop
      <3> QED
        BY <2>1, <3>1 DEF IsLoop
    <2> HIDE DEF Turn
    <2>3. h = [k \in 0 .. n |-> Turn(h, k)]
      BY <2>1, <2>2 DEF IsLoop
    <2> QED
      BY <2>3
  <1>5. it = [k \in 0 .. n |-> Turn(it, k)]
    <2> HIDE DEF Turn
    <2> QED
      BY <1>4, Zenon
  <1>6. Configure(alloc, m, map) = it[n]
    BY SMT DEF Configure
  <1> HIDE DEF it
  <1>7. /\ it[0] = base
        /\ \A k \in 1 .. n :
             it[k] = ConfigureStep(it[k - 1], map.first_hwirq + (k - 1), alloc, m, map)
    <2>1. it[0] = base
      BY <1>1, <1>5
    <2>2. ASSUME NEW k \in 1 .. n
          PROVE  it[k] = ConfigureStep(it[k - 1], map.first_hwirq + (k - 1), alloc, m, map)
      <3>1. /\ k \in 0 .. n /\ k # 0
            /\ map.first_hwirq + k - 1 = map.first_hwirq + (k - 1)
        BY <1>1
      <3>2. it[k] = Turn(it, k)
        BY <1>5, <3>1
      <3> QED
        BY <3>1, <3>2
    <2> QED
      BY <2>1, <2>2
  <1> DEFINE S == {k \in Nat : k <= n => LoopInv(it[k], k, m, map)}
  <1>8. 0 \in S
    <2>1. LoopInv(base, 0, m, map)
      BY <1>1 DEF LoopInv
    <2> QED
      BY <1>7, <2>1
  <1>9. ASSUME NEW k \in Nat, k \in S PROVE k + 1 \in S
    <2> SUFFICES ASSUME k + 1 <= n PROVE LoopInv(it[k + 1], k + 1, m, map)
      OBVIOUS
    <2>1. LoopInv(it[k], k, m, map) /\ k < n
      BY <1>1, <1>9
    <2>2. k + 1 \in 1 .. n /\ (k + 1) - 1 = k
      BY <1>1
    <2>3. it[k + 1] = ConfigureStep(it[k], map.first_hwirq + k, alloc, m, map)
      BY <1>7, <2>2
    <2> QED
      BY <2>1, <2>3, StepKeeps
  <1> HIDE DEF S
  <1>10. n \in S
    BY <1>1, <1>8, <1>9, SetInduction
  <1> QED
    BY <1>1, <1>6, <1>10 DEF S

-----------------------------------------------------------------------------
R(k) == Run(maps[k].first_irq, maps[k].count)

(* Two lines of controllers in use have two descriptors.                   *)
LEMMA LinesApart ==
  ASSUME IrqInv, NEW m \in live, NEW k \in live,
         NEW i \in Run(maps[m].first_hwirq, maps[m].count),
         NEW j \in Run(maps[k].first_hwirq, maps[k].count),
         maps[m].first_irq + (i - maps[m].first_hwirq)
           = maps[k].first_irq + (j - maps[k].first_hwirq)
  PROVE  m = k /\ i = j
  <1>1. maps[m] \in [first_irq : Nat, first_hwirq : Nat, count : Nat]
    BY DEF IrqInv, IrqTypes
  <1>2. maps[k] \in [first_irq : Nat, first_hwirq : Nat, count : Nat]
    BY DEF IrqInv, IrqTypes
  <1>3. /\ maps[m].first_irq + (i - maps[m].first_hwirq) \in R(m)
        /\ maps[k].first_irq + (j - maps[k].first_hwirq) \in R(k)
    BY <1>1, <1>2 DEF Run, R
  <1>4. m = k
    BY <1>3 DEF IrqInv, MapsPartitionIrqs, R
  <1> QED
    BY <1>1, <1>4 DEF Run

(* A line of a controller in use has an allocated descriptor.              *)
LEMMA LineNumber ==
  ASSUME IrqInv, NEW m \in live, NEW i \in Run(maps[m].first_hwirq, maps[m].count)
  PROVE  /\ i \in Nat
         /\ maps[m].first_irq + (i - maps[m].first_hwirq) \in R(m)
         /\ maps[m].first_irq + (i - maps[m].first_hwirq) \in IrqNumbers
         /\ irq_map_hwirq_to_irq(maps[m], i) = maps[m].first_irq + (i - maps[m].first_hwirq)
  <1>1. maps[m] \in [first_irq : Nat, first_hwirq : Nat, count : Nat]
    BY DEF IrqInv, IrqTypes
  <1>2. i \in Nat /\ maps[m].first_irq + (i - maps[m].first_hwirq) \in R(m)
    BY <1>1 DEF Run, R
  <1>3. R(m) \subseteq allocated /\ allocated \subseteq IrqNumbers
    BY DEF IrqInv, IrqTypes, MapsPartitionIrqs, R
  <1>4. irq_map_hwirq_to_irq(maps[m], i) = maps[m].first_irq + (i - maps[m].first_hwirq)
    BY <1>1 DEF Run, irq_map_hwirq_to_irq
  <1> QED
    BY <1>2, <1>3, <1>4

LEMMA ChipInitKeeps ==
  ASSUME IrqInv, NEW m \in Map, NEW first_hwirq \in Nat, NEW n \in Nat,
         ChipInit(m, first_hwirq, n)
  PROVE  IrqInv'
  <1> DEFINE map == [first_irq |-> Min(FreeRuns(n)), first_hwirq |-> first_hwirq, count |-> n]
             run == Run(Min(FreeRuns(n)), n)
             c == Configure(allocated \cup run, m, map)
  <1>1. /\ m \notin live /\ live' = live \cup {m} /\ FreeRuns(n) # {}
        /\ maps' = [maps EXCEPT ![m] = map] /\ allocated' = allocated \cup run
        /\ descs' = c.ds /\ ready' = (IF c.ok THEN ready \cup {m} ELSE ready)
        /\ UNCHANGED owner
    BY DEF ChipInit
  <1>2. /\ map \in [first_irq : Nat, first_hwirq : Nat, count : Nat]
        /\ run \cap allocated = {} /\ run \subseteq IrqNumbers
    BY <1>1, ScanFindsFree, IrqAssumption DEF Run, IrqNumbers
  <1>3. /\ map.first_irq = Min(FreeRuns(n)) /\ map.count = n /\ map.first_hwirq = first_hwirq
        /\ run = Run(map.first_irq, map.count)
    OBVIOUS
  <1>4. LoopInv(c, map.count, m, map)
    BY <1>2, ConfigureResult DEF IrqInv
  <1> HIDE DEF map, c
  <1>5. IrqTypes'
    <2>1. descs' \in [IrqNumbers -> Desc]
      BY <1>1, <1>4 DEF LoopInv, LoopState
    <2>2. maps' \in [Map -> [first_irq : Nat, first_hwirq : Nat, count : Nat]]
      BY <1>1, <1>2 DEF IrqInv, IrqTypes
    <2>3. live' \subseteq Map /\ ready' \subseteq live' /\ allocated' \subseteq IrqNumbers
      BY <1>1, <1>2 DEF IrqInv, IrqTypes
    <2> QED
      BY <1>1, <2>1, <2>2, <2>3 DEF IrqInv, IrqTypes
  <1>6. /\ maps'[m] = map
        /\ Run(maps'[m].first_irq, maps'[m].count) = run
        /\ \A k \in live : maps'[k] = maps[k]
    BY <1>1, <1>3 DEF IrqInv, IrqTypes
  <1>7. \A k \in live : Run(maps[k].first_irq, maps[k].count) \subseteq allocated
    BY DEF IrqInv, MapsPartitionIrqs
  <1> HIDE DEF run
  <1>8. MapsPartitionIrqs'
    <2>1. allocated' = UNION {Run(maps'[k].first_irq, maps'[k].count) : k \in live'}
      BY <1>1, <1>6 DEF IrqInv, MapsPartitionIrqs
    <2>2. ASSUME NEW j \in live', NEW k \in live', j # k
          PROVE  Run(maps'[j].first_irq, maps'[j].count)
                   \cap Run(maps'[k].first_irq, maps'[k].count) = {}
      <3>1. CASE j = m \/ k = m
        BY <1>1, <1>2, <1>6, <1>7, <2>2, <3>1
      <3>2. CASE j # m /\ k # m
        BY <1>1, <1>6, <2>2, <3>2 DEF IrqInv, MapsPartitionIrqs
      <3> QED
        BY <3>1, <3>2
    <2> QED
      BY <2>1, <2>2 DEF MapsPartitionIrqs
  <1>9. Unconfigured(descs')
    BY <1>1, <1>4 DEF LoopInv
  <1>10. ready \subseteq live /\ m \notin ready /\ \A k \in ready : maps'[k] = maps[k]
    BY <1>1, <1>6 DEF IrqInv, IrqTypes
  <1>11. \A h \in Handler : owner[h] # <<>> => owner[h][1] # m
    BY <1>10 DEF IrqInv, OwnersReady
  <1>12. OwnersReady'
    BY <1>1, <1>10, <1>11 DEF IrqInv, OwnersReady
  <1>13. LinesServed'
    <2> SUFFICES ASSUME NEW k \in ready', NEW i \in Run(maps'[k].first_hwirq, maps'[k].count)
                 PROVE  LET d == descs'[maps'[k].first_irq + (i - maps'[k].first_hwirq)]
                        IN  /\ d.hwirq = i /\ d.map = k
                            /\ \A h \in Handler : owner'[h] = <<k, i>> <=> d.handler = h
      BY DEF LinesServed
    <2>1. CASE k = m
      <3>1. c.ok
        BY <1>1, <1>10, <2>1
      <3>2. i - map.first_hwirq \in 0 .. (map.count - 1)
            /\ map.first_hwirq + (i - map.first_hwirq) = i
        BY <1>2, <1>6, <2>1 DEF Run
      <3>3. descs'[map.first_irq + (i - map.first_hwirq)]
              = [hwirq |-> i, map |-> m, handler |-> NOBODY]
        BY <1>1, <1>4, <3>1, <3>2 DEF LoopInv
      <3>4. \A h \in Handler : owner'[h] # <<m, i>> /\ h # NOBODY
        <4>1. <<m, i>> # <<>> /\ <<m, i>>[1] = m
          OBVIOUS
        <4> QED
          BY <1>1, <1>11, <4>1, NoneAssumption
      <3> QED
        BY <1>6, <2>1, <3>3, <3>4
    <2>2. CASE k # m
      <3>1. k \in ready /\ k \in live /\ maps'[k] = maps[k]
        BY <1>1, <1>10, <2>2
      <3> DEFINE irq == maps[k].first_irq + (i - maps[k].first_hwirq)
      <3>2. irq \in R(k) /\ irq \in IrqNumbers
        BY <3>1, LineNumber
      <3>3. irq \notin run
        BY <1>2, <1>7, <3>1, <3>2 DEF R
      <3>4. descs'[irq] = descs[irq]
        BY <1>1, <1>3, <1>4, <3>2, <3>3 DEF LoopInv
      <3> HIDE DEF irq
      <3>5. /\ descs[irq].hwirq = i /\ descs[irq].map = k
            /\ \A h \in Handler : owner[h] = <<k, i>> <=> descs[irq].handler = h
        BY <3>1 DEF IrqInv, LinesServed, irq
      <3> QED
        BY <1>1, <3>1, <3>4, <3>5 DEF irq
    <2> QED
      BY <2>1, <2>2
  <1> QED
    BY <1>5, <1>8, <1>9, <1>12, <1>13 DEF IrqInv

LEMMA DestroyKeeps ==
  ASSUME IrqInv, NEW m \in Map, irq_map_destroy(m)
  PROVE  IrqInv'
  <1>1. /\ m \in live /\ live' = live \ {m} /\ UNCHANGED <<maps, descs>>
        /\ allocated' = allocated \ Run(maps[m].first_irq, maps[m].count)
        /\ ready' = ready \ {m}
        /\ owner' = [h \in Handler |-> IF owner[h] # <<>> /\ owner[h][1] = m
                                         THEN <<>> ELSE owner[h]]
    BY DEF irq_map_destroy
  <1>2. /\ allocated = UNION {R(k) : k \in live}
        /\ \A j, k \in live : j # k => R(j) \cap R(k) = {}
    BY DEF IrqInv, MapsPartitionIrqs, R
  <1>3. /\ MapsPartitionIrqs' <=>
             /\ allocated' = UNION {R(k) : k \in live'}
             /\ \A j, k \in live' : j # k => R(j) \cap R(k) = {}
    BY <1>1 DEF MapsPartitionIrqs, R
  <1>4. allocated' = UNION {R(k) : k \in live'}
    <2>1. allocated' = (UNION {R(k) : k \in live}) \ R(m)
      BY <1>1, <1>2 DEF R
    <2> QED
      BY <1>1, <1>2, <2>1
  <1>5. MapsPartitionIrqs'
    BY <1>1, <1>2, <1>3, <1>4
  <1>6. IrqTypes'
    <2>1. owner' \in [Handler -> {<<>>} \cup (Map \X Nat)]
      BY <1>1 DEF IrqInv, IrqTypes
    <2> QED
      BY <1>1, <2>1 DEF IrqInv, IrqTypes
  <1>7. OwnersReady'
    BY <1>1 DEF IrqInv, OwnersReady
  <1>8. \A k \in Map, i \in Nat, h \in Handler :
          k # m => (owner'[h] = <<k, i>> <=> owner[h] = <<k, i>>)
    BY <1>1
  <1>9. LinesServed'
    <2> SUFFICES ASSUME NEW k \in ready', NEW i \in Run(maps[k].first_hwirq, maps[k].count)
                 PROVE  LET d == descs[maps[k].first_irq + (i - maps[k].first_hwirq)]
                        IN  /\ d.hwirq = i /\ d.map = k
                            /\ \A h \in Handler : owner'[h] = <<k, i>> <=> d.handler = h
      BY <1>1 DEF LinesServed
    <2>1. k \in ready /\ k # m /\ k \in live /\ k \in Map /\ i \in Nat
      BY <1>1, LineNumber DEF IrqInv, IrqTypes
    <2> QED
      BY <1>8, <2>1 DEF IrqInv, LinesServed
  <1> QED
    BY <1>1, <1>5, <1>6, <1>7, <1>9 DEF IrqInv

(* irq_request and irq_free change the handler of one line of a controller *)
(* that was set up, and who owns it.                                       *)
HandlerChange(m, i, h, num, old, new) ==
  /\ num = irq_map_hwirq_to_irq(maps[m], i)
  /\ descs[num].handler = old
  /\ descs' = [descs EXCEPT ![num] =
       [hwirq |-> descs[num].hwirq, map |-> descs[num].map, handler |-> new]]
  /\ \/ /\ old = h /\ new = NOBODY
        /\ owner[h] = <<m, i>> /\ owner' = [owner EXCEPT ![h] = <<>>]
     \/ /\ old = NOBODY /\ new = h
        /\ owner[h] = <<>> /\ owner' = [owner EXCEPT ![h] = <<m, i>>]
  /\ UNCHANGED <<allocated, maps, live, ready>>

LEMMA HandlerChangeKeeps ==
  ASSUME IrqInv, NEW m \in ready, NEW i \in Run(maps[m].first_hwirq, maps[m].count),
         NEW h \in Handler, NEW num, NEW old, NEW new,
         HandlerChange(m, i, h, num, old, new)
  PROVE  IrqInv'
  <1> DEFINE irq == maps[m].first_irq + (i - maps[m].first_hwirq)
  <1>0. allocated' = allocated /\ maps' = maps /\ live' = live /\ ready' = ready
    BY DEF HandlerChange
  <1>1. /\ m \in live /\ i \in Nat /\ irq \in R(m) /\ irq \in IrqNumbers /\ m \in Map
        /\ irq_map_hwirq_to_irq(maps[m], i) = irq
    BY LineNumber DEF IrqInv, IrqTypes
  <1>2. /\ h # NOBODY /\ NOBODY \notin Handler
        /\ (old = h /\ new = NOBODY) \/ (old = NOBODY /\ new = h)
    BY NoneAssumption DEF HandlerChange
  <1>3. /\ descs[irq].hwirq = i /\ descs[irq].map = m /\ descs[irq].handler = old
        /\ \A g \in Handler : owner[g] = <<m, i>> <=> descs[irq].handler = g
    BY <1>1 DEF IrqInv, LinesServed, HandlerChange
  <1>4. descs \in [IrqNumbers -> Desc] /\ descs[irq] \in Desc
    BY <1>1 DEF IrqInv, IrqTypes
  <1>5. descs' = [descs EXCEPT ![irq] =
           [hwirq |-> descs[irq].hwirq, map |-> descs[irq].map, handler |-> new]]
    BY <1>1 DEF HandlerChange
  <1>6. /\ descs'[irq].hwirq = i /\ descs'[irq].map = m /\ descs'[irq].handler = new
        /\ \A j \in IrqNumbers : j # irq => descs'[j] = descs[j]
        /\ descs' \in [IrqNumbers -> Desc]
    <2> DEFINE d == [hwirq |-> descs[irq].hwirq, map |-> descs[irq].map, handler |-> new]
    <2>1. descs' = [descs EXCEPT ![irq] = d]
      BY <1>1, <1>4, <1>5
    <2>2. d \in Desc /\ d.hwirq = i /\ d.map = m /\ d.handler = new
      BY <1>2, <1>3, <1>4 DEF Desc
    <2> HIDE DEF d
    <2>3. descs'[irq] = d /\ \A j \in IrqNumbers : j # irq => descs'[j] = descs[j]
      BY <1>1, <1>4, <2>1
    <2>4. descs' \in [IrqNumbers -> Desc]
      BY <1>1, <1>4, <2>1, <2>2
    <2> QED
      BY <2>2, <2>3, <2>4
  <1> HIDE DEF irq
  <1>7. /\ owner'[h] = (IF new = h THEN <<m, i>> ELSE <<>>)
        /\ owner[h] = (IF new = h THEN <<>> ELSE <<m, i>>)
        /\ \A g \in Handler : g # h => owner'[g] = owner[g]
        /\ owner' \in [Handler -> {<<>>} \cup (Map \X Nat)]
    <2>1. owner \in [Handler -> {<<>>} \cup (Map \X Nat)] /\ <<m, i>> \in Map \X Nat
      BY <1>1 DEF IrqInv, IrqTypes
    <2>2. CASE new = h
      <3>1. owner' = [owner EXCEPT ![h] = <<m, i>>] /\ owner[h] = <<>>
        BY <1>2, <2>2 DEF HandlerChange
      <3> QED
        BY <2>1, <2>2, <3>1
    <2>3. CASE new # h
      <3>1. owner' = [owner EXCEPT ![h] = <<>>] /\ owner[h] = <<m, i>>
        BY <1>2, <2>3 DEF HandlerChange
      <3> QED
        BY <2>1, <2>3, <3>1
    <2> QED
      BY <2>2, <2>3
  <1>8. IrqTypes' /\ MapsPartitionIrqs'
    <2>1. IrqTypes'
      BY <1>6, <1>7, <1>0 DEF IrqInv, IrqTypes
    <2>2. MapsPartitionIrqs'
      BY <1>0 DEF IrqInv, MapsPartitionIrqs
    <2> QED
      BY <2>1, <2>2
  <1>9. Unconfigured(descs')
    BY <1>1, <1>6, NoneAssumption DEF IrqInv, Unconfigured
  <1>10. OwnersReady'
    BY <1>0, <1>7 DEF IrqInv, OwnersReady
  <1>11. LinesServed'
    <2> SUFFICES ASSUME NEW k \in ready, NEW j \in Run(maps[k].first_hwirq, maps[k].count)
                 PROVE  LET d == descs'[maps[k].first_irq + (j - maps[k].first_hwirq)]
                        IN  /\ d.hwirq = j /\ d.map = k
                            /\ \A g \in Handler : owner'[g] = <<k, j>> <=> d.handler = g
      BY <1>0 DEF LinesServed
    <2> DEFINE other == maps[k].first_irq + (j - maps[k].first_hwirq)
    <2>1. k \in live /\ other \in IrqNumbers
      BY LineNumber DEF IrqInv, IrqTypes
    <2>2. other = irq => k = m /\ j = i
      BY <1>1, <2>1, LinesApart DEF irq
    <2>3. /\ descs[other].hwirq = j /\ descs[other].map = k
          /\ \A g \in Handler : owner[g] = <<k, j>> <=> descs[other].handler = g
      BY DEF IrqInv, LinesServed
    <2>4. k = m /\ j = i => other = irq
      BY DEF irq
    <2> HIDE DEF other
    <2>5. CASE other = irq
      <3>1. \A g \in Handler : owner'[g] = <<m, i>> <=> new = g
        <4>1. <<m, i>> # <<>>
          OBVIOUS
        <4> QED
          BY <1>2, <1>3, <1>7, <4>1
      <3> QED
        BY <1>6, <2>2, <2>5, <3>1 DEF other
    <2>6. CASE other # irq
      <3>1. <<k, j>> # <<m, i>>
        BY <2>4, <2>6
      <3>2. \A g \in Handler : owner'[g] = <<k, j>> <=> owner[g] = <<k, j>>
        <4>1. <<k, j>> # <<>>
          OBVIOUS
        <4> QED
          BY <1>7, <3>1, <4>1
      <3> QED
        BY <1>6, <2>1, <2>3, <2>6, <3>2 DEF other
    <2> QED
      BY <2>5, <2>6
  <1> QED
    BY <1>8, <1>9, <1>10, <1>11 DEF IrqInv

(* A line that a map resolves is one of its own.                           *)
LEMMA LineOfIrq ==
  ASSUME IrqInv, NEW m \in Map, NEW hwirq \in HwIrqs,
         irq_map_hwirq_to_irq(maps[m], hwirq) # -1
  PROVE  hwirq \in Run(maps[m].first_hwirq, maps[m].count)
  <1>1. maps[m] \in [first_irq : Nat, first_hwirq : Nat, count : Nat]
    BY DEF IrqInv, IrqTypes
  <1>2. hwirq \in Int
    BY IrqAssumption DEF HwIrqs, Run
  <1> QED
    BY <1>1, <1>2 DEF Run, irq_map_hwirq_to_irq

LEMMA NextIrqInv == IrqInv /\ [IrqNext]_irq_vars => IrqInv'
  <1> SUFFICES ASSUME IrqInv, [IrqNext]_irq_vars PROVE IrqInv'
    OBVIOUS
  <1>1. ASSUME NEW m \in Map, NEW r \in HwRanges, ChipInit(m, r[1], r[2]) PROVE IrqInv'
    BY <1>1, ChipInitKeeps, IrqAssumption
  <1>2. ASSUME NEW m \in Map, irq_map_destroy(m) PROVE IrqInv'
    BY <1>2, DestroyKeeps
  <1>3. ASSUME UNCHANGED irq_vars PROVE IrqInv'
    <2>1. /\ allocated' = allocated /\ maps' = maps /\ descs' = descs /\ live' = live
          /\ ready' = ready /\ owner' = owner
      BY <1>3 DEF irq_vars
    <2>2. IrqTypes' /\ Unconfigured(descs')
      BY <2>1 DEF IrqInv, IrqTypes
    <2>3. MapsPartitionIrqs'
      BY <2>1 DEF IrqInv, MapsPartitionIrqs
    <2>4. LinesServed'
      BY <2>1 DEF IrqInv, LinesServed
    <2>5. OwnersReady'
      BY <2>1 DEF IrqInv, OwnersReady
    <2> QED
      BY <2>2, <2>3, <2>4, <2>5 DEF IrqInv
  <1>4. ASSUME NEW m \in Map, NEW hwirq \in HwIrqs, NEW h \in Handler, irq_request(m, hwirq, h)
        PROVE  IrqInv'
    <2> DEFINE irq == irq_map_hwirq_to_irq(maps[m], hwirq)
    <2>1. /\ m \in ready /\ irq # -1 /\ owner[h] = <<>> /\ descs[irq].handler = NOBODY
          /\ descs' = [descs EXCEPT ![irq].handler = h]
          /\ owner' = [owner EXCEPT ![h] = <<m, hwirq>>]
          /\ UNCHANGED <<allocated, maps, live, ready>>
      BY <1>4 DEF irq_request, Requestable
    <2>2. hwirq \in Run(maps[m].first_hwirq, maps[m].count)
      BY <1>4, <2>1, LineOfIrq
    <2>6. descs' = [descs EXCEPT ![irq] =
             [hwirq |-> descs[irq].hwirq, map |-> descs[irq].map, handler |-> h]]
      <3>1. irq \in IrqNumbers
        BY <2>1, <2>2, LineNumber DEF IrqInv, IrqTypes
      <3> HIDE DEF irq
      <3> DEFINE d == [descs[irq] EXCEPT !.handler = h]
      <3>2. descs' = [descs EXCEPT ![irq] = d]
        BY <2>1
      <3>3. descs[irq] \in Desc
        BY <3>1 DEF IrqInv, IrqTypes
      <3>4. d = [hwirq |-> descs[irq].hwirq, map |-> descs[irq].map, handler |-> h]
        BY <3>3 DEF Desc
      <3> QED
        BY <3>2, <3>4
    <2>7. HandlerChange(m, hwirq, h, irq, NOBODY, h)
      BY <2>1, <2>6 DEF HandlerChange
    <2> QED
      BY <2>1, <2>2, <2>7, HandlerChangeKeeps
  <1>5. ASSUME NEW m \in Map, NEW hwirq \in HwIrqs, irq_free(m, hwirq) PROVE IrqInv'
    <2> DEFINE irq == irq_map_hwirq_to_irq(maps[m], hwirq)
               h == descs[irq].handler
    <2>1. /\ m \in ready /\ irq \in allocated /\ descs[irq].handler # NOBODY
          /\ descs' = [descs EXCEPT ![irq].handler = NOBODY]
          /\ owner' = [owner EXCEPT ![h] = <<>>]
          /\ UNCHANGED <<allocated, maps, live, ready>>
      BY <1>5 DEF irq_free
    <2>2. irq \in IrqNumbers /\ irq # -1
      BY <2>1, IrqAssumption DEF IrqInv, IrqTypes, IrqNumbers
    <2>3. hwirq \in Run(maps[m].first_hwirq, maps[m].count)
      BY <1>5, <2>1, <2>2, LineOfIrq
    <2>4. h \in Handler
      BY <2>1, <2>2 DEF IrqInv, IrqTypes, Desc
    <2>5. owner[h] = <<m, hwirq>>
      <3>1. m \in live
        BY <2>1 DEF IrqInv, IrqTypes
      <3>2. irq = maps[m].first_irq + (hwirq - maps[m].first_hwirq)
        BY <2>3, <3>1, LineNumber
      <3>3. \A g \in Handler : owner[g] = <<m, hwirq>> <=> descs[irq].handler = g
        BY <2>1, <2>3, <3>2 DEF IrqInv, LinesServed
      <3> QED
        BY <2>4, <3>3
    <2> HIDE DEF h
    <2>7. descs[irq].handler = h
      BY DEF h
    <2>8. descs' = [descs EXCEPT ![irq] =
             [hwirq |-> descs[irq].hwirq, map |-> descs[irq].map, handler |-> NOBODY]]
      <3> HIDE DEF irq
      <3> DEFINE d == [descs[irq] EXCEPT !.handler = NOBODY]
      <3>1. descs' = [descs EXCEPT ![irq] = d]
        BY <2>1
      <3>2. d = [hwirq |-> descs[irq].hwirq, map |-> descs[irq].map, handler |-> NOBODY]
        BY <2>2 DEF IrqInv, IrqTypes, Desc
      <3> QED
        BY <3>1, <3>2
    <2>9. HandlerChange(m, hwirq, h, irq, h, NOBODY)
      BY <2>1, <2>5, <2>7, <2>8 DEF HandlerChange
    <2> QED
      BY <2>1, <2>3, <2>4, <2>9, HandlerChangeKeeps
  <1> QED
    BY <1>1, <1>2, <1>3, <1>4, <1>5 DEF IrqNext

(* After any sequence of irq_map_init and irq_map_destroy the maps that    *)
(* are in use divide the allocated IRQ numbers among them.                 *)
THEOREM MapsPartition == IrqSpec => []MapsPartitionIrqs
  <1>1. IrqInv => MapsPartitionIrqs
    BY DEF IrqInv
  <1> QED
    BY <1>1, InitIrqInv, NextIrqInv, PTL DEF IrqSpec

(* Whatever controllers are set up and removed and whatever drivers        *)
(* request and free, an interrupt of a line of a controller that was set   *)
(* up without an error reaches the handler requested for that line and no  *)
(* other, and a requested handler is never displaced (irq_desc_configure,  *)
(* irq_request, irq_free, irq_map_destroy).                                *)
THEOREM HandlersServe == IrqSpec => []HandlersServeTheirLine
  <1>1. IrqInv => HandlersServeTheirLine
    <2> SUFFICES ASSUME IrqInv PROVE HandlersServeTheirLine
      OBVIOUS
    <2>1. IrqTypeOK
      BY DEF IrqInv, IrqTypes, IrqTypeOK, Desc
    <2>2. ASSUME NEW m \in ready, NEW hwirq \in Run(maps[m].first_hwirq, maps[m].count)
          PROVE  LET d == descs[irq_map_hwirq_to_irq(maps[m], hwirq)]
                 IN  /\ d.hwirq = hwirq /\ d.map = m
                     /\ {h \in Handler : owner[h] = <<m, hwirq>>}
                          = {irq_dispatch(m, hwirq)} \ {NOBODY}
      <3> DEFINE irq == maps[m].first_irq + (hwirq - maps[m].first_hwirq)
      <3>1. /\ m \in live /\ irq \in IrqNumbers
            /\ irq_map_hwirq_to_irq(maps[m], hwirq) = irq
        BY LineNumber DEF IrqInv, IrqTypes
      <3>2. /\ descs[irq].hwirq = hwirq /\ descs[irq].map = m
            /\ \A h \in Handler : owner[h] = <<m, hwirq>> <=> descs[irq].handler = h
        BY DEF IrqInv, LinesServed
      <3>3. descs[irq].handler \in Handler \cup {NOBODY} /\ NOBODY \notin Handler
        BY <3>1, NoneAssumption DEF IrqInv, IrqTypes, Desc
      <3>4. irq # -1
        BY <3>1, IrqAssumption DEF IrqNumbers
      <3>5. irq_dispatch(m, hwirq) = descs[irq].handler
        BY <3>1, <3>4 DEF irq_dispatch
      <3> HIDE DEF irq
      <3> QED
        BY <3>1, <3>2, <3>3, <3>5
    <2> QED
      BY <2>1, <2>2 DEF HandlersServeTheirLine
  <1> QED
    BY <1>1, InitIrqInv, NextIrqInv, PTL DEF IrqSpec
=============================================================================
