------------------------------ MODULE Devices ---------------------------------
(***************************************************************************)
(* The device model (kernel/device) while the devdrv initcalls run: each   *)
(* of them registers one device or one driver with the platform bus, which *)
(* matches by name and probes.  The probes are those of the i8254 timer    *)
(* and of the VGA text console.  The initcalls run in link order, which    *)
(* nothing in the sources fixes: here the next one is any that is left.    *)
(***************************************************************************)
EXTENDS Integers, Sequences, Functions, FiniteSets

CONSTANTS
  Timer, Vga,     \* platform devices named "i8254" and "vga-text"
  TimerDriver, VgaDriver,
  Line,           \* the IRQ line in the resources of each timer
  Rooms           \* how many private structures the heap may have room for

Device == Timer \cup Vga
Driver == TimerDriver \cup VgaDriver

NONE == "none"

(* A device has one name and a driver is for one; the heap's room counts   *)
(* structures.                                                             *)
ASSUME DevicesAssumption ==
  /\ Timer \cap Vga = {} /\ TimerDriver \cap VgaDriver = {} /\ Device \cap Driver = {}
  /\ NONE \notin Device \cup Driver
  /\ Line \in [Timer -> Nat] /\ Rooms \subseteq Nat

VARIABLES
  bus,       \* the device list, the driver list and each device's driver
  world,     \* what probes change: the heap, driver_data, IRQ lines, timers,
             \* the active console
  pending,   \* the initcalls left
  failed,    \* an initcall has returned an error
  res,       \* ghost: what the resources of each device are like
  room, textmode,
  tried,     \* ghost: the pairs that have been probed
  listed     \* ghost: how many devices each driver found on the bus

vars == <<bus, world, pending, failed, res, room, textmode, tried, listed>>

(* "missing": a resource is absent (or the MMIO range has another size);   *)
(* "unmapped": the IRQ line is not in its map.  At most one device is bad. *)
Resources ==
  {r \in [Device -> {"good", "missing", "unmapped"}] :
     Cardinality({d \in Device : r[d] # "good"}) <= 1}

Init ==
  /\ bus = [devices |-> <<>>, drivers |-> <<>>, driver |-> [d \in Device |-> NONE]]
  /\ world = [heap |-> {}, data |-> {}, lines |-> {}, timers |-> <<>>, con |-> NONE]
  /\ pending = Device \cup Driver /\ failed = FALSE
  /\ res \in Resources /\ room \in Rooms /\ textmode \in BOOLEAN
  /\ tried = {} /\ listed = [v \in Driver |-> 0]

-----------------------------------------------------------------------------
platform_match(d, v) == (d \in Timer) <=> (v \in TimerDriver)

Failed(w)    == [ok |-> FALSE, w |-> w]
Succeeded(w) == [ok |-> TRUE, w |-> w]

(* The private structure of device d; the heap has room for so many.       *)
kmalloc_fails(w) == Cardinality(w.heap) >= room
kmalloc(w, d) == [w EXCEPT !.heap = @ \cup {d}]
kfree(w, d)   == [w EXCEPT !.heap = @ \ {d}]

irq_busy(w, d) == \E l \in w.lines : l[1] = Line[d]

(* A probe of device d: its result and what it leaves.                     *)
i8254_probe_KeepsMemory(w, d) ==
  IF kmalloc_fails(w) THEN Failed(w)
  ELSE LET w1 == kmalloc(w, d)
       IN  IF res[d] # "good" THEN Failed(kfree(w1, d))
           ELSE IF irq_busy(w1, d) THEN Failed(w1)
           ELSE Succeeded([w1 EXCEPT !.lines = @ \cup {<<Line[d], d>>},
                                     !.data = @ \cup {d},
                                     !.timers = Append(@, d)])

(* Memory, resources, IRQ number, irq_request and timer_device_register,   *)
(* in this order; the last one cannot fail.                                *)
i8254_probe(w, d) ==
  IF kmalloc_fails(w) THEN Failed(w)
  ELSE LET w1 == kmalloc(w, d)
       IN  IF res[d] # "good" \/ irq_busy(w1, d) THEN Failed(kfree(w1, d))
           ELSE Succeeded([w1 EXCEPT !.lines = @ \cup {<<Line[d], d>>},
                                     !.data = @ \cup {d},
                                     !.timers = Append(@, d)])

(* driver_data is set before console_register and stays when that fails.   *)
vga_text_probe(w, d) ==
  IF res[d] = "missing" \/ kmalloc_fails(w) THEN Failed(w)
  ELSE LET w1 == [kmalloc(w, d) EXCEPT !.data = @ \cup {d}]
       IN  IF w1.con # NONE THEN Failed(kfree(w1, d))
           ELSE Succeeded([w1 EXCEPT !.con = d])

platform_probe(w, d, v) ==
  IF v \in TimerDriver THEN i8254_probe(w, d) ELSE vga_text_probe(w, d)

(* One pass of the loops: probe the pair p if device and driver match.     *)
Try(s, p) ==
  IF s.stop \/ s.driver[p[1]] # NONE \/ ~ platform_match(p[1], p[2]) THEN s
  ELSE LET r == platform_probe(s.w, p[1], p[2])
       IN  [s EXCEPT !.w = r.w, !.tried = @ \cup {p}, !.stop = r.ok,
                     !.driver[p[1]] = IF r.ok THEN p[2] ELSE @]

Start == [w |-> world, driver |-> bus.driver, tried |-> tried, stop |-> FALSE]

(* The loops over a list of pairs end at the first probe that succeeds.    *)
TryEach(pairs) ==
  LET after[k \in 0 .. Len(pairs)] == IF k = 0 THEN Start ELSE Try(after[k - 1], pairs[k])
  IN  after[Len(pairs)]

Finish(s) ==
  /\ world' = s.w /\ tried' = s.tried
  /\ UNCHANGED <<res, room, textmode>>

WithDrivers(d) == [i \in DOMAIN bus.drivers |-> <<d, bus.drivers[i]>>]
WithDevices(v) == [i \in DOMAIN bus.devices |-> <<bus.devices[i], v>>]

bus_add_device_Unlisted(d) ==
  LET s == TryEach(WithDrivers(d))
  IN  /\ bus' = [bus EXCEPT !.driver = s.driver,
                            !.devices = IF s.stop THEN Append(@, d) ELSE @]
      /\ Finish(s) /\ UNCHANGED listed

bus_add_device(d) ==
  LET s == TryEach(WithDrivers(d))
  IN  /\ bus' = [bus EXCEPT !.devices = Append(@, d), !.driver = s.driver]
      /\ Finish(s) /\ UNCHANGED listed

bus_add_driver(v) ==
  LET s == TryEach(WithDevices(v))
  IN  /\ bus' = [bus EXCEPT !.drivers = Append(@, v), !.driver = s.driver]
      /\ Finish(s) /\ listed' = [listed EXCEPT ![v] = Len(bus.devices)]

-----------------------------------------------------------------------------
(* The next initcall; one that fails ends the phase.  vga_device_init      *)
(* fails unless the BIOS left a text mode.                                 *)
Initcall(c) ==
  /\ ~ failed /\ pending' = pending \ {c}
  /\ IF c \in Vga /\ ~ textmode
       THEN failed' = TRUE /\ UNCHANGED <<bus, world, res, room, textmode, tried, listed>>
       ELSE /\ UNCHANGED failed
            /\ IF c \in Device THEN bus_add_device(c) ELSE bus_add_driver(c)

Next == \E c \in pending : Initcall(c)

Spec == Init /\ [][Next]_vars
-----------------------------------------------------------------------------
Registered == (Device \cup Driver) \ (pending \cup (IF textmode THEN {} ELSE Vga))
Bound(d) == bus.driver[d] # NONE

(* The state has its types.                                                *)
TypeOK ==
  /\ Range(bus.devices) \subseteq Device /\ Range(bus.drivers) \subseteq Driver
  /\ IsInjective(bus.devices) /\ IsInjective(bus.drivers)
  /\ bus.driver \in [Device -> Driver \cup {NONE}]
  /\ world.heap \subseteq Device /\ Cardinality(world.heap) <= room
  /\ Range(world.timers) \subseteq Timer /\ world.con \in Vga \cup {NONE}
  /\ \A l \in world.lines : l[2] \in Timer
  /\ tried \subseteq Device \X Driver /\ listed \in [Driver -> Nat]

(* What probes take from the heap, the IRQ layer, the timer list and the   *)
(* console belongs to bound devices only, and each of those has all of it, *)
(* a line to itself and a driver on the bus that matches: a probe that     *)
(* fails at any of its steps leaves nothing behind.                        *)
ProbesAllOrNothing ==
  /\ TypeOK
  /\ world.heap = {d \in Device : Bound(d)}
  /\ {l[2] : l \in world.lines} = {d \in Timer : Bound(d)}
  /\ \A k, l \in world.lines : k[1] = l[1] => k = l
  /\ Range(world.timers) = {d \in Timer : Bound(d)} /\ IsInjective(world.timers)
  /\ {world.con} \ {NONE} = {d \in Vga : Bound(d)}
  /\ \A d \in Device : Bound(d) =>
       /\ d \in Range(bus.devices) /\ bus.driver[d] \in Range(bus.drivers)
       /\ (d \in Timer) <=> (bus.driver[d] \in TimerDriver)

(* What bus.h says of bus_add_driver, that it attempts each device on the  *)
(* bus, and the documentation of the device model, that devices and        *)
(* drivers can be registered in either order: a registered device without  *)
(* a driver has been probed by every registered driver that matches it.    *)
(* bus_add_driver ends its loop at the first device it binds, so this is   *)
(* not so.                                                                 *)
EachDeviceTried ==
  \A d \in Registered \cap Device, v \in Registered \cap Driver :
    platform_match(d, v) /\ ~ Bound(d) => <<d, v>> \in tried

(* What the loops do give: a device without a driver has been probed by    *)
(* every matching driver that was on the bus before it, and by every later *)
(* one up to the device where that driver's loop ended, an earlier device  *)
(* of the list that it found there and that is bound to it.                *)
TriedUntilFirstBound ==
  \A d \in Registered \cap Device, v \in Registered \cap Driver :
    platform_match(d, v) /\ ~ Bound(d) =>
      \/ <<d, v>> \in tried
      \/ \E i, j \in 1 .. listed[v] :
           i < j /\ bus.devices[j] = d /\ bus.driver[bus.devices[i]] = v
=============================================================================
