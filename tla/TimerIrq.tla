------------------------------ MODULE TimerIrq --------------------------------
(***************************************************************************)
(* Interrupts at work: devices raise lines of the 8259 pair, the CPU takes *)
(* them when its interrupt flag is set, irq_dispatch runs the line's       *)
(* handler and ends the interrupt, or returns when there is no handler.    *)
(* Line 0 is the i8254 timer, with its driver; a client starts and stops   *)
(* the timer from the main thread, from the timer's own event callback and *)
(* from other devices' handlers, while other drivers request, free, enable *)
(* and disable their lines, in any order.                                  *)
(***************************************************************************)
EXTENDS I8259, I8254

CONSTANTS
  Deltas,    \* the intervals that callers ask for
  Loadable   \* the lines whose drivers come and go

ASSUME TimerAssumption ==
  0 \in Lines /\ Loadable \subseteq Lines \ {0} /\ Deltas \subseteq Nat

VARIABLES
  irr, isr, imr,  \* the controllers
  pit,            \* the i8254 counter: shape ("idle", "periodic", "oneshot"),
                  \* ticks, and as a ghost the interval ns asked for
  intflag,        \* the CPU's interrupt flag
  cpu,            \* "main", or where the interrupt handler is
  vec,            \* the line of the vector being handled
  handlers,       \* the lines with a handler
  mode,           \* timer->mode
  todo,           \* mask updates left of the main thread's irq_enable/disable
  read,           \* the mask that the current update has read
  reading,        \* whether it has
  holdoff,        \* ghost: drivers change masks only while interrupts are off
  asked,          \* ghost: the lines enabled by the last call on them
  armed,          \* ghost: the timer was started and owes an event
  unserved        \* ghost: the lines whose interrupt found no handler

chip == <<irr, isr, imr>>
update == <<todo, read, reading, holdoff>>
lines == <<handlers, unserved>>
vars == <<chip, pit, intflag, cpu, vec, mode, update, asked, armed, lines>>

Others == Lines \ {0}
Idle == [shape |-> "idle", ticks |-> 0, ns |-> 0]

(* After i8259_init, the probe of the timer and those of the drivers that  *)
(* stay: everything masked.  Interrupts are still off.                     *)
Init ==
  /\ irr = {} /\ isr = {} /\ imr = Lines \cup {CASCADE}
  /\ pit = Idle /\ intflag = FALSE /\ cpu = "main" /\ vec = 0
  /\ mode = "DISABLED"
  /\ todo = <<>> /\ read = {} /\ reading = FALSE /\ holdoff \in BOOLEAN
  /\ asked = {} /\ armed = FALSE
  /\ handlers = Lines \ Loadable /\ unserved = {}

-----------------------------------------------------------------------------
(* The devices and the counter.  The request of a line stays latched.      *)
DeviceRaises(l) ==
  /\ l \notin irr
  /\ irr' = irr \cup {l}
  /\ UNCHANGED <<isr, imr, pit, intflag, cpu, vec, mode, update, asked, armed, lines>>

CounterTicks ==
  /\ pit.shape # "idle"
  /\ irr' = irr \cup {0}
  /\ pit' = IF pit.shape = "oneshot" THEN Idle ELSE pit
  /\ UNCHANGED <<isr, imr, intflag, cpu, vec, mode, update, asked, armed, lines>>

(* The CPU takes an interrupt between two steps of the main thread.        *)
Interrupt ==
  /\ intflag /\ cpu = "main" /\ Deliverable(irr, isr, imr) # {}
  /\ LET l == Foremost(Deliverable(irr, isr, imr))
     IN  /\ vec' = l
         /\ irr' = irr \ {l}
         /\ isr' = Acknowledged(isr, l)
  /\ cpu' = "dispatch" /\ intflag' = FALSE
  /\ UNCHANGED <<imr, pit, mode, update, asked, armed, lines>>

(* A request that vanished before the CPU acknowledged it: the vector of   *)
(* the controller's lowest priority, of which only the master's line 2 for *)
(* the slave is in service.  What was passed on came before the lines that *)
(* are in service.                                                         *)
Spurious(l) ==
  /\ intflag /\ cpu = "main" /\ l \in {7, 15}
  /\ l = 15 => CASCADE \notin imr
  /\ \A k \in Master(isr) : k > IF l = 15 THEN CASCADE ELSE 0
  /\ vec' = l
  /\ isr' = IF l = 15 THEN isr \cup {CASCADE} ELSE isr
  /\ cpu' = "dispatch" /\ intflag' = FALSE
  /\ UNCHANGED <<irr, imr, pit, mode, update, asked, armed, lines>>

-----------------------------------------------------------------------------
(* irq_dispatch up to the handler: a line without one is left in service.  *)
(* (Every vector of the controllers has its IRQ and descriptor since       *)
(* i8259_init.)  The timer's handler calls the event when the timer is not *)
(* disabled.                                                               *)
EventDue_Always == TRUE

EventDue == mode # "DISABLED"

irq_dispatch ==
  /\ cpu = "dispatch"
  /\ IF i8259_is_spurious(isr, vec)
       THEN isr' = SpuriousEoi(isr, vec) /\ cpu' = "return" /\ UNCHANGED <<armed, unserved>>
       ELSE /\ UNCHANGED isr
            /\ IF vec \notin handlers
                 THEN cpu' = "return" /\ unserved' = unserved \cup {vec} /\ UNCHANGED armed
                 ELSE /\ cpu' = IF vec # 0 THEN "handler" ELSE IF EventDue THEN "event" ELSE "post"
                      /\ armed' = (armed /\ ~ (vec = 0 /\ mode = "ONESHOT"))
                      /\ UNCHANGED unserved
  /\ UNCHANGED <<irr, imr, pit, intflag, vec, mode, update, asked, handlers>>

(* The timer's operations; they run with interrupts off.  A call that is   *)
(* refused changes nothing.                                                *)
Start(m, shape) ==
  /\ \E ns \in Deltas :
       /\ InRange(ns)
       /\ pit' = [shape |-> shape, ticks |-> WriteCounter(pit_counter(ns)), ns |-> ns]
  /\ imr' = UnmaskNow(imr, 0) /\ mode' = m
  /\ asked' = asked \cup {0} /\ armed' = TRUE

i8254_timer_start_periodic == Start("PERIODIC", "periodic")
i8254_timer_start_oneshot  == Start("ONESHOT", "oneshot")

i8254_timer_stop ==
  /\ mode' = "DISABLED" /\ imr' = MaskNow(imr, 0)
  /\ asked' = asked \ {0} /\ armed' = FALSE
  /\ UNCHANGED pit

TimerCall == i8254_timer_start_periodic \/ i8254_timer_start_oneshot \/ i8254_timer_stop

(* The event callback, and the handler of another device, may call the     *)
(* timer or not.                                                           *)
Callback ==
  /\ cpu \in {"event", "handler"}
  /\ cpu' = IF cpu = "event" THEN "post" ELSE "eoi"
  /\ TimerCall \/ UNCHANGED <<pit, imr, mode, asked, armed>>
  /\ UNCHANGED <<irr, isr, intflag, vec, update, lines>>

(* The end of i8254_irq_handler: a one-shot is over.                       *)
OneshotOver ==
  mode' = "DISABLED" /\ imr' = MaskNow(imr, 0) /\ asked' = asked \ {0}

Post ==
  /\ cpu = "post" /\ cpu' = "eoi"
  /\ IF mode = "ONESHOT" THEN OneshotOver ELSE UNCHANGED <<mode, imr, asked>>
  /\ UNCHANGED <<irr, isr, pit, intflag, vec, update, armed, lines>>

Eoi_NotSent ==
  /\ cpu = "eoi" /\ cpu' = "return"
  /\ UNCHANGED <<chip, pit, intflag, vec, mode, update, asked, armed, lines>>

(* The end of irq_dispatch.                                                *)
Eoi ==
  /\ cpu = "eoi" /\ cpu' = "return"
  /\ isr' = i8259_send_eoi(isr, vec)
  /\ UNCHANGED <<irr, imr, pit, intflag, vec, mode, update, asked, armed, lines>>

Iret ==
  /\ cpu = "return" /\ cpu' = "main" /\ intflag' = TRUE
  /\ vec' = 0
  /\ UNCHANGED <<chip, pit, mode, update, asked, armed, lines>>

-----------------------------------------------------------------------------
(* The main thread.                                                        *)
MainTimerCall ==
  /\ cpu = "main" /\ todo = <<>>
  /\ TimerCall
  /\ UNCHANGED <<irr, isr, intflag, cpu, vec, update, lines>>

SetInterruptFlag(b) ==
  /\ cpu = "main" /\ todo = <<>> /\ intflag # b
  /\ intflag' = b
  /\ UNCHANGED <<chip, pit, cpu, vec, mode, update, asked, armed, lines>>

(* Neither looks at the line's mask.                                       *)
irq_request(l) ==
  /\ cpu = "main" /\ todo = <<>> /\ l \notin handlers
  /\ handlers' = handlers \cup {l}
  /\ UNCHANGED <<chip, pit, intflag, cpu, vec, mode, update, asked, armed, unserved>>

irq_free(l) ==
  /\ cpu = "main" /\ todo = <<>> /\ l \in handlers
  /\ handlers' = handlers \ {l}
  /\ UNCHANGED <<chip, pit, intflag, cpu, vec, mode, update, asked, armed, unserved>>

BeginUpdate(updates) ==
  /\ cpu = "main" /\ todo = <<>>
  /\ holdoff => ~ intflag
  /\ todo' = updates
  /\ UNCHANGED <<chip, pit, intflag, cpu, vec, mode, read, reading, holdoff, armed, lines>>

irq_enable(l)  == BeginUpdate(i8259_unmask_irq(l)) /\ asked' = asked \cup {l}
irq_disable(l) == BeginUpdate(i8259_mask_irq(l)) /\ asked' = asked \ {l}

ReadMask ==
  /\ cpu = "main" /\ todo # <<>> /\ ~ reading
  /\ read' = imr \cap SameChip(Head(todo).line) /\ reading' = TRUE
  /\ UNCHANGED <<chip, pit, intflag, cpu, vec, mode, todo, holdoff, asked, armed, lines>>

WriteMask ==
  /\ cpu = "main" /\ reading
  /\ LET u    == Head(todo)
         mask == NewMask(read, u)
     IN  /\ imr' = (imr \ SameChip(u.line)) \cup mask
         /\ todo' = Tail(todo) \o AfterMask(u, mask)
  /\ read' = {} /\ reading' = FALSE
  /\ UNCHANGED <<irr, isr, pit, intflag, cpu, vec, mode, holdoff, asked, armed, lines>>

Next ==
  \/ CounterTicks \/ Interrupt \/ irq_dispatch \/ Callback \/ Post \/ Eoi \/ Iret
  \/ MainTimerCall \/ ReadMask \/ WriteMask
  \/ \E b \in BOOLEAN : SetInterruptFlag(b)
  \/ \E l \in Others : DeviceRaises(l) \/ irq_enable(l) \/ irq_disable(l)
  \/ \E l \in Loadable : irq_request(l) \/ irq_free(l)
  \/ \E l \in {7, 15} : Spurious(l)

(* The CPU runs on inside a handler, a periodic counter goes on counting,  *)
(* the main thread does not keep interrupts off for good, and the CPU      *)
(* takes a pending interrupt when they are on.                             *)
Fairness ==
  /\ WF_vars(irq_dispatch) /\ WF_vars(Callback) /\ WF_vars(Post)
  /\ WF_vars(Eoi) /\ WF_vars(Iret)
  /\ WF_vars(CounterTicks)
  /\ WF_vars(ReadMask) /\ WF_vars(WriteMask)
  /\ SF_vars(SetInterruptFlag(TRUE)) /\ SF_vars(Interrupt)

Spec == Init /\ [][Next]_vars /\ Fairness
-----------------------------------------------------------------------------
(* The state has its types.                                                *)
TypeOK ==
  /\ irr \subseteq Lines
  /\ isr \subseteq Lines \cup {CASCADE} /\ imr \subseteq Lines \cup {CASCADE}
  /\ pit.shape \in {"idle", "periodic", "oneshot"}
  /\ intflag \in BOOLEAN
  /\ cpu \in {"main", "dispatch", "handler", "event", "post", "eoi", "return"}
  /\ vec \in Lines \cup {7, 15}
  /\ mode \in {"DISABLED", "PERIODIC", "ONESHOT"}
  /\ read \subseteq Lines \cup {CASCADE} /\ reading \in BOOLEAN
  /\ asked \subseteq Lines /\ armed \in BOOLEAN
  /\ 0 \in handlers /\ handlers \subseteq Lines /\ unserved \subseteq Others \cup {7, 15}

(* irq_dispatch ends an interrupt whose line has a handler, and no other:  *)
(* the line is in service until its own end-of-interrupt command, spurious *)
(* interrupts leave nothing, and what is in service outside of a handler,  *)
(* where it keeps the lines behind it from the CPU, are lines whose own    *)
(* interrupt found no handler (with the master's line 2 if one is on the   *)
(* slave).  The timer's line, before all others, is never among them.      *)
InterruptsEnded ==
  /\ TypeOK
  /\ cpu \in {"handler", "event", "post", "eoi"} => vec \in isr
  /\ cpu = "main" =>
       isr \subseteq unserved \cup (IF Slave(unserved) = {} THEN {} ELSE {CASCADE})

(* Once the calls of irq_enable and irq_disable are over, a line is masked *)
(* unless the last call on it enabled it, and the master's line for the    *)
(* slave is open when a line of the slave is.  It takes drivers that call  *)
(* them with interrupts off: the calls read a mask register and write it   *)
(* back, and a handler in between would have its own change undone.  The   *)
(* timer's line, which its calls, its event and its handler all change, is *)
(* then open exactly in the modes in which the timer counts.               *)
MasksAsAsked ==
  (holdoff /\ todo = <<>> /\ cpu = "main") =>
    /\ Lines \ imr = asked
    /\ (Slave(asked) # {}) => CASCADE \notin imr
    /\ (0 \in imr) <=> (mode = "DISABLED")

(* A timer that is stopped, or whose one-shot event has come, calls the    *)
(* event no more until it is started again, whatever interrupt was still   *)
(* pending.                                                                *)
EventsAreOwed == [][(cpu' = "event" /\ cpu # "event") => armed]_vars

(* A counter that runs was loaded with as many ticks as the interval asked *)
(* for has: conversion, the range that is checked before it and the two    *)
(* bytes neither lose a tick nor make the count wrap.                      *)
CountsAsAsked == pit.shape # "idle" => Lasts(pit.ticks, pit.ns)

(* A timer left in periodic mode with interrupts being turned on again and *)
(* again keeps calling its event, with the same drivers.                   *)
PeriodicKeepsTicking == holdoff /\ <>[](mode = "PERIODIC") => []<>(cpu = "event")

-----------------------------------------------------------------------------
(* start_oneshot "Configures the hardware to generate a single interrupt   *)
(* after delta_ns nanoseconds. The event() callback is invoked when the    *)
(* timer expires": a timer that was started stays on until its event.      *)
StartedTimerStaysOn == (armed /\ cpu = "main") => mode # "DISABLED"
=============================================================================
