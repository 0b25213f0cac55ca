---------------------------- MODULE TimerIrqProofs ----------------------------
(***************************************************************************)
(* The counts of the timer's driver, and the safety properties of the      *)
(* timer and of the interrupt controllers, for any set of lines and any    *)
(* clock.                                                                  *)
(***************************************************************************)
EXTENDS TimerIrq, BasicFacts

(* A count of 16 bits survives its way through two bytes.                  *)
LEMMA BytesKeepCount ==
  ASSUME NEW c \in 0 .. UINT16_MAX
  PROVE  WriteCounter(c) = c
  <1> DEFINE q == c \div BYTE
  <1>1. BYTE \in Nat \ {0} /\ c \in Nat /\ c < BYTE * BYTE
    BY ClockAssumption DEF UINT16_MAX
  <1>2. q \in Nat /\ BYTE * q <= c /\ c = BYTE * q + (c % BYTE) /\ c % BYTE \in 0 .. (BYTE - 1)
    BY <1>1, Division
  <1>3. BYTE * q < BYTE * BYTE
    BY <1>1, <1>2
  <1>4. q < BYTE
    BY <1>1, <1>2, <1>3, Products
  <1>5. q % BYTE = q
    BY <1>1, <1>2, <1>4
  <1>6. q * BYTE = BYTE * q
    BY <1>1, <1>2
  <1> QED
    BY <1>2, <1>5, <1>6 DEF WriteCounter, Loaded

(* i8254_timer_start_periodic and i8254_timer_start_oneshot, for every     *)
(* frequency, smallest count and width of a byte: an interval in the range *)
(* they accept becomes a count that is not 0, fits two bytes and is the    *)
(* number of whole ticks of the interval.                                  *)
THEOREM CountLasts ==
  ASSUME NEW ns \in Nat, InRange(ns)
  PROVE  Lasts(WriteCounter(pit_counter(ns)), ns)
  <1> DEFINE f == I8254_BASE_FREQ
             n == NS_PER_SEC
             c == pit_counter(ns)
             u == UINT16_MAX
             min == I8254_MIN_DELTA_NS
             max == I8254_MAX_DELTA_NS
  <1>1. f \in Nat \ {0} /\ n \in Nat \ {0} /\ f <= n /\ MIN_TICKS \in Nat /\ MIN_TICKS >= 2
    BY ClockAssumption
  <1>2. u \in Nat
    <2>1. BYTE * BYTE \in Nat /\ BYTE * BYTE >= BYTE * 1
      BY ClockAssumption, Products
    <2> QED
      BY <2>1, ClockAssumption DEF UINT16_MAX
  <1>3. n * u \in Nat /\ n * MIN_TICKS \in Nat /\ ns * f \in Nat /\ ns * f = f * ns
    BY <1>1, <1>2
  <1>4. c \in Nat /\ n * c <= ns * f /\ ns * f < n * c + n
    BY <1>1, <1>3, Division DEF pit_counter
  <1>5. c <= u
    <2>1. max \in Nat /\ f * max <= n * u
      BY <1>1, <1>3, Division DEF I8254_MAX_DELTA_NS
    <2>2. f * ns <= f * max
      BY <1>1, <2>1, Products DEF InRange
    <2>3. f * max \in Nat /\ n * c \in Nat
      BY <1>1, <1>4, <2>1
    <2>4. n * c < n * u + n
      BY <1>1, <1>3, <1>4, <2>1, <2>2, <2>3
    <2>5. n * c < n * (u + 1)
      BY <1>1, <1>2, <2>4, Products
    <2> QED
      BY <1>1, <1>2, <1>4, <2>5, Products
  <1>6. c >= 1
    <2>1. min \in Nat /\ n * MIN_TICKS < f * min + f
      BY <1>1, <1>3, Division DEF I8254_MIN_DELTA_NS
    <2>2. f * min <= f * ns
      BY <1>1, <2>1, Products DEF InRange
    <2>3. n * 2 <= n * MIN_TICKS
      BY <1>1, Products
    <2>4. f * min \in Nat /\ n * 2 = n + n
      BY <1>1, <2>1
    <2>5. n < f * ns
      BY <1>1, <1>3, <2>1, <2>2, <2>3, <2>4
    <2> QED
      BY <1>1, <1>3, <1>4, <2>5
  <1>7. WriteCounter(c) = c
    BY <1>2, <1>4, <1>5, BytesKeepCount
  <1>8. c * n = n * c /\ (c + 1) * n = n * c + n
    BY <1>1, <1>4, Products
  <1> QED
    BY <1>2, <1>4, <1>5, <1>6, <1>7, <1>8 DEF Lasts

-----------------------------------------------------------------------------
AllLines == Lines \cup {CASCADE}
Vectors == Lines \cup {7, 15}
Updates == [line : Others \cup {CASCADE}, masked : BOOLEAN]

(* Shapes of the state, and a counter that counts as it was asked to.      *)
Shapes ==
  /\ TypeOK
  /\ todo \in Seq(Updates) /\ (reading => todo # <<>>)
  /\ holdoff \in BOOLEAN
  /\ CountsAsAsked

(* What irq_dispatch has left in service, finding no handler.              *)
Stuck == unserved \cup (IF Slave(unserved) = {} THEN {} ELSE {CASCADE})

(* Line l is in service and the first of its controller, and so is the     *)
(* master's line for the slave if l is on the slave: what an               *)
(* end-of-interrupt command for l ends.                                    *)
InFront(s, l) ==
  /\ l \in s
  /\ OnSlave(l) => CASCADE \in s /\ \A k \in Slave(s) : l <= k
  /\ \A k \in Master(s) : (IF OnSlave(l) THEN CASCADE ELSE l) <= k

(* The line of the vector was acknowledged, or it was in service before.   *)
Taken ==
  /\ vec \in isr
  /\ \/ isr \subseteq Stuck
     \/ isr \subseteq Stuck \cup Acknowledged({}, vec) /\ InFront(isr, vec)

(* Which lines are in service at each point of irq_dispatch.  A spurious   *)
(* vector has nothing of its own but the master's line for the slave.      *)
InService ==
  /\ cpu \in {"main", "return"} => isr \subseteq Stuck
  /\ cpu \in {"handler", "event", "post", "eoi"} => Taken
  /\ cpu = "dispatch" => \/ Taken
                         \/ vec = 7 /\ isr \subseteq Stuck
                         \/ /\ vec = 15 /\ isr \subseteq Stuck \cup {CASCADE}
                            /\ InFront(isr, CASCADE)

(* A timer that is on owes an event, except while the event of a one-shot  *)
(* is being delivered.                                                     *)
EventOwed ==
  mode # "DISABLED" =>
    armed \/ (mode = "ONESHOT" /\ cpu \in {"event", "post"})

(* With drivers that keep interrupts off, nobody comes between the read    *)
(* and the write of a mask.                                                *)
UpdatesAlone ==
  /\ todo # <<>> => cpu = "main" /\ ~intflag
  /\ reading => read = imr \cap SameChip(Head(todo).line)

(* What the updates that are left will make of the masks.                  *)
CascadeOpen(open) == Slave(open) # {} => CASCADE \notin imr

MasksOnTheWay ==
  LET open == Lines \ imr
  IN  \/ todo = <<>> /\ asked = open /\ CascadeOpen(open)
      \/ \E l \in Others :
           \/ /\ todo = i8259_unmask_irq(l)
              /\ asked = open \cup {l} /\ CascadeOpen(open)
           \/ /\ OnSlave(l) /\ todo = <<Update(l, FALSE)>>
              /\ asked = open \cup {l} /\ CASCADE \notin imr
           \/ /\ todo = i8259_mask_irq(l)
              /\ asked = open \ {l} /\ CascadeOpen(open)
      \/ todo = <<Update(CASCADE, TRUE)>> /\ asked = open /\ Slave(open) = {}

TimerLine == (0 \in imr) <=> (mode = "DISABLED")

MasksKept == UpdatesAlone /\ MasksOnTheWay /\ TimerLine

TimerInv ==
  /\ Shapes
  /\ InService
  /\ EventOwed
  /\ holdoff => MasksKept

-----------------------------------------------------------------------------
(* The controllers.                                                        *)

LEMMA LineNumbers ==
  /\ Lines \subseteq Int /\ 0 \in Lines /\ CASCADE \notin Lines /\ CASCADE = 2
  /\ \A l \in Lines : l \in 0 .. 15 /\ l # 2
  /\ ~OnSlave(0) /\ ~OnSlave(CASCADE)
  BY LinesAssumption, TimerAssumption DEF CASCADE, OnSlave

(* Of several requests one is passed on.                                   *)
LEMMA ForemostIsOne ==
  ASSUME NEW S \in SUBSET Lines, S # {}
  PROVE  Foremost(S) \in S
  <1> DEFINE R == {Rank(l) : l \in S}
  <1>1. \A l \in S : Rank(l) \in Nat
    BY LineNumbers DEF Rank, OnSlave
  <1>0. R \subseteq Nat /\ R # {}
    BY <1>1
  <1>2. PICK r \in R : \A q \in R : ~(<<q, r>> \in OpToRel(<, Nat))
    <2> HIDE DEF R
    <2> QED
      BY <1>0, NatLessThanWellFounded, WFMin
  <1>3. \A q \in R : r <= q
    <2> SUFFICES ASSUME NEW q \in R, q < r PROVE FALSE
      BY <1>1
    <2>1. <<q, r>> \in OpToRel(<, Nat)
      BY <1>1 DEF OpToRel
    <2> QED
      BY <1>2, <2>1
  <1>4. \E l \in S : \A k \in S : Rank(l) <= Rank(k)
    BY <1>3
  <1> QED
    BY <1>4, Zenon DEF Foremost

LEMMA MinIsFirst ==
  ASSUME NEW S \in SUBSET Int, NEW x \in S, \A y \in S : x <= y
  PROVE  Min(S) = x
  <1> DEFINE m == Min(S)
  <1>1. m \in S /\ \A z \in S : m <= z
    BY Zenon DEF Min
  <1> HIDE DEF m
  <1>2. m = x
    BY <1>1
  <1> QED
    BY <1>2 DEF m

LEMMA FirstOfMaster ==
  ASSUME NEW s \in SUBSET Int, NEW l \in s, ~OnSlave(l), \A k \in Master(s) : l <= k
  PROVE  EndMaster(s) = s \ {l}
  <1>1. l \in Master(s) /\ Master(s) \in SUBSET Int
    BY DEF Master
  <1>2. Min(Master(s)) = l
    BY <1>1, MinIsFirst
  <1> QED
    BY <1>1, <1>2 DEF EndMaster

(* The end of an interrupt ends the interrupt's own line.                  *)
LEMMA EoiEndsOwn ==
  ASSUME NEW s \in SUBSET Int, NEW l, InFront(s, l)
  PROVE  i8259_send_eoi(s, l) = s \ Acknowledged({}, l)
  <1>1. CASE OnSlave(l)
    <2>1. l \in Slave(s) /\ Slave(s) \in SUBSET Int /\ \A k \in Slave(s) : l <= k
      BY <1>1 DEF InFront, Slave
    <2>2. Min(Slave(s)) = l
      BY <2>1, MinIsFirst
    <2>3. EndSlave(s) = s \ {l}
      BY <2>1, <2>2 DEF EndSlave
    <2>4. CASCADE \in s \ {l} /\ \A k \in Master(s \ {l}) : CASCADE <= k
      BY <1>1, LineNumbers DEF InFront, Master
    <2>5. EndMaster(s \ {l}) = (s \ {l}) \ {CASCADE}
      BY <2>4, FirstOfMaster, LineNumbers
    <2> QED
      BY <1>1, <2>3, <2>5 DEF i8259_send_eoi, Acknowledged
  <1>2. CASE ~OnSlave(l)
    <2>1. EndMaster(s) = s \ {l}
      BY <1>2, FirstOfMaster DEF InFront
    <2> QED
      BY <1>2, <2>1 DEF i8259_send_eoi, Acknowledged
  <1> QED
    BY <1>1, <1>2

LEMMA EoiOnlyEnds ==
  ASSUME NEW s, NEW l
  PROVE  i8259_send_eoi(s, l) \subseteq s
  BY DEF i8259_send_eoi, EndMaster, EndSlave

LEMMA SpuriousEoiEnds ==
  ASSUME NEW s \in SUBSET Int, InFront(s, CASCADE)
  PROVE  SpuriousEoi(s, 15) = s \ {CASCADE}
  <1>1. EndMaster(s) = s \ {CASCADE}
    BY FirstOfMaster, LineNumbers DEF InFront
  <1> QED
    BY <1>1 DEF SpuriousEoi

-----------------------------------------------------------------------------
(* The parts of the invariant, each kept by every action.                  *)

(* A timer that is started counts what it was asked to.                    *)
LEMMA StartCounts ==
  ASSUME NEW m, NEW shape, shape \in {"periodic", "oneshot"}, Start(m, shape)
  PROVE  pit'.shape = shape /\ CountsAsAsked'
  <1>1. PICK ns \in Deltas :
          /\ InRange(ns)
          /\ pit' = [shape |-> shape, ticks |-> WriteCounter(pit_counter(ns)), ns |-> ns]
    BY DEF Start
  <1>2. Lasts(WriteCounter(pit_counter(ns)), ns)
    BY <1>1, CountLasts, TimerAssumption
  <1> QED
    BY <1>1, <1>2 DEF CountsAsAsked

(* What a call of the timer's operations changes.                          *)
LEMMA TimerCallShapes ==
  ASSUME Shapes, TimerCall
  PROVE  /\ imr' \subseteq AllLines /\ asked' \subseteq Lines /\ armed' \in BOOLEAN
         /\ mode' \in {"DISABLED", "PERIODIC", "ONESHOT"}
         /\ pit'.shape \in {"idle", "periodic", "oneshot"} /\ CountsAsAsked'
         /\ mode' # "DISABLED" => armed'
         /\ \/ mode' = "DISABLED" /\ imr' = imr \cup {0} /\ asked' = asked \ {0}
            \/ mode' # "DISABLED" /\ imr' = imr \ {0} /\ asked' = asked \cup {0}
  <1> USE LineNumbers
  <1>1. CASE i8254_timer_stop
    BY <1>1 DEF i8254_timer_stop, MaskNow, Shapes, TypeOK, AllLines, CountsAsAsked
  <1>2. CASE i8254_timer_start_periodic
    <2>1. pit'.shape = "periodic" /\ CountsAsAsked'
      BY <1>2, StartCounts DEF i8254_timer_start_periodic
    <2> QED
      BY <1>2, <2>1 DEF i8254_timer_start_periodic, Start, UnmaskNow, Shapes, TypeOK, AllLines
  <1>3. CASE i8254_timer_start_oneshot
    <2>1. pit'.shape = "oneshot" /\ CountsAsAsked'
      BY <1>3, StartCounts DEF i8254_timer_start_oneshot
    <2> QED
      BY <1>3, <2>1 DEF i8254_timer_start_oneshot, Start, UnmaskNow, Shapes, TypeOK, AllLines
  <1> QED
    BY <1>1, <1>2, <1>3 DEF TimerCall

(* The end of a one-shot, or no change of the timer.                       *)
LEMMA PostShapes ==
  ASSUME Shapes, Post
  PROVE  \/ /\ mode = "ONESHOT" /\ mode' = "DISABLED"
            /\ imr' = imr \cup {0} /\ asked' = asked \ {0}
         \/ mode # "ONESHOT" /\ UNCHANGED <<mode, imr, asked>>
  BY LineNumbers DEF Post, OneshotOver, MaskNow

LEMMA ShortSeqs ==
  ASSUME NEW S, NEW a \in S, NEW b \in S
  PROVE  <<a>> \in Seq(S) /\ <<a, b>> \in Seq(S) /\ <<a>> # <<>> /\ <<a, b>> # <<>>
  OBVIOUS

LEMMA UpdateShape ==
  ASSUME NEW l \in Others
  PROVE  /\ i8259_unmask_irq(l) \in Seq(Updates) /\ i8259_unmask_irq(l) # <<>>
         /\ i8259_mask_irq(l) \in Seq(Updates) /\ i8259_mask_irq(l) # <<>>
  <1>1. Update(l, FALSE) \in Updates /\ Update(l, TRUE) \in Updates
    BY DEF Update, Updates
  <1>2. Update(CASCADE, FALSE) \in Updates
    BY DEF Update, Updates
  <1> QED
    BY <1>1, <1>2, ShortSeqs, Zenon DEF i8259_unmask_irq, i8259_mask_irq

LEMMA AfterMaskShape ==
  ASSUME NEW u, NEW mask
  PROVE  AfterMask(u, mask) \in Seq(Updates)
  <1>1. Update(CASCADE, TRUE) \in Updates
    BY DEF Update, Updates
  <1>2. <<Update(CASCADE, TRUE)>> \in Seq(Updates)
    BY <1>1, ShortSeqs, Zenon
  <1>3. << >> \in Seq(Updates)
    OBVIOUS
  <1> QED
    BY <1>2, <1>3, Zenon DEF AfterMask

LEMMA ShapesKept ==
  ASSUME Shapes, [Next]_vars
  PROVE  Shapes'
  <1> USE LineNumbers DEF Shapes, AllLines, chip, update, lines
  <1>1. ASSUME NEW l \in Others, DeviceRaises(l) PROVE Shapes'
    BY <1>1 DEF DeviceRaises, TypeOK, CountsAsAsked, Others
  <1>2. CASE CounterTicks
    BY <1>2 DEF CounterTicks, TypeOK, CountsAsAsked, Idle
  <1>3. CASE Interrupt
    <2> DEFINE l == Foremost(Deliverable(irr, isr, imr))
    <2>1. Deliverable(irr, isr, imr) \in SUBSET Lines /\ Deliverable(irr, isr, imr) # {}
      BY <1>3 DEF Interrupt, Deliverable, TypeOK
    <2>2. l \in Lines
      BY <2>1, ForemostIsOne
    <2> HIDE DEF l
    <2>3. Acknowledged(isr, l) \subseteq AllLines
      BY <2>2 DEF Acknowledged, TypeOK
    <2>4. vec' = l /\ irr' = irr \ {l} /\ isr' = Acknowledged(isr, l)
      BY <1>3 DEF Interrupt, l
    <2> QED
      BY <1>3, <2>2, <2>3, <2>4 DEF Interrupt, TypeOK, CountsAsAsked
  <1>4. ASSUME NEW l \in {7, 15}, Spurious(l) PROVE Shapes'
    BY <1>4 DEF Spurious, TypeOK, CountsAsAsked
  <1>5. CASE irq_dispatch
    BY <1>5 DEF irq_dispatch, SpuriousEoi, EndMaster, TypeOK, CountsAsAsked, Others
  <1>6. CASE Callback
    <2>1. CASE TimerCall
      BY <1>6, <2>1, TimerCallShapes DEF Callback, TypeOK
    <2>2. CASE UNCHANGED <<pit, imr, mode, asked, armed>>
      BY <1>6, <2>2 DEF Callback, TypeOK, CountsAsAsked
    <2> QED
      BY <1>6, <2>1, <2>2 DEF Callback
  <1>7. CASE Post
    BY <1>7, PostShapes DEF Post, TypeOK, CountsAsAsked
  <1>8. CASE Eoi
    BY <1>8 DEF Eoi, i8259_send_eoi, EndMaster, EndSlave, TypeOK, CountsAsAsked
  <1>9. CASE Iret
    BY <1>9 DEF Iret, TypeOK, CountsAsAsked
  <1>10. CASE MainTimerCall
    BY <1>10, TimerCallShapes DEF MainTimerCall, TypeOK
  <1>11. ASSUME NEW b \in BOOLEAN, SetInterruptFlag(b) PROVE Shapes'
    BY <1>11 DEF SetInterruptFlag, TypeOK, CountsAsAsked
  <1>12. ASSUME NEW l \in Others, irq_enable(l) PROVE Shapes'
    <2>1. i8259_unmask_irq(l) \in Seq(Updates) /\ i8259_unmask_irq(l) # <<>>
      BY UpdateShape
    <2> QED
      BY <1>12, <2>1 DEF irq_enable, BeginUpdate, TypeOK, CountsAsAsked, Others
  <1>13. ASSUME NEW l \in Others, irq_disable(l) PROVE Shapes'
    <2>1. i8259_mask_irq(l) \in Seq(Updates) /\ i8259_mask_irq(l) # <<>>
      BY UpdateShape
    <2> QED
      BY <1>13, <2>1 DEF irq_disable, BeginUpdate, TypeOK, CountsAsAsked, Others
  <1>14. CASE ReadMask
    BY <1>14 DEF ReadMask, TypeOK, CountsAsAsked
  <1>15. CASE WriteMask
    <2> DEFINE u == Head(todo)
               mask == NewMask(read, u)
    <2>1. u \in Updates /\ Tail(todo) \in Seq(Updates)
      BY <1>15 DEF WriteMask
    <2>2. u.line \in AllLines /\ mask \subseteq AllLines
      BY <2>1 DEF Updates, Others, NewMask, TypeOK
    <2> HIDE DEF u, mask
    <2>3. AfterMask(u, mask) \in Seq(Updates)
      BY AfterMaskShape
    <2>4. Tail(todo) \o AfterMask(u, mask) \in Seq(Updates)
      BY <2>1, <2>3
    <2>5. imr' = (imr \ SameChip(u.line)) \cup mask /\ todo' = Tail(todo) \o AfterMask(u, mask)
      BY <1>15 DEF WriteMask, u, mask
    <2> QED
      BY <1>15, <2>2, <2>4, <2>5 DEF WriteMask, TypeOK, CountsAsAsked
  <1>16. CASE UNCHANGED vars
    BY <1>16 DEF vars, TypeOK, CountsAsAsked
  <1>17. ASSUME NEW l \in Loadable, irq_request(l) \/ irq_free(l) PROVE Shapes'
    <2>1. l \in Lines \ {0}
      BY TimerAssumption
    <2>2. 0 \in handlers' /\ handlers' \subseteq Lines
      BY <1>17, <2>1 DEF irq_request, irq_free, TypeOK
    <2>3. UNCHANGED <<irr, isr, imr, pit, intflag, cpu, vec, mode, todo, read, reading, holdoff,
                      asked, armed, unserved>>
      BY <1>17 DEF irq_request, irq_free
    <2> QED
      BY <2>2, <2>3 DEF TypeOK, CountsAsAsked
  <1> QED
    BY <1>1, <1>2, <1>3, <1>4, <1>5, <1>6, <1>7, <1>8, <1>9, <1>10, <1>11, <1>12, <1>13,
       <1>14, <1>15, <1>16, <1>17 DEF Next

(* irq_dispatch, with the line of the vector in service or not.            *)
LEMMA DispatchKeeps ==
  ASSUME Shapes, InService, irq_dispatch
  PROVE  InService'
  <1>1. isr \in SUBSET Int /\ vec' = vec /\ cpu = "dispatch"
    BY LineNumbers DEF Shapes, TypeOK, irq_dispatch
  <1>2. CASE Taken
    <2>1. ~i8259_is_spurious(isr, vec)
      BY <1>2 DEF Taken, i8259_is_spurious
    <2>2. CASE vec \notin handlers
      <3>1. isr' = isr /\ cpu' = "return" /\ unserved' = unserved \cup {vec}
        BY <2>1, <2>2 DEF irq_dispatch
      <3>2. Stuck \cup Acknowledged({}, vec) \subseteq Stuck'
        BY <3>1 DEF Stuck, Acknowledged, Slave
      <3> QED
        BY <1>2, <3>1, <3>2 DEF InService, Taken
    <2>3. CASE vec \in handlers
      <3>1. isr' = isr /\ cpu' \in {"handler", "event", "post"} /\ unserved' = unserved
        BY <2>1, <2>3 DEF irq_dispatch
      <3>2. Taken'
        BY <1>1, <1>2, <3>1 DEF Taken, Stuck
      <3> QED
        BY <3>1, <3>2 DEF InService
    <2> QED
      BY <2>2, <2>3
  <1>3. CASE ~Taken
    <2>1. \/ vec = 7 /\ isr \subseteq Stuck
          \/ vec = 15 /\ isr \subseteq Stuck \cup {CASCADE} /\ InFront(isr, CASCADE)
      BY <1>1, <1>3 DEF InService
    <2>2. vec \notin isr
      <3> SUFFICES ASSUME vec \in isr PROVE FALSE
        OBVIOUS
      <3>1. vec = 15 => 15 \in unserved /\ OnSlave(15)
        BY <2>1, LineNumbers DEF Stuck, OnSlave
      <3>2. vec = 15 => CASCADE \in Stuck
        BY <3>1 DEF Stuck, Slave
      <3> QED
        BY <1>3, <2>1, <3>2 DEF Taken
    <2>3. /\ i8259_is_spurious(isr, vec)
          /\ isr' = SpuriousEoi(isr, vec) /\ cpu' = "return" /\ unserved' = unserved
      BY <2>1, <2>2 DEF irq_dispatch, i8259_is_spurious
    <2>4. isr' \subseteq Stuck
      <3>1. CASE vec = 7
        BY <2>1, <2>3, <3>1 DEF SpuriousEoi
      <3>2. CASE vec = 15
        <4>1. isr' = isr \ {CASCADE}
          BY <1>1, <2>1, <2>3, <3>2, SpuriousEoiEnds
        <4> QED
          BY <2>1, <3>2, <4>1
      <3> QED
        BY <2>1, <3>1, <3>2
    <2>5. Stuck' = Stuck
      BY <2>3 DEF Stuck
    <2> QED
      BY <2>3, <2>4, <2>5 DEF InService
  <1> QED
    BY <1>2, <1>3

LEMMA InServiceKept ==
  ASSUME Shapes, InService, [Next]_vars
  PROVE  InService'
  <1> USE DEF chip, update, lines
  <1>0. isr \in SUBSET Int
    BY LineNumbers DEF Shapes, TypeOK
  <1>1. CASE UNCHANGED <<isr, cpu, vec, unserved>>
    BY <1>1 DEF InService, Taken, Stuck
  <1>2. CASE Interrupt
    <2> DEFINE l == Foremost(Deliverable(irr, isr, imr))
    <2>1. Deliverable(irr, isr, imr) \in SUBSET Lines /\ Deliverable(irr, isr, imr) # {}
      BY <1>2 DEF Interrupt, Deliverable, Shapes, TypeOK
    <2>2. l \in Deliverable(irr, isr, imr) /\ l \in Int
      BY <2>1, ForemostIsOne, LineNumbers
    <2>3. /\ isr \subseteq Stuck /\ cpu' = "dispatch" /\ unserved' = unserved
          /\ vec' = l /\ isr' = Acknowledged(isr, l)
      BY <1>2 DEF Interrupt, InService
    <2> HIDE DEF l
    <2>4. /\ OnSlave(l) => \A k \in isr : k > IF OnSlave(k) THEN l ELSE CASCADE
          /\ ~OnSlave(l) => \A k \in Master(isr) : k > l
      BY <2>2 DEF Deliverable
    <2>5. InFront(Acknowledged(isr, l), l)
      BY <1>0, <2>2, <2>4, LineNumbers DEF InFront, Acknowledged, Master, Slave
    <2>6. l \in Acknowledged(isr, l) /\ Acknowledged(isr, l) \subseteq Stuck \cup Acknowledged({}, l)
      BY <2>3 DEF Acknowledged
    <2>7. Taken'
      BY <2>3, <2>5, <2>6 DEF Taken, Stuck
    <2> QED
      BY <2>3, <2>7 DEF InService
  <1>3. ASSUME NEW l \in {7, 15}, Spurious(l) PROVE InService'
    <2>1. /\ isr \subseteq Stuck /\ cpu' = "dispatch" /\ unserved' = unserved /\ vec' = l
          /\ isr' = IF l = 15 THEN isr \cup {CASCADE} ELSE isr
          /\ \A k \in Master(isr) : k > IF l = 15 THEN CASCADE ELSE 0
      BY <1>3 DEF Spurious, InService
    <2>2. Stuck' = Stuck
      BY <2>1 DEF Stuck
    <2>3. l = 15 => InFront(isr \cup {CASCADE}, CASCADE)
      BY <1>0, <2>1, LineNumbers DEF InFront, Master
    <2> QED
      BY <2>1, <2>2, <2>3 DEF InService
  <1>4. CASE irq_dispatch
    BY <1>4, DispatchKeeps
  <1>5. CASE Callback \/ Post
    <2>1. Taken /\ UNCHANGED <<isr, vec, unserved>> /\ cpu' \in {"post", "eoi"}
      BY <1>5 DEF Callback, Post, InService
    <2>2. Taken'
      BY <2>1 DEF Taken, Stuck
    <2> QED
      BY <2>1, <2>2 DEF InService
  <1>6. CASE Eoi
    <2>1. Taken /\ isr' = i8259_send_eoi(isr, vec) /\ unserved' = unserved /\ cpu' = "return"
      BY <1>6 DEF Eoi, InService
    <2>2. CASE isr \subseteq Stuck
      BY <2>1, <2>2, EoiOnlyEnds DEF InService, Stuck
    <2>3. CASE isr \subseteq Stuck \cup Acknowledged({}, vec) /\ InFront(isr, vec)
      <3>1. isr' = isr \ Acknowledged({}, vec)
        BY <1>0, <2>1, <2>3, EoiEndsOwn
      <3> QED
        BY <2>1, <2>3, <3>1 DEF InService, Stuck
    <2> QED
      BY <2>1, <2>2, <2>3 DEF Taken
  <1>7. CASE Iret
    BY <1>7 DEF Iret, InService, Stuck
  <1>8. ASSUME NEW l \in Others, DeviceRaises(l) \/ irq_enable(l) \/ irq_disable(l)
        PROVE  UNCHANGED <<isr, cpu, vec, unserved>>
    BY <1>8 DEF DeviceRaises, irq_enable, irq_disable, BeginUpdate
  <1>9. ASSUME CounterTicks \/ MainTimerCall \/ ReadMask \/ WriteMask
        PROVE  UNCHANGED <<isr, cpu, vec, unserved>>
    BY <1>9 DEF CounterTicks, MainTimerCall, ReadMask, WriteMask
  <1>10. ASSUME NEW b \in BOOLEAN, SetInterruptFlag(b) PROVE UNCHANGED <<isr, cpu, vec, unserved>>
    BY <1>10 DEF SetInterruptFlag
  <1>11. ASSUME NEW l \in Loadable, irq_request(l) \/ irq_free(l)
         PROVE  UNCHANGED <<isr, cpu, vec, unserved>>
    BY <1>11 DEF irq_request, irq_free
  <1>12. ASSUME UNCHANGED vars PROVE UNCHANGED <<isr, cpu, vec, unserved>>
    BY <1>12 DEF vars
  <1> QED
    BY <1>1, <1>2, <1>3, <1>4, <1>5, <1>6, <1>7, <1>8, <1>9, <1>10, <1>11, <1>12 DEF Next

(* Only irq_dispatch spends the event that is owed.                        *)
LEMMA EventOwedKept ==
  ASSUME Shapes, EventOwed, [Next]_vars
  PROVE  EventOwed'
  <1> USE DEF EventOwed, chip, update
  <1>1. CASE UNCHANGED <<mode, cpu, armed>>
    BY <1>1
  <1>2. CASE Interrupt
    BY <1>2 DEF Interrupt
  <1>3. ASSUME NEW l \in {7, 15}, Spurious(l) PROVE EventOwed'
    BY <1>3 DEF Spurious
  <1>4. CASE irq_dispatch
    BY <1>4 DEF irq_dispatch, EventDue, Shapes, TypeOK
  <1>5. CASE Callback
    <2>1. CASE TimerCall
      BY <1>5, <2>1, TimerCallShapes
    <2>2. CASE UNCHANGED <<pit, imr, mode, asked, armed>>
      BY <1>5, <2>2 DEF Callback
    <2> QED
      BY <1>5, <2>1, <2>2 DEF Callback
  <1>6. CASE Post
    BY <1>6, PostShapes DEF Post
  <1>7. CASE Eoi \/ Iret
    BY <1>7 DEF Eoi, Iret
  <1>8. CASE MainTimerCall
    BY <1>8, TimerCallShapes DEF MainTimerCall
  <1>9. ASSUME NEW l \in Others, DeviceRaises(l) \/ irq_enable(l) \/ irq_disable(l)
        PROVE  UNCHANGED <<mode, cpu, armed>>
    BY <1>9 DEF DeviceRaises, irq_enable, irq_disable, BeginUpdate
  <1>10. ASSUME CounterTicks \/ ReadMask \/ WriteMask PROVE UNCHANGED <<mode, cpu, armed>>
    BY <1>10 DEF CounterTicks, ReadMask, WriteMask
  <1>11. ASSUME NEW b \in BOOLEAN, SetInterruptFlag(b) PROVE UNCHANGED <<mode, cpu, armed>>
    BY <1>11 DEF SetInterruptFlag
  <1>12. ASSUME UNCHANGED vars PROVE UNCHANGED <<mode, cpu, armed>>
    BY <1>12 DEF vars
  <1>13. ASSUME NEW l \in Loadable, irq_request(l) \/ irq_free(l)
         PROVE  UNCHANGED <<mode, cpu, armed>>
    BY <1>13 DEF irq_request, irq_free
  <1> QED
    BY <1>1, <1>2, <1>3, <1>4, <1>5, <1>6, <1>7, <1>8, <1>9, <1>10, <1>11, <1>12, <1>13 DEF Next

-----------------------------------------------------------------------------
(* The masks, with drivers that keep interrupts off.                       *)
(* With no update left, the masks are as asked; so they stay when the      *)
(* timer's own line is opened or closed.                                   *)
LEMMA NothingLeft ==
  ASSUME MasksOnTheWay, todo = <<>>
  PROVE  asked = Lines \ imr /\ CascadeOpen(Lines \ imr)
  BY DEF MasksOnTheWay, i8259_unmask_irq, i8259_mask_irq

LEMMA TimerLineKept ==
  ASSUME MasksKept, todo = <<>>, ~reading, UNCHANGED update,
         \/ mode' = "DISABLED" /\ imr' = imr \cup {0} /\ asked' = asked \ {0}
         \/ mode' # "DISABLED" /\ imr' = imr \ {0} /\ asked' = asked \cup {0}
  PROVE  MasksKept'
  <1> USE LineNumbers
  <1>1. asked = Lines \ imr /\ CascadeOpen(Lines \ imr)
    BY NothingLeft DEF MasksKept
  <1>2. asked' = Lines \ imr'
    BY <1>1
  <1>3. Slave(Lines \ imr') = Slave(Lines \ imr) /\ (CASCADE \in imr' <=> CASCADE \in imr)
    BY DEF Slave
  <1>4. todo' = <<>> /\ ~reading'
    BY DEF update
  <1> QED
    BY <1>1, <1>2, <1>3, <1>4
    DEF MasksKept, UpdatesAlone, MasksOnTheWay, CascadeOpen, TimerLine

LEMMA OtherKept ==
  ASSUME MasksKept, UNCHANGED <<imr, mode, asked, todo, read, reading>>,
         todo # <<>> => UNCHANGED <<cpu, intflag>>
  PROVE  MasksKept'
  <1>1. UpdatesAlone'
    BY DEF MasksKept, UpdatesAlone
  <1>2. MasksOnTheWay'
    BY Zenon DEF MasksKept, MasksOnTheWay, CascadeOpen
  <1>3. TimerLine'
    BY DEF MasksKept, TimerLine
  <1> QED
    BY <1>1, <1>2, <1>3 DEF MasksKept

(* An update that nobody comes between changes the mask of its line only.  *)
LEMMA UpdateChangesOne ==
  ASSUME Shapes, UpdatesAlone, WriteMask
  PROVE  /\ Head(todo).masked => imr' = imr \cup {Head(todo).line}
         /\ ~Head(todo).masked => imr' = imr \ {Head(todo).line}
         /\ Head(todo).line \in Others \cup {CASCADE}
         /\ Head(todo).masked \in BOOLEAN
  <1> DEFINE u == Head(todo)
  <1>1. u \in Updates /\ read = imr \cap SameChip(u.line)
    BY DEF WriteMask, Shapes, UpdatesAlone
  <1>2. imr' = (imr \ SameChip(u.line)) \cup NewMask(read, u)
    BY DEF WriteMask
  <1>3. u.line \in Others \cup {CASCADE} /\ u.masked \in BOOLEAN
    BY <1>1 DEF Updates
  <1>4. u.line \in SameChip(u.line)
    BY <1>3, LineNumbers DEF SameChip, Slave, Master, Others
  <1> HIDE DEF u
  <1>5. u.masked => imr' = imr \cup {u.line}
    BY <1>1, <1>2, <1>4 DEF NewMask
  <1>6. ~u.masked => imr' = imr \ {u.line}
    BY <1>1, <1>2, <1>4 DEF NewMask
  <1> QED
    BY <1>3, <1>5, <1>6 DEF u

LEMMA FirstUpdate ==
  ASSUME NEW a, NEW b
  PROVE  Head(<<a, b>>) = a /\ Tail(<<a, b>>) = <<b>> /\ <<b>> \o <<>> = <<b>>
  OBVIOUS

LEMMA NothingBefore ==
  ASSUME NEW S, NEW q \in Seq(S)
  PROVE  <<>> \o q = q
  OBVIOUS

LEMMA WriteMaskKept ==
  ASSUME Shapes, MasksKept, WriteMask
  PROVE  MasksKept'
  <1> USE LineNumbers
  <1> DEFINE u == Head(todo)
             open == Lines \ imr
             mask == NewMask(read, u)
  <1>1. /\ u.masked => imr' = imr \cup {u.line}
        /\ ~u.masked => imr' = imr \ {u.line}
        /\ u.line \in Others \cup {CASCADE}
    BY UpdateChangesOne DEF MasksKept
  <1>2. /\ todo # <<>> /\ read = imr \cap SameChip(u.line)
        /\ todo' = Tail(todo) \o AfterMask(u, mask)
        /\ cpu = "main" /\ ~intflag /\ ~reading'
        /\ UNCHANGED <<cpu, intflag, mode, asked>>
    BY DEF WriteMask, Shapes, MasksKept, UpdatesAlone
  <1>3. UpdatesAlone'
    BY <1>2 DEF UpdatesAlone
  <1>4. TimerLine'
    BY <1>1, <1>2 DEF MasksKept, TimerLine, Others
  <1>5. MasksOnTheWay'
    <2>1. ASSUME NEW l \in Others, ~OnSlave(l), todo = <<Update(l, FALSE)>>,
                 asked = open \cup {l}, CascadeOpen(open)
          PROVE  MasksOnTheWay'
      <3>1. u.line = l /\ u.masked = FALSE /\ Tail(todo) = <<>> /\ AfterMask(u, mask) = <<>>
        BY <2>1 DEF Update, AfterMask
      <3>2. todo' = <<>> /\ imr' = imr \ {l}
        BY <1>1, <1>2, <3>1
      <3>3. asked' = Lines \ imr' /\ CascadeOpen(Lines \ imr)'
        BY <1>2, <2>1, <3>2 DEF CascadeOpen, Slave, Others
      <3> QED
        BY <3>2, <3>3 DEF MasksOnTheWay
    <2>2. ASSUME NEW l \in Others, OnSlave(l), asked = open \cup {l},
                 todo = <<Update(CASCADE, FALSE), Update(l, FALSE)>>
          PROVE  MasksOnTheWay'
      <3>1. /\ u.line = CASCADE /\ u.masked = FALSE /\ AfterMask(u, mask) = <<>>
            /\ Tail(todo) = <<Update(l, FALSE)>>
        <4>1. u = Update(CASCADE, FALSE) /\ Tail(todo) = <<Update(l, FALSE)>>
          BY <2>2, FirstUpdate, Zenon
        <4> QED
          BY <4>1 DEF Update, AfterMask
      <3>2. todo' = <<Update(l, FALSE)>> /\ imr' = imr \ {CASCADE}
        <4>1. <<Update(l, FALSE)>> \o <<>> = <<Update(l, FALSE)>>
          BY FirstUpdate, Zenon
        <4> QED
          BY <1>1, <1>2, <3>1, <4>1
      <3>3. asked' = (Lines \ imr') \cup {l} /\ CASCADE \notin imr'
        BY <1>2, <2>2, <3>2
      <3> QED
        BY <2>2, <3>2, <3>3 DEF MasksOnTheWay
    <2>3. ASSUME NEW l \in Others, todo = <<Update(l, FALSE)>>,
                 asked = open \cup {l}, CASCADE \notin imr
          PROVE  MasksOnTheWay'
      <3>1. u.line = l /\ u.masked = FALSE /\ Tail(todo) = <<>> /\ AfterMask(u, mask) = <<>>
        BY <2>3 DEF Update, AfterMask
      <3>2. todo' = <<>> /\ imr' = imr \ {l}
        BY <1>1, <1>2, <3>1
      <3>3. asked' = Lines \ imr' /\ CascadeOpen(Lines \ imr)'
        BY <1>2, <2>3, <3>2 DEF CascadeOpen, Others
      <3> QED
        BY <3>2, <3>3 DEF MasksOnTheWay
    <2>4. ASSUME NEW l \in Others, todo = <<Update(l, TRUE)>>,
                 asked = open \ {l}, CascadeOpen(open)
          PROVE  MasksOnTheWay'
      <3>1. u.line = l /\ u.masked = TRUE /\ Tail(todo) = <<>>
        BY <2>4 DEF Update
      <3>2. todo' = AfterMask(u, mask) /\ imr' = imr \cup {l}
        <4>1. <<>> \o AfterMask(u, mask) = AfterMask(u, mask)
          BY AfterMaskShape, NothingBefore, Zenon
        <4> QED
          BY <1>1, <1>2, <3>1, <4>1
      <3>3. asked' = Lines \ imr' /\ CascadeOpen(Lines \ imr)'
        BY <1>2, <2>4, <3>2 DEF CascadeOpen, Slave, Others
      <3>4. CASE OnSlave(l) /\ mask = Slave(Lines)
        <4>1. todo' = <<Update(CASCADE, TRUE)>>
          BY <3>1, <3>2, <3>4 DEF AfterMask
        <4>2. Slave(Lines \ imr') = {}
          BY <1>2, <3>1, <3>2, <3>4 DEF NewMask, SameChip, Slave
        <4> QED
          BY <3>3, <4>1, <4>2 DEF MasksOnTheWay
      <3>5. CASE ~(OnSlave(l) /\ mask = Slave(Lines))
        <4>1. todo' = <<>>
          BY <3>1, <3>2, <3>5 DEF AfterMask
        <4> QED
          BY <3>3, <4>1 DEF MasksOnTheWay
      <3> QED
        BY <3>4, <3>5
    <2>5. ASSUME todo = <<Update(CASCADE, TRUE)>>, asked = open, Slave(open) = {}
          PROVE  MasksOnTheWay'
      <3>1. /\ u.line = CASCADE /\ u.masked = TRUE /\ Tail(todo) = <<>>
            /\ AfterMask(u, mask) = <<>>
        BY <2>5 DEF Update, AfterMask
      <3>2. todo' = <<>> /\ imr' = imr \cup {CASCADE}
        BY <1>1, <1>2, <3>1
      <3>3. asked' = Lines \ imr' /\ CascadeOpen(Lines \ imr)'
        BY <1>2, <2>5, <3>2 DEF CascadeOpen, Slave
      <3> QED
        BY <3>2, <3>3 DEF MasksOnTheWay
    <2> HIDE DEF u, mask
    <2> QED
      BY <1>2, <2>1, <2>2, <2>3, <2>4, <2>5, Zenon
      DEF MasksKept, MasksOnTheWay, i8259_unmask_irq, i8259_mask_irq
  <1> QED
    BY <1>3, <1>4, <1>5 DEF MasksKept

LEMMA BeginUpdateKept ==
  ASSUME Shapes, MasksKept, holdoff, NEW l \in Others, irq_enable(l) \/ irq_disable(l)
  PROVE  MasksKept'
  <1>1. /\ todo = <<>> /\ ~reading /\ ~reading' /\ cpu' = "main" /\ ~intflag'
        /\ UNCHANGED <<imr, mode>>
    <2>1. /\ todo = <<>> /\ cpu = "main"
          /\ UNCHANGED <<imr, mode, reading, cpu, intflag>>
      BY DEF irq_enable, irq_disable, BeginUpdate, chip
    <2>2. ~intflag
      BY Zenon DEF irq_enable, irq_disable, BeginUpdate
    <2>3. ~reading
      BY <2>1, Zenon DEF Shapes
    <2> QED
      BY <2>1, <2>2, <2>3
  <1>2. asked = Lines \ imr /\ CascadeOpen(Lines \ imr)
    BY <1>1, NothingLeft DEF MasksKept
  <1>3. CASE irq_enable(l)
    <2>1. todo' = i8259_unmask_irq(l) /\ asked' = (Lines \ imr') \cup {l}
      BY <1>1, <1>2, <1>3 DEF irq_enable, BeginUpdate
    <2>2. MasksOnTheWay'
      BY <1>1, <1>2, <2>1, Zenon DEF MasksOnTheWay, CascadeOpen
    <2> QED
      BY <1>1, <2>2 DEF MasksKept, UpdatesAlone, TimerLine
  <1>4. CASE irq_disable(l)
    <2>1. todo' = i8259_mask_irq(l) /\ asked' = (Lines \ imr') \ {l}
      BY <1>1, <1>2, <1>4 DEF irq_disable, BeginUpdate
    <2>2. MasksOnTheWay'
      BY <1>1, <1>2, <2>1, Zenon DEF MasksOnTheWay, CascadeOpen
    <2> QED
      BY <1>1, <2>2 DEF MasksKept, UpdatesAlone, TimerLine
  <1> QED
    BY <1>3, <1>4

LEMMA MasksStep ==
  ASSUME Shapes, holdoff, MasksKept, [Next]_vars
  PROVE  MasksKept'
  <1> USE DEF chip, update
  <1> DEFINE Same == UNCHANGED <<imr, mode, asked, todo, read, reading>>
  <1>1. todo # <<>> => cpu = "main" /\ ~intflag
    BY DEF MasksKept, UpdatesAlone
  <1>2. CASE Same /\ UNCHANGED <<cpu, intflag>>
    BY <1>2, OtherKept
  <1>3. CASE Same /\ todo = <<>>
    BY <1>3, OtherKept
  <1>4. ASSUME NEW l \in Others, DeviceRaises(l) PROVE MasksKept'
    BY <1>2, <1>4 DEF DeviceRaises
  <1>5. CASE CounterTicks
    BY <1>2, <1>5 DEF CounterTicks
  <1>6. CASE Interrupt
    BY <1>1, <1>3, <1>6 DEF Interrupt
  <1>7. ASSUME NEW l \in {7, 15}, Spurious(l) PROVE MasksKept'
    BY <1>1, <1>3, <1>7 DEF Spurious
  <1>8. CASE irq_dispatch
    BY <1>1, <1>3, <1>8 DEF irq_dispatch
  <1>9. CASE Callback
    <2>1. todo = <<>> /\ ~reading
      BY <1>1, <1>9 DEF Callback, Shapes
    <2>2. CASE TimerCall
      BY <1>9, <2>1, <2>2, TimerCallShapes, TimerLineKept DEF Callback
    <2>3. CASE UNCHANGED <<pit, imr, mode, asked, armed>>
      BY <1>3, <1>9, <2>1, <2>3 DEF Callback
    <2> QED
      BY <1>9, <2>2, <2>3 DEF Callback
  <1>10. CASE Post
    <2>1. todo = <<>> /\ ~reading
      BY <1>1, <1>10 DEF Post, Shapes
    <2>2. CASE mode = "ONESHOT"
      BY <1>10, <2>1, <2>2, PostShapes, TimerLineKept DEF Post
    <2>3. CASE mode # "ONESHOT"
      BY <1>3, <1>10, <2>1, <2>3, PostShapes DEF Post
    <2> QED
      BY <2>2, <2>3
  <1>11. CASE Eoi
    BY <1>1, <1>3, <1>11 DEF Eoi
  <1>12. CASE Iret
    BY <1>1, <1>3, <1>12 DEF Iret
  <1>13. CASE MainTimerCall
    BY <1>13, TimerCallShapes, TimerLineKept DEF MainTimerCall, Shapes
  <1>14. ASSUME NEW b \in BOOLEAN, SetInterruptFlag(b) PROVE MasksKept'
    BY <1>3, <1>14 DEF SetInterruptFlag
  <1>15. ASSUME NEW l \in Others, irq_enable(l) \/ irq_disable(l) PROVE MasksKept'
    BY <1>15, BeginUpdateKept
  <1>16. CASE ReadMask
    <2>1. UpdatesAlone'
      BY <1>16 DEF ReadMask, MasksKept, UpdatesAlone
    <2>2. MasksOnTheWay'
      BY <1>16, Zenon DEF ReadMask, MasksKept, MasksOnTheWay, CascadeOpen
    <2> QED
      BY <1>16, <2>1, <2>2 DEF ReadMask, MasksKept, TimerLine
  <1>17. CASE WriteMask
    BY <1>17, WriteMaskKept
  <1>18. CASE UNCHANGED vars
    BY <1>2, <1>18 DEF vars
  <1>19. ASSUME NEW l \in Loadable, irq_request(l) \/ irq_free(l) PROVE MasksKept'
    BY <1>2, <1>19 DEF irq_request, irq_free
  <1> QED
    BY <1>4, <1>5, <1>6, <1>7, <1>8, <1>9, <1>10, <1>11, <1>12, <1>13, <1>14, <1>15,
       <1>16, <1>17, <1>18, <1>19 DEF Next

-----------------------------------------------------------------------------
(* The invariant.                                                          *)
LEMMA InitTimerInv == Init => TimerInv
  <1> SUFFICES ASSUME Init PROVE TimerInv
    OBVIOUS
  <1> USE LineNumbers DEF Init
  <1>1. Shapes
    <2>1. todo \in Seq(Updates) /\ (reading => todo # <<>>) /\ holdoff \in BOOLEAN
      OBVIOUS
    <2>2. pit.shape = "idle" /\ CountsAsAsked
      BY DEF CountsAsAsked, Idle
    <2>3. TypeOK
      BY <2>2, TimerAssumption DEF TypeOK
    <2> QED
      BY <2>1, <2>2, <2>3 DEF Shapes
  <1>2. InService /\ EventOwed
    BY DEF InService, EventOwed
  <1>3. UpdatesAlone /\ TimerLine
    BY DEF UpdatesAlone, TimerLine
  <1>4. Lines \ imr = {} /\ Slave({}) = {}
    BY DEF Slave
  <1>5. MasksOnTheWay
    BY <1>4 DEF MasksOnTheWay, CascadeOpen
  <1> QED
    BY <1>1, <1>2, <1>3, <1>5 DEF TimerInv, MasksKept

LEMMA NextTimerInv == TimerInv /\ [Next]_vars => TimerInv'
  <1> SUFFICES ASSUME TimerInv, [Next]_vars PROVE TimerInv'
    OBVIOUS
  <1>1. Shapes' /\ InService' /\ EventOwed'
    BY ShapesKept, InServiceKept, EventOwedKept DEF TimerInv
  <1>2. UNCHANGED holdoff
    BY DEF Next, vars, update, CounterTicks, Interrupt, irq_dispatch, Callback, Post, Eoi,
       Iret, MainTimerCall, ReadMask, WriteMask, SetInterruptFlag, DeviceRaises, irq_enable,
       irq_disable, BeginUpdate, Spurious, irq_request, irq_free
  <1>3. holdoff => MasksKept'
    BY MasksStep DEF TimerInv
  <1> QED
    BY <1>1, <1>2, <1>3 DEF TimerInv

LEMMA TimerInvHolds == Spec => []TimerInv
  BY InitTimerInv, NextTimerInv, PTL DEF Spec

(* Whichever lines the devices use and whenever drivers request and free   *)
(* theirs, irq_dispatch leaves nothing in service but lines whose own      *)
(* interrupt found no handler: a handler's interrupt is ended by its own   *)
(* end-of-interrupt command, which ends no other, and spurious interrupts  *)
(* leave nothing behind.                                                   *)
THEOREM EveryInterruptEnded == Spec => []InterruptsEnded
  <1>1. TimerInv => InterruptsEnded
    BY DEF TimerInv, Shapes, InService, InterruptsEnded, Taken, Stuck
  <1> QED
    BY <1>1, TimerInvHolds, PTL

(* After irq_enable and irq_disable the masks are as the last calls asked, *)
(* when drivers call them with interrupts off, and the timer's line is     *)
(* open exactly in the modes in which the timer counts.                    *)
THEOREM MasksFollowCalls == Spec => []MasksAsAsked
  <1>1. TimerInv => MasksAsAsked
    <2> SUFFICES ASSUME TimerInv, holdoff, todo = <<>>, cpu = "main"
                 PROVE  /\ Lines \ imr = asked
                        /\ Slave(asked) # {} => CASCADE \notin imr
                        /\ (0 \in imr) <=> (mode = "DISABLED")
      BY DEF MasksAsAsked
    <2>1. Lines \ imr = asked /\ (Slave(asked) # {} => CASCADE \notin imr)
      BY NothingLeft DEF TimerInv, MasksKept, CascadeOpen
    <2>2. (0 \in imr) <=> (mode = "DISABLED")
      BY DEF TimerInv, MasksKept, TimerLine
    <2> QED
      BY <2>1, <2>2
  <1> QED
    BY <1>1, TimerInvHolds, PTL

(* A running i8254 counter was loaded with the ticks of the interval that  *)
(* its caller asked for, for any clock that meets ClockAssumption.         *)
THEOREM CounterAsAsked == Spec => []CountsAsAsked
  <1>1. TimerInv => CountsAsAsked
    BY DEF TimerInv, Shapes
  <1> QED
    BY <1>1, TimerInvHolds, PTL

(* The event callback is only called while an event is owed: after a stop, *)
(* or after the event of a one-shot, i8254_irq_handler calls none.         *)
THEOREM EventsOnlyWhenOwed == Spec => EventsAreOwed
  <1>1. TimerInv /\ [Next]_vars => [(cpu' = "event" /\ cpu # "event") => armed]_vars
    <2> SUFFICES ASSUME TimerInv, Next, cpu' = "event", cpu # "event" PROVE armed
      OBVIOUS
    <2>1. irq_dispatch
      BY DEF Next, chip, update, CounterTicks, Interrupt, Callback, Post, Eoi, Iret,
         MainTimerCall, ReadMask, WriteMask, SetInterruptFlag, DeviceRaises, irq_enable,
         irq_disable, BeginUpdate, Spurious, irq_request, irq_free
    <2>2. cpu = "dispatch" /\ mode # "DISABLED"
      BY <2>1 DEF irq_dispatch, EventDue
    <2> QED
      BY <2>2 DEF TimerInv, EventOwed
  <1> QED
    BY <1>1, TimerInvHolds, PTL DEF Spec, EventsAreOwed
=============================================================================
