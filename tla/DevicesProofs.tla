---------------------------- MODULE DevicesProofs -----------------------------
(***************************************************************************)
(* Probing is all or nothing and passes nobody over, for any devices and   *)
(* drivers, any wiring, any heap and any order of the initcalls.           *)
(***************************************************************************)
EXTENDS Devices, BasicFacts

Bindings == [Device -> Driver \cup {NONE}]

World ==
  [heap : SUBSET Device, data : SUBSET Device, lines : SUBSET (Nat \X Timer),
   timers : Seq(Timer), con : Vga \cup {NONE}]

-----------------------------------------------------------------------------
(* What the probes have taken belongs to the devices that are bound.       *)
HeapOwned(w, driver) ==
  /\ \A d \in Device : d \in w.heap <=> driver[d] # NONE
  /\ IsFiniteSet(w.heap) /\ Cardinality(w.heap) <= room

LinesOwned(w, driver) ==
  /\ \A d \in Timer : driver[d] # NONE => <<Line[d], d>> \in w.lines
  /\ \A l \in w.lines : driver[l[2]] # NONE
  /\ \A k, l \in w.lines : k[1] = l[1] => k = l

TimersOwned(w, driver) ==
  /\ \A d \in Timer : driver[d] # NONE => \E i \in DOMAIN w.timers : w.timers[i] = d
  /\ \A i \in DOMAIN w.timers : driver[w.timers[i]] # NONE
  /\ IsInjective(w.timers)

ConsoleOwned(w, driver) ==
  /\ w.con # NONE => driver[w.con] # NONE
  /\ \A d \in Vga : driver[d] # NONE => w.con = d

Owned(w, driver) ==
  HeapOwned(w, driver) /\ LinesOwned(w, driver) /\ TimersOwned(w, driver) /\ ConsoleOwned(w, driver)

LEMMA Kmalloc ==
  ASSUME NEW w \in World, NEW d
  PROVE  kmalloc(w, d) = [heap |-> w.heap \cup {d}, data |-> w.data, lines |-> w.lines,
                          timers |-> w.timers, con |-> w.con]
  <1>1. w = [heap |-> w.heap, data |-> w.data, lines |-> w.lines, timers |-> w.timers, con |-> w.con]
    BY DEF World
  <1> DEFINE u == [heap |-> w.heap \cup {d}, data |-> w.data, lines |-> w.lines,
                   timers |-> w.timers, con |-> w.con]
  <1>2. kmalloc(w, d) = u
    BY <1>1 DEF kmalloc
  <1> QED
    BY <1>2

(* The structure of one more device.                                       *)
LEMMA HeapGrows ==
  ASSUME NEW w \in World, NEW driver \in Bindings, HeapOwned(w, driver), room \in Nat,
         NEW d \in Device, driver[d] = NONE, NEW v \in Driver, ~ kmalloc_fails(w),
         NEW u \in World, u.heap = w.heap \cup {d}
  PROVE  HeapOwned(u, [driver EXCEPT ![d] = v])
  <1>1. v # NONE /\ d \notin w.heap /\ IsFiniteSet(w.heap)
    BY DevicesAssumption DEF HeapOwned
  <1>2. IsFiniteSet(u.heap) /\ Cardinality(u.heap) = Cardinality(w.heap) + 1
    BY <1>1, FS_AddElement
  <1>3. Cardinality(w.heap) \in Nat
    BY <1>1, FS_CardinalityType
  <1>4. Cardinality(u.heap) <= room
    BY <1>2, <1>3 DEF kmalloc_fails
  <1> QED
    BY <1>1, <1>2, <1>4 DEF HeapOwned, Bindings

LEMMA ThreeFields ==
  ASSUME NEW u, NEW z,
         u = [heap |-> u.heap, data |-> u.data, lines |-> u.lines, timers |-> u.timers, con |-> u.con],
         z = [heap |-> u.heap, data |-> z.data, lines |-> z.lines, timers |-> z.timers, con |-> u.con]
  PROVE  [u EXCEPT !.lines = z.lines, !.data = z.data, !.timers = z.timers] = z
  <1> DEFINE u1 == [u EXCEPT !.lines = z.lines]
             u2 == [u1 EXCEPT !.data = z.data]
             u3 == [u2 EXCEPT !.timers = z.timers]
  <1>1. [u EXCEPT !.lines = z.lines, !.data = z.data, !.timers = z.timers] = u3
    OBVIOUS
  <1>2. u1 = [heap |-> u.heap, data |-> u.data, lines |-> z.lines, timers |-> u.timers, con |-> u.con]
    OBVIOUS
  <1> HIDE DEF u1
  <1>3. u2 = [heap |-> u.heap, data |-> z.data, lines |-> z.lines, timers |-> u.timers, con |-> u.con]
    BY <1>2
  <1> HIDE DEF u2
  <1>4. u3 = [heap |-> u.heap, data |-> z.data, lines |-> z.lines, timers |-> z.timers, con |-> u.con]
    BY <1>3
  <1> QED
    BY <1>1, <1>4

LEMMA ProbeTimer ==
  ASSUME NEW w \in World, NEW driver \in Bindings, Owned(w, driver), room \in Nat,
         NEW d \in Timer, driver[d] = NONE, NEW v \in TimerDriver
  PROVE  LET r == i8254_probe(w, d)
         IN  /\ r \in [ok : BOOLEAN, w : World]
             /\ IF r.ok THEN Owned(r.w, [driver EXCEPT ![d] = v]) ELSE r.w = w
  <1> DEFINE u == [heap |-> w.heap \cup {d}, data |-> w.data, lines |-> w.lines,
                   timers |-> w.timers, con |-> w.con]
             z == [heap |-> w.heap \cup {d}, data |-> w.data \cup {d},
                   lines |-> w.lines \cup {<<Line[d], d>>},
                   timers |-> Append(w.timers, d), con |-> w.con]
             dr == [driver EXCEPT ![d] = v]
  <1>1. d \in Device /\ v \in Driver /\ v # NONE /\ d \notin w.heap
    BY DevicesAssumption DEF Device, Driver, Owned, HeapOwned
  <1>2. kmalloc(w, d) = u /\ kfree(u, d) = w
    <2>1. (w.heap \cup {d}) \ {d} = w.heap
      BY <1>1
    <2>2. w = [heap |-> w.heap, data |-> w.data, lines |-> w.lines, timers |-> w.timers, con |-> w.con]
      BY DEF World
    <2>3. kmalloc(w, d) = u
      BY Kmalloc
    <2>4. kfree(u, d) = [heap |-> u.heap \ {d}, data |-> u.data, lines |-> u.lines,
                         timers |-> u.timers, con |-> u.con]
      BY DEF kfree
    <2> QED
      BY <2>1, <2>2, <2>3, <2>4
  <1>3. /\ Line[d] \in Nat /\ Append(w.timers, d) \in Seq(Timer)
        /\ w.heap \cup {d} \in SUBSET Device /\ w.data \cup {d} \in SUBSET Device
        /\ w.lines \cup {<<Line[d], d>>} \in SUBSET (Nat \X Timer)
    BY <1>1, DevicesAssumption DEF World
  <1>4. z \in World
    BY <1>3 DEF World
  <1>5. i8254_probe(w, d) = IF kmalloc_fails(w) \/ res[d] # "good" \/ irq_busy(u, d)
                              THEN [ok |-> FALSE, w |-> w] ELSE [ok |-> TRUE, w |-> z]
    <2>1. [u EXCEPT !.lines = @ \cup {<<Line[d], d>>}, !.data = @ \cup {d}, !.timers = Append(@, d)] = z
      <3>1. /\ u = [heap |-> u.heap, data |-> u.data, lines |-> u.lines, timers |-> u.timers, con |-> u.con]
            /\ z = [heap |-> u.heap, data |-> z.data, lines |-> z.lines, timers |-> z.timers, con |-> u.con]
        OBVIOUS
      <3>2. u.lines \cup {<<Line[d], d>>} = z.lines /\ u.data \cup {d} = z.data /\ Append(u.timers, d) = z.timers
        OBVIOUS
      <3> HIDE DEF u, z
      <3>3. [u EXCEPT !.lines = z.lines, !.data = z.data, !.timers = z.timers] = z
        BY <3>1, ThreeFields
      <3> QED
        BY <3>2, <3>3
    <2> HIDE DEF u, z
    <2>2. i8254_probe(w, d) =
            IF kmalloc_fails(w) THEN Failed(w)
            ELSE IF res[d] # "good" \/ irq_busy(u, d) THEN Failed(w) ELSE Succeeded(z)
      BY <1>2, <2>1 DEF i8254_probe
    <2> QED
      BY <2>2 DEF Failed, Succeeded
  <1>6. CASE kmalloc_fails(w) \/ res[d] # "good" \/ irq_busy(u, d)
    BY <1>5, <1>6
  <1>7. CASE ~ (kmalloc_fails(w) \/ res[d] # "good" \/ irq_busy(u, d))
    <2>1. ~ kmalloc_fails(w) /\ ~ \E l \in w.lines : l[1] = Line[d]
      BY <1>7 DEF irq_busy
    <2>2. /\ z.heap = w.heap \cup {d} /\ z.lines = w.lines \cup {<<Line[d], d>>}
          /\ z.timers = Append(w.timers, d) /\ z.con = w.con
      OBVIOUS
    <2> HIDE DEF z
    <2>3. dr[d] = v /\ \A x \in Device : x # d => dr[x] = driver[x]
      BY <1>1 DEF Bindings
    <2>4. HeapOwned(z, dr)
      BY <1>1, <1>4, <2>1, <2>2, HeapGrows DEF Owned
    <2> HIDE DEF dr
    <2>5. LinesOwned(z, dr)
      <3>1. ASSUME NEW x \in Timer, dr[x] # NONE PROVE <<Line[x], x>> \in z.lines
        BY <2>2, <2>3, <3>1 DEF Owned, LinesOwned, Device
      <3>2. ASSUME NEW l \in z.lines PROVE dr[l[2]] # NONE
        <4>1. CASE l \in w.lines
          <5>1. l[2] \in Device /\ driver[l[2]] # NONE
            BY <4>1 DEF Owned, LinesOwned, World, Device
          <5> QED
            BY <1>1, <2>3, <5>1
        <4>2. CASE l = <<Line[d], d>>
          BY <1>1, <2>3, <4>2
        <4> QED
          BY <2>2, <4>1, <4>2
      <3>3. ASSUME NEW k \in z.lines, NEW l \in z.lines, k[1] = l[1] PROVE k = l
        BY <2>1, <2>2, <3>3 DEF Owned, LinesOwned
      <3> QED
        BY <3>1, <3>2, <3>3 DEF LinesOwned
    <2>6. TimersOwned(z, dr)
      <3> DEFINE s == w.timers
                 t == Append(s, d)
      <3>1. /\ s \in Seq(Timer) /\ Len(s) \in Nat /\ DOMAIN s = 1 .. Len(s)
            /\ DOMAIN t = 1 .. (Len(s) + 1) /\ t[Len(s) + 1] = d
            /\ \A i \in 1 .. Len(s) : t[i] = s[i] /\ s[i] \in Timer
        BY DEF World
      <3>2. \A i \in 1 .. Len(s) : driver[s[i]] # NONE /\ s[i] # d
        BY <3>1 DEF Owned, TimersOwned
      <3> HIDE DEF t
      <3>3. ASSUME NEW x \in Timer, dr[x] # NONE PROVE \E i \in DOMAIN t : t[i] = x
        <4>1. CASE x = d
          BY <3>1, <4>1
        <4>2. CASE x # d
          <5>1. driver[x] # NONE
            BY <2>3, <3>3, <4>2 DEF Device
          <5>2. PICK i \in 1 .. Len(s) : s[i] = x
            BY <3>1, <5>1 DEF Owned, TimersOwned
          <5> QED
            BY <3>1, <5>2
        <4> QED
          BY <4>1, <4>2
      <3>4. ASSUME NEW i \in DOMAIN t PROVE dr[t[i]] # NONE
        BY <1>1, <2>3, <3>1, <3>2 DEF Device
      <3>5. \A i, j \in DOMAIN t : t[i] = t[j] => i = j
        <4>1. \A i, j \in 1 .. Len(s) : s[i] = s[j] => i = j
          BY <3>1 DEF Owned, TimersOwned, IsInjective
        <4> QED
          BY <3>1, <3>2, <4>1
      <3> QED
        BY <2>2, <3>3, <3>4, <3>5 DEF TimersOwned, IsInjective, t
    <2>7. ConsoleOwned(z, dr)
      <3>1. \A x \in Vga : x # d /\ x \in Device /\ dr[x] = driver[x] /\ x # NONE
        BY <2>3, DevicesAssumption DEF Device
      <3>2. w.con \in Vga \cup {NONE}
        BY DEF World
      <3> QED
        BY <2>2, <3>1, <3>2 DEF Owned, ConsoleOwned
    <2>8. Owned(z, dr)
      BY <2>4, <2>5, <2>6, <2>7 DEF Owned
    <2> QED
      BY <1>4, <1>5, <1>7, <2>8 DEF dr
  <1> QED
    BY <1>6, <1>7

LEMMA ProbeVga ==
  ASSUME NEW w \in World, NEW driver \in Bindings, Owned(w, driver), room \in Nat,
         NEW d \in Vga, driver[d] = NONE, NEW v \in Driver
  PROVE  LET r == vga_text_probe(w, d)
         IN  /\ r \in [ok : BOOLEAN, w : World]
             /\ Owned(r.w, IF r.ok THEN [driver EXCEPT ![d] = v] ELSE driver)
  <1> DEFINE h == w.heap \cup {d}
             D == w.data \cup {d}
             x == kmalloc(w, d)
             u == [x EXCEPT !.data = @ \cup {d}]
             f == kfree(u, d)
             z == [u EXCEPT !.con = d]
             dr == [driver EXCEPT ![d] = v]
  <1>1. d \in Device /\ v # NONE /\ d # NONE /\ d \notin w.heap /\ h \ {d} = w.heap
    BY DevicesAssumption DEF Device, Driver, Owned, HeapOwned
  <1>2. w = [heap |-> w.heap, data |-> w.data, lines |-> w.lines, timers |-> w.timers, con |-> w.con]
    BY DEF World
  <1>3. vga_text_probe(w, d) =
          IF res[d] = "missing" \/ kmalloc_fails(w) THEN [ok |-> FALSE, w |-> w]
          ELSE IF u.con # NONE THEN [ok |-> FALSE, w |-> f] ELSE [ok |-> TRUE, w |-> z]
    BY DEF vga_text_probe, Failed, Succeeded
  <1>4. x = [heap |-> h, data |-> w.data, lines |-> w.lines, timers |-> w.timers, con |-> w.con]
    BY Kmalloc
  <1> HIDE DEF x
  <1>5. u = [heap |-> h, data |-> D, lines |-> w.lines, timers |-> w.timers, con |-> w.con]
    BY <1>4
  <1> HIDE DEF u
  <1>6. f = [heap |-> w.heap, data |-> D, lines |-> w.lines, timers |-> w.timers, con |-> w.con]
    <2>1. f = [u EXCEPT !.heap = u.heap \ {d}]
      BY DEF kfree
    <2>2. f = [heap |-> u.heap \ {d}, data |-> D, lines |-> w.lines, timers |-> w.timers, con |-> w.con]
      BY <1>5, <2>1
    <2> QED
      BY <1>1, <1>5, <2>2
  <1>7. z = [heap |-> h, data |-> D, lines |-> w.lines, timers |-> w.timers, con |-> d]
    BY <1>5
  <1> HIDE DEF f, z
  <1>8. f \in World /\ z \in World /\ u.con = w.con
    BY <1>1, <1>5, <1>6, <1>7 DEF World
  <1>9. CASE res[d] = "missing" \/ kmalloc_fails(w)
    BY <1>3, <1>9
  <1>10. CASE ~ (res[d] = "missing" \/ kmalloc_fails(w)) /\ u.con # NONE
    <2>1. f.heap = w.heap /\ f.lines = w.lines /\ f.timers = w.timers /\ f.con = w.con
      BY <1>6
    <2>2. Owned(f, driver)
      BY <2>1 DEF Owned, HeapOwned, LinesOwned, TimersOwned, ConsoleOwned
    <2>3. vga_text_probe(w, d) = [ok |-> FALSE, w |-> f]
      BY <1>3, <1>10
    <2> QED
      BY <1>8, <2>2, <2>3
  <1>11. CASE ~ (res[d] = "missing" \/ kmalloc_fails(w)) /\ u.con = NONE
    <2>1. /\ z.heap = w.heap \cup {d} /\ z.lines = w.lines /\ z.timers = w.timers /\ z.con = d
          /\ ~ kmalloc_fails(w) /\ w.con = NONE
      BY <1>7, <1>8, <1>11
    <2>2. dr \in Bindings /\ dr[d] = v /\ \A y \in Device : y # d => dr[y] = driver[y]
      BY <1>1 DEF Bindings
    <2>3. HeapOwned(z, dr)
      BY <1>1, <1>8, <2>1, HeapGrows DEF Owned
    <2> HIDE DEF dr
    <2>4. \A y \in Timer : y \in Device /\ y # d /\ dr[y] = driver[y]
      BY <2>2, DevicesAssumption DEF Device
    <2>5. LinesOwned(z, dr)
      <3>1. \A l \in w.lines : l[2] \in Timer
        BY DEF World
      <3> QED
        BY <2>1, <2>4, <3>1 DEF Owned, LinesOwned
    <2>6. TimersOwned(z, dr)
      <3>1. \A i \in DOMAIN w.timers : w.timers[i] \in Timer
        BY DEF World
      <3> QED
        BY <2>1, <2>4, <3>1 DEF Owned, TimersOwned
    <2>7. ConsoleOwned(z, dr)
      <3>1. ASSUME NEW y \in Vga, dr[y] # NONE PROVE y = d
        BY <2>1, <2>2, <3>1, DevicesAssumption DEF Owned, ConsoleOwned, Device
      <3> QED
        BY <1>1, <2>1, <2>2, <3>1 DEF ConsoleOwned
    <2>8. Owned(z, dr)
      BY <2>3, <2>5, <2>6, <2>7 DEF Owned
    <2>9. vga_text_probe(w, d) = [ok |-> TRUE, w |-> z]
      BY <1>3, <1>11
    <2> QED
      BY <1>8, <2>8, <2>9 DEF dr
  <1> QED
    BY <1>9, <1>10, <1>11

(* A probe of a matching pair leaves what it took with the device when it  *)
(* succeeds, and gives it back when it fails.                              *)
LEMMA ProbeOwned ==
  ASSUME NEW w \in World, NEW driver \in Bindings, Owned(w, driver), room \in Nat,
         NEW d \in Device, driver[d] = NONE, NEW v \in Driver, platform_match(d, v)
  PROVE  LET r == platform_probe(w, d, v)
         IN  /\ r \in [ok : BOOLEAN, w : World]
             /\ Owned(r.w, IF r.ok THEN [driver EXCEPT ![d] = v] ELSE driver)
  <1>1. CASE v \in TimerDriver
    <2>1. d \in Timer /\ platform_probe(w, d, v) = i8254_probe(w, d)
      BY <1>1 DEF platform_match, platform_probe
    <2> QED
      BY <1>1, <2>1, ProbeTimer
  <1>2. CASE v \notin TimerDriver
    <2>1. d \in Vga /\ platform_probe(w, d, v) = vga_text_probe(w, d)
      BY <1>2 DEF platform_match, platform_probe, Device
    <2> QED
      BY <2>1, ProbeVga
  <1> QED
    BY <1>1, <1>2

-----------------------------------------------------------------------------
(* The loops of bus_add_device and bus_add_driver.                         *)
LoopState ==
  [w : World, driver : Bindings, tried : SUBSET (Device \X Driver), stop : BOOLEAN]

OwnedState == {s \in LoopState : Owned(s.w, s.driver)}

(* What one pass does to the bindings and to the pairs that were tried.    *)
TryEffect(s, p, t) ==
  /\ s.tried \subseteq t.tried
  /\ s.stop => t = s
  /\ ~ t.stop => t.driver = s.driver
  /\ ~ t.stop /\ platform_match(p[1], p[2]) /\ s.driver[p[1]] = NONE => p \in t.tried
  /\ ~ s.stop /\ t.stop => /\ s.driver[p[1]] = NONE /\ platform_match(p[1], p[2])
                           /\ t.driver = [s.driver EXCEPT ![p[1]] = p[2]]

LEMMA TryStep ==
  ASSUME room \in Nat, NEW s \in OwnedState, NEW p \in Device \X Driver
  PROVE  Try(s, p) \in OwnedState /\ TryEffect(s, p, Try(s, p))
  <1> DEFINE d == p[1]
             v == p[2]
             t == Try(s, p)
             r == platform_probe(s.w, d, v)
             dr == IF r.ok THEN [s.driver EXCEPT ![d] = v] ELSE s.driver
             y == [w |-> r.w, driver |-> dr, tried |-> s.tried \cup {p}, stop |-> r.ok]
  <1>1. /\ s \in LoopState /\ s.w \in World /\ s.driver \in Bindings /\ Owned(s.w, s.driver)
        /\ s.tried \in SUBSET (Device \X Driver) /\ s.stop \in BOOLEAN
        /\ d \in Device /\ v \in Driver
    BY DEF OwnedState, LoopState
  <1>2. CASE s.stop \/ s.driver[d] # NONE \/ ~ platform_match(d, v)
    <2>1. t = s
      BY <1>2 DEF Try
    <2> QED
      BY <1>1, <1>2, <2>1 DEF TryEffect
  <1>3. CASE ~ (s.stop \/ s.driver[d] # NONE \/ ~ platform_match(d, v))
    <2>1. r.ok \in BOOLEAN /\ r.w \in World /\ Owned(r.w, dr)
      BY <1>1, <1>3, ProbeOwned
    <2>2. t = y
      <3> DEFINE nd == [s.driver EXCEPT ![d] = IF r.ok THEN v ELSE s.driver[d]]
                 s1 == [s EXCEPT !.w = r.w]
                 s2 == [s1 EXCEPT !.tried = s.tried \cup {p}]
                 s3 == [s2 EXCEPT !.stop = r.ok]
                 s4 == [s3 EXCEPT !.driver = nd]
      <3>1. t = [s EXCEPT !.w = r.w, !.tried = @ \cup {p}, !.stop = r.ok,
                          !.driver[d] = IF r.ok THEN v ELSE @]
        BY <1>3 DEF Try
      <3>2. nd = dr
        BY <1>1 DEF Bindings
      <3> HIDE DEF r, dr
      <3>3. s = [w |-> s.w, driver |-> s.driver, tried |-> s.tried, stop |-> s.stop]
        BY <1>1 DEF LoopState
      <3>4. s1 = [w |-> r.w, driver |-> s.driver, tried |-> s.tried, stop |-> s.stop]
        BY <3>3
      <3> HIDE DEF s1
      <3>5. s2 = [w |-> r.w, driver |-> s.driver, tried |-> s.tried \cup {p}, stop |-> s.stop]
        BY <3>4
      <3> HIDE DEF s2
      <3>6. s3 = [w |-> r.w, driver |-> s.driver, tried |-> s.tried \cup {p}, stop |-> r.ok]
        BY <3>5
      <3> HIDE DEF s3
      <3>7. s4 = [w |-> r.w, driver |-> nd, tried |-> s.tried \cup {p}, stop |-> r.ok]
        BY <3>6
      <3>8. t = s4
        BY <3>1, <3>6 DEF s1, s2, s3
      <3> QED
        BY <3>2, <3>7, <3>8
    <2>3. dr \in Bindings
      BY <1>1 DEF Bindings
    <2> HIDE DEF r, dr, t
    <2>4. t \in OwnedState
      <3>1. s.tried \cup {p} \in SUBSET (Device \X Driver)
        BY <1>1
      <3>2. t \in LoopState
        BY <2>1, <2>2, <2>3, <3>1 DEF LoopState
      <3> QED
        BY <2>1, <2>2, <3>2 DEF OwnedState
    <2>5. TryEffect(s, p, t)
      BY <1>1, <1>3, <2>1, <2>2 DEF TryEffect, dr
    <2> QED
      BY <2>4, <2>5 DEF t
  <1> QED
    BY <1>2, <1>3

(* Where the loop over the pairs stands after k passes: of the pairs that  *)
(* it has come by, every one whose device still has no driver was tried.   *)
AllTried(t, k, pairs) ==
  \A j \in 1 .. k : platform_match(pairs[j][1], pairs[j][2]) /\ t.driver[pairs[j][1]] = NONE
                      => pairs[j] \in t.tried

LoopInv(t, k, pairs) ==
  /\ t \in OwnedState
  /\ tried \subseteq t.tried
  /\ \A x \in Device : bus.driver[x] # NONE => t.driver[x] = bus.driver[x]
  /\ \A x \in Device : t.driver[x] # bus.driver[x] =>
       \E i \in 1 .. k : pairs[i] = <<x, t.driver[x]>> /\ platform_match(x, t.driver[x])
  /\ ~ t.stop => AllTried(t, k, pairs)
  /\ t.stop => \E i \in 1 .. k : t.driver[pairs[i][1]] = pairs[i][2] /\ AllTried(t, i - 1, pairs)

LEMMA LoopStep ==
  ASSUME room \in Nat, bus.driver \in Bindings, NEW pairs \in Seq(Device \X Driver),
         NEW k \in Nat, k < Len(pairs), NEW s, LoopInv(s, k, pairs)
  PROVE  LoopInv(Try(s, pairs[k + 1]), k + 1, pairs)
  <1> DEFINE p == pairs[k + 1]
             t == Try(s, p)
  <1> SUFFICES LoopInv(t, k + 1, pairs)
    OBVIOUS
  <1>1. /\ p \in Device \X Driver /\ s \in OwnedState /\ k + 1 \in 1 .. (k + 1)
        /\ \A j \in 1 .. (k + 1) : j \in 1 .. k \/ j = k + 1
        /\ \A j \in 1 .. (k + 1) : pairs[j][1] \in Device
    BY DEF LoopInv
  <1>2. t \in OwnedState /\ TryEffect(s, p, t)
    BY <1>1, TryStep
  <1>3. /\ s.driver \in Bindings /\ t.driver \in Bindings /\ p[1] \in Device /\ p[2] \in Driver
        /\ p[2] # NONE /\ p = <<p[1], p[2]>> /\ s.stop \in BOOLEAN /\ t.stop \in BOOLEAN
    BY <1>1, <1>2, DevicesAssumption DEF OwnedState, LoopState
  <1> HIDE DEF t
  <1>4. CASE s.stop
    <2>1. t = s
      BY <1>2, <1>4 DEF TryEffect
    <2>2. \A i \in 1 .. k : i \in 1 .. (k + 1)
      OBVIOUS
    <2>3. /\ tried \subseteq t.tried
          /\ \A x \in Device : bus.driver[x] # NONE => t.driver[x] = bus.driver[x]
      BY <2>1 DEF LoopInv
    <2>4. ASSUME NEW x \in Device, t.driver[x] # bus.driver[x]
          PROVE  \E i \in 1 .. (k + 1) :
                   pairs[i] = <<x, t.driver[x]>> /\ platform_match(x, t.driver[x])
      <3>1. PICK i \in 1 .. k : pairs[i] = <<x, s.driver[x]>> /\ platform_match(x, s.driver[x])
        BY <2>1, <2>4 DEF LoopInv
      <3> QED
        BY <2>1, <2>2, <3>1
    <2>5. \E i \in 1 .. (k + 1) : t.driver[pairs[i][1]] = pairs[i][2] /\ AllTried(t, i - 1, pairs)
      <3>1. PICK i \in 1 .. k : s.driver[pairs[i][1]] = pairs[i][2] /\ AllTried(s, i - 1, pairs)
        BY <1>4 DEF LoopInv
      <3> QED
        BY <2>1, <2>2, <3>1
    <2> QED
      BY <1>2, <1>4, <2>1, <2>3, <2>4, <2>5 DEF LoopInv
  <1>5. CASE ~ s.stop /\ ~ t.stop
    <2>1. t.driver = s.driver /\ s.tried \subseteq t.tried
      BY <1>2, <1>5 DEF TryEffect
    <2>2. ASSUME NEW j \in 1 .. (k + 1), platform_match(pairs[j][1], pairs[j][2]),
                 t.driver[pairs[j][1]] = NONE
          PROVE  pairs[j] \in t.tried
      <3>1. CASE j \in 1 .. k
        BY <1>5, <2>1, <2>2, <3>1 DEF LoopInv, AllTried
      <3>2. CASE j = k + 1
        BY <1>2, <1>5, <2>1, <2>2, <3>2 DEF TryEffect
      <3> QED
        BY <1>1, <3>1, <3>2
    <2>3. AllTried(t, k + 1, pairs)
      BY <2>2 DEF AllTried
    <2> QED
      BY <1>1, <1>2, <1>5, <2>1, <2>3 DEF LoopInv
  <1>6. CASE ~ s.stop /\ t.stop
    <2>1. /\ s.driver[p[1]] = NONE /\ platform_match(p[1], p[2]) /\ s.tried \subseteq t.tried
          /\ t.driver[p[1]] = p[2] /\ \A x \in Device : x # p[1] => t.driver[x] = s.driver[x]
      BY <1>2, <1>3, <1>6 DEF TryEffect, Bindings
    <2> HIDE DEF p
    <2>2. \A x \in Device : bus.driver[x] # NONE => t.driver[x] = bus.driver[x]
      BY <1>3, <2>1 DEF LoopInv
    <2>3. ASSUME NEW x \in Device, t.driver[x] # bus.driver[x]
          PROVE  \E i \in 1 .. (k + 1) : pairs[i] = <<x, t.driver[x]>> /\ platform_match(x, t.driver[x])
      <3>1. CASE x = p[1]
        <4>1. pairs[k + 1] = <<x, t.driver[x]>> /\ platform_match(x, t.driver[x])
          BY <1>3, <2>1, <3>1 DEF p
        <4> QED
          BY <1>1, <4>1
      <3>2. CASE x # p[1]
        BY <1>1, <2>1, <2>3, <3>2 DEF LoopInv
      <3> QED
        BY <3>1, <3>2
    <2>4. ASSUME NEW j \in 1 .. k, platform_match(pairs[j][1], pairs[j][2]),
                 t.driver[pairs[j][1]] = NONE
          PROVE  pairs[j] \in t.tried
      <3>1. pairs[j][1] \in Device /\ pairs[j][1] # p[1]
        BY <1>1, <1>3, <2>1, <2>4
      <3>2. s.driver[pairs[j][1]] = NONE
        BY <2>1, <2>4, <3>1
      <3> QED
        BY <1>6, <2>1, <2>4, <3>2 DEF LoopInv, AllTried
    <2>5. t.driver[pairs[k + 1][1]] = pairs[k + 1][2] /\ AllTried(t, (k + 1) - 1, pairs)
      <3>1. (k + 1) - 1 = k
        OBVIOUS
      <3>2. t.driver[pairs[k + 1][1]] = pairs[k + 1][2]
        BY <2>1 DEF p
      <3> QED
        BY <2>4, <3>1, <3>2 DEF AllTried
    <2>6. tried \subseteq t.tried
      BY <2>1 DEF LoopInv
    <2> QED
      BY <1>1, <1>2, <1>6, <2>2, <2>3, <2>5, <2>6 DEF LoopInv
  <1> QED
    BY <1>3, <1>4, <1>5, <1>6

LEMMA LoopResult ==
  ASSUME room \in Nat, Start \in OwnedState, NEW pairs \in Seq(Device \X Driver)
  PROVE  LoopInv(TryEach(pairs), Len(pairs), pairs)
  <1> DEFINE n == Len(pairs)
             Turn(f, k) == IF k = 0 THEN Start ELSE Try(f[k - 1], pairs[k])
             it == CHOOSE f : f = [k \in 0 .. n |-> Turn(f, k)]
             F == [x \in (1 .. n) \X OwnedState |-> Try(x[2], pairs[x[1]])]
  <1>1. n \in Nat /\ \A k \in 1 .. n : pairs[k] \in Device \X Driver
    OBVIOUS
  <1>2. F \in [(1 .. n) \X OwnedState -> OwnedState]
    BY <1>1, TryStep
  <1>3. \E f : f = [k \in 0 .. n |-> Turn(f, k)]
    <2>1. PICK h : IsLoop(h, OwnedState, Start, F, n)
      <3> HIDE DEF n, F
      <3> QED
        BY <1>1, <1>2, LoopExists
    <2>2. ASSUME NEW k \in 0 .. n PROVE h[k] = Turn(h, k)
      <3>1. k # 0 => k \in 1 .. n /\ h[k - 1] \in OwnedState
        BY <1>1, <2>1 DEF IsLoop
      <3> QED
        BY <2>1, <3>1 DEF IsLoop
    <2> HIDE DEF Turn
    <2>3. h = [k \in 0 .. n |-> Turn(h, k)]
      BY <2>1, <2>2 DEF IsLoop
    <2> QED
      BY <2>3
  <1>4. it = [k \in 0 .. n |-> Turn(it, k)]
    <2> HIDE DEF Turn
    <2> QED
      BY <1>3, Zenon
  <1>5. TryEach(pairs) = it[n]
    BY SMT DEF TryEach
  <1> HIDE DEF it
  <1>6. it[0] = Start /\ \A k \in 1 .. n : it[k] = Try(it[k - 1], pairs[k])
    <2>1. it[0] = Start
      BY <1>1, <1>4
    <2>2. ASSUME NEW k \in 1 .. n PROVE it[k] = Try(it[k - 1], pairs[k])
      <3>1. k \in 0 .. n /\ k # 0
        BY <1>1
      <3>2. it[k] = Turn(it, k)
        BY <1>4, <3>1
      <3> QED
        BY <3>1, <3>2
    <2> QED
      BY <2>1, <2>2
  <1> DEFINE S == {k \in Nat : k <= n => LoopInv(it[k], k, pairs)}
  <1>7. 0 \in S
    <2>1. Start.tried = tried /\ Start.driver = bus.driver /\ Start.stop = FALSE
      BY DEF Start
    <2>2. LoopInv(Start, 0, pairs)
      BY <2>1 DEF LoopInv, AllTried
    <2> QED
      BY <1>6, <2>2
  <1>8. ASSUME NEW k \in Nat, k \in S PROVE k + 1 \in S
    <2> SUFFICES ASSUME k + 1 <= n PROVE LoopInv(it[k + 1], k + 1, pairs)
      OBVIOUS
    <2>1. LoopInv(it[k], k, pairs) /\ k < n /\ k + 1 \in 1 .. n /\ (k + 1) - 1 = k
      BY <1>1, <1>8
    <2>2. it[k + 1] = Try(it[k], pairs[k + 1])
      BY <1>6, <2>1
    <2>3. bus.driver \in Bindings
      BY DEF Start, OwnedState, LoopState
    <2> QED
      BY <2>1, <2>2, <2>3, LoopStep
  <1> HIDE DEF S
  <1>9. n \in S
    BY <1>1, <1>7, <1>8, SetInduction
  <1> QED
    BY <1>1, <1>5, <1>9 DEF S

-----------------------------------------------------------------------------
(* The invariant.  A device is on the bus when its initcall has run, and   *)
(* so is a driver.                                                         *)
DevTypes ==
  /\ bus \in [devices : Seq(Device), drivers : Seq(Driver), driver : Bindings]
  /\ world \in World /\ tried \in SUBSET (Device \X Driver)
  /\ room \in Nat /\ pending \in SUBSET (Device \cup Driver)
  /\ listed \in [Driver -> Nat] /\ \A v \in Driver : listed[v] <= Len(bus.devices)

Listed ==
  /\ IsInjective(bus.devices) /\ Range(bus.devices) = Registered \cap Device
  /\ IsInjective(bus.drivers) /\ Range(bus.drivers) = Registered \cap Driver

BoundAsListed ==
  \A d \in Device : Bound(d) =>
    d \in Range(bus.devices) /\ bus.driver[d] \in Range(bus.drivers) /\ platform_match(d, bus.driver[d])

DevInv == DevTypes /\ Listed /\ Owned(world, bus.driver) /\ BoundAsListed /\ TriedUntilFirstBound

LEMMA AppendNew ==
  ASSUME NEW A, NEW s \in Seq(A), IsInjective(s), NEW x \in A, x \notin Range(s)
  PROVE  /\ Append(s, x) \in Seq(A) /\ IsInjective(Append(s, x))
         /\ Range(Append(s, x)) = Range(s) \cup {x}
  <1> DEFINE t == Append(s, x)
  <1>1. /\ Len(s) \in Nat /\ DOMAIN s = 1 .. Len(s) /\ t \in Seq(A)
        /\ DOMAIN t = 1 .. (Len(s) + 1) /\ t[Len(s) + 1] = x
        /\ \A i \in 1 .. Len(s) : t[i] = s[i]
    OBVIOUS
  <1>2. \A i \in 1 .. Len(s) : s[i] # x
    BY <1>1 DEF Range
  <1> HIDE DEF t
  <1>3. \A i \in DOMAIN t : i \in 1 .. Len(s) \/ i = Len(s) + 1
    BY <1>1
  <1>4. IsInjective(t)
    BY <1>1, <1>2, <1>3 DEF IsInjective
  <1>5. \A i \in 1 .. Len(s) : i \in DOMAIN t
    BY <1>1
  <1>6. Len(s) + 1 \in DOMAIN t
    BY <1>1
  <1>7. Range(t) \subseteq Range(s) \cup {x}
    BY <1>1, <1>3 DEF Range
  <1>8. Range(s) \cup {x} \subseteq Range(t)
    BY <1>1, <1>5, <1>6, Zenon DEF Range
  <1> QED
    BY <1>1, <1>4, <1>7, <1>8 DEF t

LEMMA InitDevInv == Init => DevInv
  <1> SUFFICES ASSUME Init PROVE DevInv
    OBVIOUS
  <1>1. /\ bus = [devices |-> <<>>, drivers |-> <<>>, driver |-> [d \in Device |-> NONE]]
        /\ world = [heap |-> {}, data |-> {}, lines |-> {}, timers |-> <<>>, con |-> NONE]
        /\ pending = Device \cup Driver /\ tried = {} /\ room \in Nat
        /\ listed = [v \in Driver |-> 0]
    BY DevicesAssumption DEF Init
  <1>2. DevTypes
    BY <1>1 DEF DevTypes, World, Bindings
  <1>3. Registered = {} /\ \A d \in Device : ~ Bound(d)
    BY <1>1 DEF Registered, Bound
  <1>4. Listed
    <2>1. Range(<<>>) = {} /\ IsInjective(<<>>)
      BY DEF Range, IsInjective
    <2> QED
      BY <1>1, <1>3, <2>1 DEF Listed
  <1>5. Owned(world, bus.driver)
    <2>1. HeapOwned(world, bus.driver)
      BY <1>1, FS_EmptySet DEF HeapOwned
    <2>2. LinesOwned(world, bus.driver) /\ TimersOwned(world, bus.driver) /\ ConsoleOwned(world, bus.driver)
      BY <1>1 DEF LinesOwned, TimersOwned, ConsoleOwned, IsInjective, Device
    <2> QED
      BY <2>1, <2>2 DEF Owned
  <1> QED
    BY <1>2, <1>3, <1>4, <1>5 DEF DevInv, BoundAsListed, TriedUntilFirstBound

(* What the loop starts from, and what was tried before it.                *)
LEMMA StartOwned == DevInv => Start \in OwnedState
  BY DEF DevInv, DevTypes, Start, OwnedState, LoopState

LEMMA TriedBefore ==
  ASSUME DevInv, NEW s, NEW n, NEW pairs, LoopInv(s, n, pairs),
         NEW x \in Registered \cap Device, NEW v \in Registered \cap Driver,
         platform_match(x, v), s.driver[x] = NONE
  PROVE  \/ <<x, v>> \in s.tried
         \/ \E i, j \in 1 .. listed[v] :
              i < j /\ bus.devices[j] = x /\ s.driver[bus.devices[i]] = v
  <1>1. bus.driver[x] = NONE /\ v # NONE
    BY DevicesAssumption DEF LoopInv
  <1>2. CASE <<x, v>> \in tried
    BY <1>2 DEF LoopInv
  <1>3. CASE \E i, j \in 1 .. listed[v] :
               i < j /\ bus.devices[j] = x /\ bus.driver[bus.devices[i]] = v
    <2>1. PICK i \in 1 .. listed[v], j \in 1 .. listed[v] :
                 i < j /\ bus.devices[j] = x /\ bus.driver[bus.devices[i]] = v
      BY <1>3
    <2>2. bus.devices[i] \in Device
      <3>1. /\ bus.devices \in Seq(Device) /\ listed[v] \in Nat /\ listed[v] <= Len(bus.devices)
        BY DEF DevInv, DevTypes
      <3> QED
        BY <2>1, <3>1
    <2>3. s.driver[bus.devices[i]] = v
      BY <1>1, <2>1, <2>2 DEF LoopInv
    <2> QED
      BY <2>1, <2>3
  <1> QED
    BY <1>1, <1>2, <1>3 DEF DevInv, TriedUntilFirstBound, Bound

LEMMA BusFields ==
  ASSUME NEW b, b = [devices |-> b.devices, drivers |-> b.drivers, driver |-> b.driver], NEW x, NEW y
  PROVE  /\ [b EXCEPT !.devices = x, !.driver = y] = [devices |-> x, drivers |-> b.drivers, driver |-> y]
         /\ [b EXCEPT !.drivers = x, !.driver = y] = [devices |-> b.devices, drivers |-> x, driver |-> y]
  <1> DEFINE c == [b EXCEPT !.devices = x]
             e == [b EXCEPT !.drivers = x]
             c2 == [c EXCEPT !.driver = y]
             e2 == [e EXCEPT !.driver = y]
  <1>1. [b EXCEPT !.devices = x, !.driver = y] = c2 /\ [b EXCEPT !.drivers = x, !.driver = y] = e2
    OBVIOUS
  <1>2. c = [devices |-> x, drivers |-> b.drivers, driver |-> b.driver]
    OBVIOUS
  <1>3. e = [devices |-> b.devices, drivers |-> x, driver |-> b.driver]
    OBVIOUS
  <1> HIDE DEF c, e
  <1>4. c2 = [devices |-> x, drivers |-> b.drivers, driver |-> y]
    BY <1>2
  <1>5. e2 = [devices |-> b.devices, drivers |-> x, driver |-> y]
    BY <1>3
  <1> QED
    BY <1>1, <1>4, <1>5

LEMMA AddDeviceKeeps ==
  ASSUME DevInv, NEW d \in pending, d \in Device, d \in Vga => textmode,
         pending' = pending \ {d}, bus_add_device(d)
  PROVE  DevInv'
  <1> DEFINE pairs == WithDrivers(d)
             s == TryEach(pairs)
             vs == bus.drivers
  <1>1. /\ bus.devices \in Seq(Device) /\ vs \in Seq(Driver) /\ bus.driver \in Bindings
        /\ Len(vs) \in Nat /\ DOMAIN vs = 1 .. Len(vs) /\ room \in Nat
        /\ bus = [devices |-> bus.devices, drivers |-> vs, driver |-> bus.driver]
    BY DEF DevInv, DevTypes
  <1>2. /\ pairs \in Seq(Device \X Driver) /\ Len(pairs) = Len(vs)
        /\ \A i \in 1 .. Len(vs) : pairs[i] = <<d, vs[i]>> /\ vs[i] \in Driver
    BY <1>1 DEF WithDrivers
  <1> HIDE DEF pairs
  <1>3. LoopInv(s, Len(vs), pairs)
    BY <1>1, <1>2, StartOwned, LoopResult
  <1>4. /\ bus' = [devices |-> Append(bus.devices, d), drivers |-> vs, driver |-> s.driver]
        /\ world' = s.w /\ tried' = s.tried /\ UNCHANGED <<res, room, textmode, listed>>
    <2>1. /\ bus' = [bus EXCEPT !.devices = Append(@, d), !.driver = s.driver]
          /\ world' = s.w /\ tried' = s.tried /\ UNCHANGED <<res, room, textmode, listed>>
      BY DEF bus_add_device, Finish, pairs
    <2> HIDE DEF s
    <2> QED
      BY <1>1, <2>1, BusFields
  <1> HIDE DEF s, vs
  <1>5. /\ s.w \in World /\ s.driver \in Bindings /\ s.tried \in SUBSET (Device \X Driver)
        /\ Owned(s.w, s.driver) /\ s.stop \in BOOLEAN
    BY <1>3 DEF LoopInv, OwnedState, LoopState
  <1>6. /\ bus'.devices = Append(bus.devices, d) /\ bus'.drivers = vs /\ bus'.driver = s.driver
        /\ room' = room /\ textmode' = textmode /\ listed' = listed
    BY <1>4
  <1>7. Registered' = Registered \cup {d} /\ d \notin Registered /\ d \notin Driver
    BY <1>6, DevicesAssumption DEF Registered
  <1>8. /\ Append(bus.devices, d) \in Seq(Device) /\ IsInjective(Append(bus.devices, d))
        /\ Range(Append(bus.devices, d)) = Range(bus.devices) \cup {d}
    BY <1>1, <1>7, AppendNew DEF DevInv, Listed
  <1>9. DevTypes'
    <2>1. listed \in [Driver -> Nat] /\ \A v \in Driver : listed[v] <= Len(bus.devices)
      BY DEF DevInv, DevTypes
    <2>2. \A v \in Driver : listed[v] <= Len(Append(bus.devices, d))
      BY <1>1, <2>1
    <2> QED
      BY <1>1, <1>4, <1>5, <1>6, <1>8, <2>1, <2>2 DEF DevInv, DevTypes
  <1>10. Listed'
    BY <1>6, <1>7, <1>8 DEF DevInv, Listed, vs
  <1>11. Owned(world, bus.driver)'
    BY <1>4, <1>5, <1>6 DEF Owned, HeapOwned, LinesOwned, TimersOwned, ConsoleOwned
  <1>12. BoundAsListed'
    <2> SUFFICES ASSUME NEW x \in Device, s.driver[x] # NONE
                 PROVE  /\ x \in Range(bus.devices) \cup {d} /\ s.driver[x] \in Range(vs)
                        /\ platform_match(x, s.driver[x])
      BY <1>6, <1>8 DEF BoundAsListed, Bound, platform_match
    <2>1. CASE s.driver[x] = bus.driver[x]
      BY <2>1 DEF DevInv, BoundAsListed, Bound, vs
    <2>2. CASE s.driver[x] # bus.driver[x]
      <3>1. PICK i \in 1 .. Len(vs) : pairs[i] = <<x, s.driver[x]>> /\ platform_match(x, s.driver[x])
        BY <1>3, <2>2 DEF LoopInv
      <3>2. x = d /\ s.driver[x] = vs[i] /\ i \in DOMAIN vs
        BY <1>1, <1>2, <3>1
      <3> QED
        BY <3>1, <3>2 DEF Range
    <2> QED
      BY <2>1, <2>2
  <1>13. TriedUntilFirstBound'
    <2> DEFINE ds == Append(bus.devices, d)
    <2>1. /\ bus'.devices = ds /\ bus'.driver = s.driver /\ tried' = s.tried /\ listed' = listed
          /\ Registered' \cap Device = (Registered \cup {d}) \cap Device
          /\ Registered' \cap Driver = Registered \cap Driver
      BY <1>4, <1>6, <1>7
    <2> HIDE DEF ds
    <2> SUFFICES ASSUME NEW x \in (Registered \cup {d}) \cap Device, NEW v \in Registered \cap Driver,
                        platform_match(x, v), s.driver[x] = NONE
                 PROVE  \/ <<x, v>> \in s.tried
                        \/ \E i, j \in 1 .. listed[v] : i < j /\ ds[j] = x /\ s.driver[ds[i]] = v
      BY <2>1 DEF TriedUntilFirstBound, Bound, platform_match
    <2>2. CASE x = d
      <3>1. ~ s.stop
        <4> SUFFICES ASSUME s.stop PROVE FALSE
          BY <1>5
        <4>1. PICK i \in 1 .. Len(vs) : s.driver[pairs[i][1]] = pairs[i][2]
          BY <1>3 DEF LoopInv
        <4> QED
          BY <1>2, <2>2, <4>1, DevicesAssumption
      <3>2. PICK i \in 1 .. Len(vs) : vs[i] = v
        <4>1. v \in Range(vs)
          BY DEF DevInv, Listed, vs
        <4> QED
          BY <1>1, <4>1 DEF Range
      <3>3. pairs[i] = <<x, v>>
        BY <1>2, <2>2, <3>2
      <3> QED
        BY <1>3, <3>1, <3>3 DEF LoopInv, AllTried
    <2>3. CASE x # d
      <3>1. \/ <<x, v>> \in s.tried
            \/ \E i, j \in 1 .. listed[v] :
                 i < j /\ bus.devices[j] = x /\ s.driver[bus.devices[i]] = v
        BY <1>3, <2>3, TriedBefore
      <3>2. \A i \in 1 .. listed[v] : ds[i] = bus.devices[i]
        <4>1. listed[v] \in Nat /\ listed[v] <= Len(bus.devices)
          BY DEF DevInv, DevTypes
        <4> QED
          BY <1>1, <4>1 DEF ds
      <3> QED
        BY <3>1, <3>2
    <2> QED
      BY <2>2, <2>3
  <1> QED
    BY <1>9, <1>10, <1>11, <1>12, <1>13 DEF DevInv

LEMMA AddDriverKeeps ==
  ASSUME DevInv, NEW v \in pending, v \in Driver, pending' = pending \ {v}, bus_add_driver(v)
  PROVE  DevInv'
  <1> DEFINE pairs == WithDevices(v)
             s == TryEach(pairs)
             ds == bus.devices
  <1>1. /\ ds \in Seq(Device) /\ bus.drivers \in Seq(Driver) /\ bus.driver \in Bindings
        /\ Len(ds) \in Nat /\ DOMAIN ds = 1 .. Len(ds) /\ room \in Nat
        /\ bus = [devices |-> ds, drivers |-> bus.drivers, driver |-> bus.driver]
    BY DEF DevInv, DevTypes
  <1>2. /\ pairs \in Seq(Device \X Driver) /\ Len(pairs) = Len(ds)
        /\ \A i \in 1 .. Len(ds) : pairs[i] = <<ds[i], v>> /\ ds[i] \in Device
    BY <1>1 DEF WithDevices
  <1> HIDE DEF pairs
  <1>3. LoopInv(s, Len(ds), pairs)
    BY <1>1, <1>2, StartOwned, LoopResult
  <1>4. /\ bus' = [devices |-> ds, drivers |-> Append(bus.drivers, v), driver |-> s.driver]
        /\ world' = s.w /\ tried' = s.tried /\ UNCHANGED <<res, room, textmode>>
        /\ listed' = [listed EXCEPT ![v] = Len(ds)]
    <2>1. /\ bus' = [bus EXCEPT !.drivers = Append(@, v), !.driver = s.driver]
          /\ world' = s.w /\ tried' = s.tried /\ UNCHANGED <<res, room, textmode>>
          /\ listed' = [listed EXCEPT ![v] = Len(ds)]
      BY DEF bus_add_driver, Finish, pairs
    <2> HIDE DEF s
    <2> QED
      BY <1>1, <2>1, BusFields
  <1> HIDE DEF s, ds
  <1>5. /\ s.w \in World /\ s.driver \in Bindings /\ s.tried \in SUBSET (Device \X Driver)
        /\ Owned(s.w, s.driver) /\ s.stop \in BOOLEAN
    BY <1>3 DEF LoopInv, OwnedState, LoopState
  <1>6. /\ bus'.devices = ds /\ bus'.drivers = Append(bus.drivers, v) /\ bus'.driver = s.driver
        /\ room' = room /\ textmode' = textmode
    BY <1>4
  <1>7. Registered' = Registered \cup {v} /\ v \notin Registered /\ v \notin Device
    <2>1. v \notin Device
      BY DevicesAssumption
    <2> QED
      BY <1>6, <2>1 DEF Registered, Device
  <1>8. /\ Append(bus.drivers, v) \in Seq(Driver) /\ IsInjective(Append(bus.drivers, v))
        /\ Range(Append(bus.drivers, v)) = Range(bus.drivers) \cup {v}
    BY <1>1, <1>7, AppendNew DEF DevInv, Listed
  <1>9. DevTypes'
    <2>1. listed \in [Driver -> Nat] /\ \A u \in Driver : listed[u] <= Len(ds)
      BY DEF DevInv, DevTypes, ds
    <2>2. listed' \in [Driver -> Nat] /\ \A u \in Driver : listed'[u] <= Len(ds)
      BY <1>1, <1>4, <2>1
    <2> QED
      BY <1>1, <1>4, <1>5, <1>6, <1>8, <2>2 DEF DevInv, DevTypes
  <1>10. Listed'
    BY <1>6, <1>7, <1>8 DEF DevInv, Listed, ds
  <1>11. Owned(world, bus.driver)'
    BY <1>4, <1>5, <1>6 DEF Owned, HeapOwned, LinesOwned, TimersOwned, ConsoleOwned
  <1>12. BoundAsListed'
    <2> SUFFICES ASSUME NEW x \in Device, s.driver[x] # NONE
                 PROVE  /\ x \in Range(ds) /\ s.driver[x] \in Range(bus.drivers) \cup {v}
                        /\ platform_match(x, s.driver[x])
      BY <1>6, <1>8 DEF BoundAsListed, Bound, platform_match
    <2>1. CASE s.driver[x] = bus.driver[x]
      BY <2>1 DEF DevInv, BoundAsListed, Bound, ds
    <2>2. CASE s.driver[x] # bus.driver[x]
      <3>1. PICK i \in 1 .. Len(ds) : pairs[i] = <<x, s.driver[x]>> /\ platform_match(x, s.driver[x])
        BY <1>3, <2>2 DEF LoopInv
      <3>2. x = ds[i] /\ s.driver[x] = v /\ i \in DOMAIN ds
        BY <1>1, <1>2, <3>1
      <3> QED
        BY <3>1, <3>2 DEF Range
    <2> QED
      BY <2>1, <2>2
  <1>13. TriedUntilFirstBound'
    <2> SUFFICES ASSUME NEW x \in Registered \cap Device, NEW u \in (Registered \cup {v}) \cap Driver,
                        platform_match(x, u), s.driver[x] = NONE
                 PROVE  \/ <<x, u>> \in s.tried
                        \/ \E i, j \in 1 .. listed'[u] : i < j /\ ds[j] = x /\ s.driver[ds[i]] = u
      BY <1>4, <1>6, <1>7 DEF TriedUntilFirstBound, Bound, platform_match
    <2>1. listed'[v] = Len(ds) /\ (u # v => listed'[u] = listed[u])
      <3>1. listed \in [Driver -> Nat]
        BY DEF DevInv, DevTypes
      <3> QED
        BY <1>4, <3>1
    <2>2. CASE u = v
      <3>1. PICK j \in 1 .. Len(ds) : ds[j] = x
        <4>1. x \in Range(ds)
          BY DEF DevInv, Listed, ds
        <4> QED
          BY <1>1, <4>1 DEF Range
      <3>2. pairs[j] = <<x, u>> /\ platform_match(pairs[j][1], pairs[j][2]) /\ s.driver[pairs[j][1]] = NONE
        BY <1>2, <2>2, <3>1
      <3>3. CASE ~ s.stop
        BY <1>3, <3>2, <3>3 DEF LoopInv, AllTried
      <3>4. CASE s.stop
        <4>1. PICK i \in 1 .. Len(ds) : s.driver[pairs[i][1]] = pairs[i][2] /\ AllTried(s, i - 1, pairs)
          BY <1>3, <3>4 DEF LoopInv
        <4>2. s.driver[ds[i]] = v /\ i # j
          BY <1>2, <3>1, <4>1, DevicesAssumption
        <4>3. CASE i < j
          BY <2>2, <2>1, <3>1, <4>2, <4>3
        <4>4. CASE ~ (i < j)
          <5>1. j \in 1 .. (i - 1)
            BY <4>2, <4>4
          <5> QED
            BY <3>2, <4>1, <5>1 DEF AllTried
        <4> QED
          BY <4>3, <4>4
      <3> QED
        BY <1>5, <3>3, <3>4
    <2>3. CASE u # v
      BY <1>3, <2>3, <2>1, TriedBefore DEF ds
    <2> QED
      BY <2>2, <2>3
  <1> QED
    BY <1>9, <1>10, <1>11, <1>12, <1>13 DEF DevInv

(* A step that leaves the bus, the devices' resources and the set of      *)
(* registered devices and drivers alone keeps the invariant.              *)
LEMMA SameBus ==
  ASSUME DevInv, UNCHANGED <<bus, world, room, tried, listed>>, Registered' = Registered,
         pending' \in SUBSET (Device \cup Driver)
  PROVE  DevInv'
  <1>1. /\ bus' = bus /\ world' = world /\ room' = room /\ tried' = tried /\ listed' = listed
    OBVIOUS
  <1>2. DevTypes'
    BY <1>1 DEF DevInv, DevTypes
  <1>3. Listed'
    BY <1>1 DEF DevInv, Listed
  <1>4. Owned(world, bus.driver)'
    <2>1. Owned(world, bus.driver)
      BY DEF DevInv
    <2>2. HeapOwned(world, bus.driver)'
      BY <1>1, <2>1 DEF Owned, HeapOwned
    <2>3. LinesOwned(world, bus.driver)' /\ ConsoleOwned(world, bus.driver)'
      BY <1>1, <2>1 DEF Owned, LinesOwned, ConsoleOwned
    <2>4. TimersOwned(world, bus.driver)'
      BY <1>1, <2>1 DEF Owned, TimersOwned
    <2> QED
      BY <2>2, <2>3, <2>4 DEF Owned
  <1>5. BoundAsListed'
    BY <1>1 DEF DevInv, BoundAsListed, Bound
  <1>6. TriedUntilFirstBound'
    BY <1>1 DEF DevInv, TriedUntilFirstBound, Bound
  <1> QED
    BY <1>2, <1>3, <1>4, <1>5, <1>6 DEF DevInv

LEMMA NextDevInv == DevInv /\ [Next]_vars => DevInv'
  <1> SUFFICES ASSUME DevInv, [Next]_vars PROVE DevInv'
    OBVIOUS
  <1>1. CASE UNCHANGED vars
    <2>1. /\ bus' = bus /\ world' = world /\ pending' = pending /\ room' = room
          /\ textmode' = textmode /\ tried' = tried /\ listed' = listed
      BY <1>1 DEF vars
    <2>2. Registered' = Registered
      BY <2>1 DEF Registered
    <2> QED
      BY <2>1, <2>2, SameBus DEF DevInv, DevTypes
  <1>2. ASSUME NEW c \in pending, Initcall(c) PROVE DevInv'
    <2>1. pending' = pending \ {c} /\ c \in Device \cup Driver
      BY <1>2 DEF Initcall, DevInv, DevTypes
    <2>2. CASE c \in Vga /\ ~ textmode
      <3>1. UNCHANGED <<bus, world, res, room, textmode, tried, listed>>
        BY <1>2, <2>2 DEF Initcall
      <3>2. Registered' = Registered
        BY <2>1, <2>2, <3>1 DEF Registered
      <3>3. pending' \in SUBSET (Device \cup Driver)
        BY <2>1 DEF DevInv, DevTypes
      <3> QED
        BY <3>1, <3>2, <3>3, SameBus
    <2>3. CASE ~ (c \in Vga /\ ~ textmode) /\ c \in Device
      BY <1>2, <2>1, <2>3, AddDeviceKeeps DEF Initcall
    <2>4. CASE ~ (c \in Vga /\ ~ textmode) /\ c \notin Device
      BY <1>2, <2>1, <2>4, AddDriverKeeps DEF Initcall
    <2> QED
      BY <2>2, <2>3, <2>4
  <1> QED
    BY <1>1, <1>2 DEF Next

(* A probe of i8254 or vga_text takes memory, an IRQ line, a place in the  *)
(* timer list or the console for good only with the binding of its device: *)
(* every early return gives back what was taken before it.                 *)
THEOREM ProbesOwn == Spec => []ProbesAllOrNothing
  <1>1. DevInv => ProbesAllOrNothing
    <2> SUFFICES ASSUME DevInv PROVE ProbesAllOrNothing
      OBVIOUS
    <2>1. /\ bus.devices \in Seq(Device) /\ bus.drivers \in Seq(Driver) /\ bus.driver \in Bindings
          /\ world.heap \in SUBSET Device /\ world.lines \in SUBSET (Nat \X Timer)
          /\ world.timers \in Seq(Timer) /\ world.con \in Vga \cup {NONE}
          /\ tried \in SUBSET (Device \X Driver) /\ listed \in [Driver -> Nat]
      BY DEF DevInv, DevTypes, World
    <2>2. /\ HeapOwned(world, bus.driver) /\ LinesOwned(world, bus.driver)
          /\ TimersOwned(world, bus.driver) /\ ConsoleOwned(world, bus.driver)
      BY DEF DevInv, Owned
    <2>3. Range(world.timers) \subseteq Timer
      BY <2>1 DEF Range
    <2>4. TypeOK
      BY <2>1, <2>2, <2>3 DEF TypeOK, DevInv, Listed, HeapOwned, Bindings
    <2>5. world.heap = {d \in Device : Bound(d)}
      BY <2>1, <2>2 DEF HeapOwned, Bound
    <2>6. {l[2] : l \in world.lines} = {d \in Timer : Bound(d)}
      <3>1. ASSUME NEW l \in world.lines PROVE l[2] \in Timer /\ Bound(l[2])
        BY <2>1, <2>2 DEF LinesOwned, Bound
      <3>2. ASSUME NEW d \in Timer, Bound(d) PROVE d \in {l[2] : l \in world.lines}
        <4>1. <<Line[d], d>> \in world.lines /\ <<Line[d], d>>[2] = d
          BY <2>2, <3>2 DEF LinesOwned, Bound
        <4> QED
          BY <4>1
      <3> QED
        BY <3>1, <3>2
    <2>7. \A k, l \in world.lines : k[1] = l[1] => k = l
      BY <2>2 DEF LinesOwned
    <2>8. Range(world.timers) = {d \in Timer : Bound(d)} /\ IsInjective(world.timers)
      BY <2>2, <2>3 DEF TimersOwned, Bound, Range
    <2>9. {world.con} \ {NONE} = {d \in Vga : Bound(d)}
      <3>1. \A d \in Vga : d # NONE
        BY DevicesAssumption DEF Device
      <3> QED
        BY <2>1, <2>2, <3>1 DEF ConsoleOwned, Bound
    <2>10. \A d \in Device : Bound(d) =>
             /\ d \in Range(bus.devices) /\ bus.driver[d] \in Range(bus.drivers)
             /\ (d \in Timer) <=> (bus.driver[d] \in TimerDriver)
      BY DEF DevInv, BoundAsListed, platform_match
    <2> QED
      BY <2>4, <2>5, <2>6, <2>7, <2>8, <2>9, <2>10 DEF ProbesAllOrNothing
  <1> QED
    BY <1>1, InitDevInv, NextDevInv, PTL DEF Spec

(* Whatever the order of the initcalls, bus_add_device and bus_add_driver  *)
(* leave a matching pair untried only behind the device that ended         *)
(* bus_add_driver's loop, in the list as that driver found it.             *)
THEOREM NobodyPassedOver == Spec => []TriedUntilFirstBound
  <1>1. DevInv => TriedUntilFirstBound
    BY DEF DevInv
  <1> QED
    BY <1>1, InitDevInv, NextDevInv, PTL DEF Spec
=============================================================================
