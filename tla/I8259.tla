------------------------------- MODULE I8259 ----------------------------------
(***************************************************************************)
(* The pair of 8259 interrupt controllers (the slave on the master's line  *)
(* 2) as the driver kernel/drivers/irqchip/i8259.c programs it.  The       *)
(* controllers' registers are sets of lines: irr (requested), isr (in      *)
(* service) and imr (masked); the slave's lines are 8 .. 15.               *)
(***************************************************************************)
EXTENDS Integers, Sequences, FiniteSets, FiniteSetsExt

CONSTANT Lines   \* the lines that devices use; the others stay masked

CASCADE == 2
OnSlave(l) == l >= 8
Master(s) == {l \in s : ~ OnSlave(l)}
Slave(s)  == {l \in s : OnSlave(l)}

ASSUME LinesAssumption == Lines \subseteq (0 .. 15) \ {CASCADE}

-----------------------------------------------------------------------------
(* The controllers, external: which requests they pass on, fully nested,   *)
(* the lowest line of each first; no second request of the slave while its *)
(* line of the master is in service.                                       *)
Deliverable(irr, isr, imr) ==
  {l \in irr \ imr :
     IF OnSlave(l)
       THEN /\ CASCADE \notin imr
            /\ \A k \in isr : k > IF OnSlave(k) THEN l ELSE CASCADE
       ELSE \A k \in Master(isr) : k > l}

(* Of several, the master's order with the slave in the place of line 2.   *)
Rank(l) == IF OnSlave(l) THEN 20 + l ELSE 10 * l
Foremost(s) == CHOOSE l \in s : \A k \in s : Rank(l) <= Rank(k)

(* The lines in service once the CPU has acknowledged l.                   *)
Acknowledged(isr, l) == isr \cup {l} \cup (IF OnSlave(l) THEN {CASCADE} ELSE {})

(* An end-of-interrupt command ends the foremost line of its controller.   *)
EndMaster(isr) == isr \ (IF Master(isr) = {} THEN {} ELSE {Min(Master(isr))})
EndSlave(isr)  == isr \ (IF Slave(isr) = {} THEN {} ELSE {Min(Slave(isr))})

-----------------------------------------------------------------------------
(* The driver.  i8259_mask_irq and i8259_unmask_irq are made of updates of *)
(* one controller's mask, each of them a read and a write of its port.     *)
Update(line, masked) == [line |-> line, masked |-> masked]

SameChip(l) == IF OnSlave(l) THEN Slave(Lines) ELSE Master(Lines) \cup {CASCADE}

(* The mask register that the update leaves, given the mask it has read.   *)
NewMask(read, u) == IF u.masked THEN read \cup {u.line} ELSE read \ {u.line}

i8259_unmask_irq_NoCascade(l) == <<Update(l, FALSE)>>

(* The first update of a call, and those after it: the master's line for   *)
(* the slave is opened before the first line of the slave, and closed      *)
(* after the last.                                                         *)
i8259_unmask_irq(l) ==
  IF OnSlave(l) THEN <<Update(CASCADE, FALSE), Update(l, FALSE)>>
                ELSE <<Update(l, FALSE)>>

i8259_mask_irq(l) == <<Update(l, TRUE)>>

AfterMask(u, mask) ==
  IF u.masked /\ OnSlave(u.line) /\ mask = Slave(Lines)
    THEN <<Update(CASCADE, TRUE)>> ELSE <<>>

(* The whole call at once, where interrupts are off.                       *)
MaskNow(imr, l) ==
  LET m == imr \cup {l}
  IN  IF OnSlave(l) /\ Slave(Lines) \subseteq m THEN m \cup {CASCADE} ELSE m
UnmaskNow(imr, l) == imr \ (IF OnSlave(l) THEN {l, CASCADE} ELSE {l})

i8259_send_eoi(isr, l) == EndMaster(IF OnSlave(l) THEN EndSlave(isr) ELSE isr)

(* A vector of line 7 or 15 whose line is not in service.                  *)
i8259_is_spurious(isr, l) == l \in {7, 15} /\ l \notin isr

SpuriousEoi_None(isr, l) == isr

(* A spurious vector of the slave leaves the master's line 2 to end.       *)
SpuriousEoi(isr, l) == IF l = 15 THEN EndMaster(isr) ELSE isr
=============================================================================
