----------------------------- MODULE MCDrivers --------------------------------
(* What drivers register with, in one state space: a behaviour is one of   *)
(* the bus or one of the IRQ numbers.                                      *)
EXTENDS MCDevices, Irq, TLC

MCHwRanges == {<<0, 2>>, <<3, 1>>, <<2, 3>>}

(* Maps and handlers are only ever compared.                               *)
Symmetry == Permutations(Map) \cup Permutations(Handler)

VARIABLE used

(* The bus of a behaviour of the IRQ numbers is one of its initial states. *)
MCInit ==
  /\ Init /\ IrqInit
  /\ used \in {"bus", "irq"}
  /\ used = "irq" => textmode /\ room = 0 /\ \A d \in Device : res[d] = "good"

MCNext ==
  \/ used = "bus" /\ Next /\ UNCHANGED <<irq_vars, used>>
  \/ used = "irq" /\ IrqNext /\ UNCHANGED <<vars, used>>

MCSpec == MCInit /\ [][MCNext]_<<vars, irq_vars, used>>
=============================================================================
