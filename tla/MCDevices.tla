----------------------------- MODULE MCDevices --------------------------------
EXTENDS Devices

(* Both timers are wired to one line.                                      *)
MCLine == [d \in Timer |-> 0]
=============================================================================
