-------------------------------- MODULE Library -------------------------------
(***************************************************************************)
(* Four parts of the kernel that others are built on and that share no     *)
(* state: the lists and vsnprintf of klib, the console, and the system log *)
(* with panic.  A behaviour uses one of them.                              *)
(***************************************************************************)
EXTENDS Console, Printf, LinkedList, Log

VARIABLE used   \* the part that is used

library_vars == <<console_vars, vsnprintf_vars, list_vars, vars, used>>

LibraryInit ==
  /\ ConsoleInit /\ PrintfInit /\ ListInit /\ Init
  /\ used \in {"console", "printf", "list", "log"}

LibraryNext ==
  /\ \/ used = "console" /\ ConsoleNext /\ UNCHANGED <<vsnprintf_vars, list_vars, vars>>
     \/ used = "printf" /\ PrintfNext /\ UNCHANGED <<console_vars, list_vars, vars>>
     \/ used = "list" /\ ListNext /\ UNCHANGED <<console_vars, vsnprintf_vars, vars>>
     \/ used = "log" /\ Next /\ UNCHANGED <<console_vars, vsnprintf_vars, list_vars>>
  /\ UNCHANGED used

(* The fairness is that of the log, which is idle while it is not used.    *)
LibrarySpec ==
  /\ LibraryInit /\ [][LibraryNext]_library_vars
  /\ WF_vars(OverwriteStep) /\ WF_vars(MessageLogged) /\ WF_vars(Halt)
=============================================================================
