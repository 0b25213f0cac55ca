----------------------------- MODULE BoundedLog -------------------------------
(***************************************************************************)
(* What the system log promises: it holds the newest text, at most Cap     *)
(* characters of it, and gives up the oldest ones only to make room.       *)
(***************************************************************************)
EXTENDS Integers, Sequences

CONSTANTS Cap, Text   \* the strings that one step may add

VARIABLE log

Newest(s) == SubSeq(s, IF Len(s) > Cap THEN Len(s) - Cap + 1 ELSE 1, Len(s))

Init == log = <<>>

MakeRoom == Len(log) = Cap /\ log' = Tail(log)

Next == MakeRoom \/ \E s \in Text : log' = Newest(log \o s)

Spec == Init /\ [][Next]_log
=============================================================================
