--------------------------------- MODULE Log ----------------------------------
(***************************************************************************)
(* Kernel messages: vprintk formats into a buffer on the stack, appends    *)
(* the buffer to the system log (a byte ring) and hands it to the console. *)
(* Appending one byte is three accesses, between which an exception may    *)
(* come; it panics, which logs too, and never returns.  The handlers of    *)
(* devices log nothing.                                                    *)
(***************************************************************************)
EXTENDS Integers, Sequences, Functions

CONSTANTS
  Cap, Wrap,        \* the ring's capacity and the range of head and tail
  BUFFER_SIZE,      \* vprintk's buffer
  Message,          \* formatted messages of the kernel and of panic's caller
  PANIC, HALTED,    \* the first and the last message of vpanic
  MaxExceptions     \* bound on the exceptions taken

ASSUME LogAssumption ==
  /\ Cap \in Nat /\ Wrap \in Nat /\ BUFFER_SIZE \in Nat /\ MaxExceptions \in Nat
  /\ Cap > 0 /\ Wrap % Cap = 0 /\ Wrap > Cap /\ BUFFER_SIZE > 0

VARIABLES
  rb,          \* syslog_rb: head, tail and the storage
  who,         \* "main", "panic" or "halted"
  queue,       \* the messages that the running function still prints
  left,        \* what is left of the current message for the log
  pc,          \* the next access of ringbuf_overwrite
  panicking,
  console,     \* whether a console is active
  shown,       \* the text that console_write got last
  exceptions   \* exceptions so far

vars == <<rb, who, queue, left, pc, panicking, console, shown, exceptions>>

NEWLINE == <<"LF">>
NUL == "NUL"
STACK == "stack"    \* a byte behind the buffer
Chars == UNION {Range(m) : m \in Message \cup {PANIC, NEWLINE, HALTED}}

ASSUME MessageAssumption == Message \cup {PANIC, HALTED} \subseteq Seq(Chars)

-----------------------------------------------------------------------------
(* The ring.                                                               *)
ringbuf_len(r) == (r.head - r.tail) % Wrap

ringbuf_is_full_Unwrapped(r) == r.head = r.tail + Cap

ringbuf_is_full(r) == ringbuf_len(r) = Cap

Slot(i) == i % Cap   \* i & (cap - 1)

MakeRoom(r) == IF ringbuf_is_full(r) THEN [r EXCEPT !.tail = (@ + 1) % Wrap] ELSE r
Store(r, c) == [r EXCEPT !.buf[Slot(r.head)] = c]
Advance(r)  == [r EXCEPT !.head = (@ + 1) % Wrap]

ringbuf_peek(r, i) == r.buf[Slot(r.tail + i)]

(* What syslog_read copies into size bytes, without the final NUL.         *)
syslog_read(size) ==
  LET len == IF ringbuf_len(rb) >= size THEN size - 1 ELSE ringbuf_len(rb)
  IN  [i \in 1 .. len |-> ringbuf_peek(rb, i - 1)]

-----------------------------------------------------------------------------
(* vsnprintf: what fits, with room for NUL; it returns the whole length.   *)
Formatted(m) == SubSeq(m, 1, IF Len(m) < BUFFER_SIZE THEN Len(m) ELSE BUFFER_SIZE - 1)

(* The bytes from the start of the buffer on, for console_write.           *)
Bytes(m, n) ==
  [i \in 1 .. n |-> IF i <= Len(Formatted(m)) THEN m[i]
                    ELSE IF i = Len(Formatted(m)) + 1 THEN NUL ELSE STACK]

SyslogText(m) == Formatted(m)
ConsoleText(m) == Bytes(m, Len(m))

Show(m) == shown' = IF console THEN ConsoleText(m) ELSE shown

Init ==
  /\ rb = [head |-> 0, tail |-> 0, buf |-> [i \in 0 .. (Cap - 1) |-> NUL]]
  /\ who = "main" /\ queue = <<>> /\ left = <<>> /\ pc = "room"
  /\ panicking = FALSE /\ console = FALSE
  /\ shown = <<>>
  /\ exceptions = 0

console_register ==
  /\ who = "main" /\ queue = <<>> /\ ~ console
  /\ console' = TRUE
  /\ UNCHANGED <<rb, who, queue, left, pc, panicking, shown, exceptions>>

(* The main thread calls printk.                                           *)
printk(m) ==
  /\ who = "main" /\ queue = <<>>
  /\ queue' = <<m>> /\ left' = SyslogText(m)
  /\ UNCHANGED <<rb, who, pc, panicking, console, shown, exceptions>>

(* The accesses of ringbuf_overwrite for the next character.               *)
OverwriteStep ==
  /\ left # <<>>
  /\ \/ pc = "room" /\ rb' = MakeRoom(rb) /\ pc' = "store" /\ UNCHANGED left
     \/ pc = "store" /\ rb' = Store(rb, Head(left)) /\ pc' = "advance" /\ UNCHANGED left
     \/ pc = "advance" /\ rb' = Advance(rb) /\ pc' = "room" /\ left' = Tail(left)
  /\ UNCHANGED <<who, queue, panicking, console, shown, exceptions>>

(* The message is in the log: on to the console, and to the next message.  *)
MessageLogged ==
  /\ queue # <<>> /\ left = <<>>
  /\ Show(Head(queue))
  /\ queue' = Tail(queue)
  /\ left' = IF Tail(queue) = <<>> THEN <<>> ELSE SyslogText(queue[2])
  /\ UNCHANGED <<rb, who, pc, panicking, console, exceptions>>

-----------------------------------------------------------------------------
(* What vpanic prints: entered again, it only says that it halts.          *)
PanicMessages_SilentAgain(m) == IF panicking THEN <<m>> ELSE <<PANIC, m, NEWLINE, HALTED>>

PanicMessages(m) == IF panicking THEN <<HALTED>> ELSE <<PANIC, m, NEWLINE, HALTED>>

vpanic(m) ==
  /\ who' = "panic" /\ panicking' = TRUE
  /\ queue' = PanicMessages(m) /\ left' = SyslogText(Head(queue')) /\ pc' = "room"
  /\ UNCHANGED <<rb, console, shown>>

(* An exception in whatever code runs.                                     *)
exception_dispatch(m) ==
  /\ who # "halted" /\ exceptions < MaxExceptions
  /\ exceptions' = exceptions + 1
  /\ vpanic(m)

Halt_Returns ==
  /\ who = "panic" /\ queue = <<>>
  /\ who' = "main"
  /\ UNCHANGED <<rb, queue, left, pc, panicking, console, shown, exceptions>>

Halt ==
  /\ who = "panic" /\ queue = <<>>
  /\ who' = "halted"
  /\ UNCHANGED <<rb, queue, left, pc, panicking, console, shown, exceptions>>

(* hlt, with interrupts off.                                               *)
Halted == who = "halted" /\ UNCHANGED vars

Next ==
  \/ console_register \/ OverwriteStep \/ MessageLogged \/ Halt \/ Halted
  \/ \E m \in Message : printk(m) \/ exception_dispatch(m)

Spec == Init /\ [][Next]_vars /\ WF_vars(OverwriteStep) /\ WF_vars(MessageLogged) /\ WF_vars(Halt)
-----------------------------------------------------------------------------
(* The state has its types; only message text is in the log.               *)
TypeOK ==
  /\ rb.head \in 0 .. (Wrap - 1) /\ rb.tail \in 0 .. (Wrap - 1)
  /\ \A i \in 0 .. (Cap - 1) : rb.buf[i] \in Chars \cup {NUL}
  /\ who \in {"main", "panic", "halted"} /\ pc \in {"room", "store", "advance"}
  /\ panicking \in BOOLEAN /\ console \in BOOLEAN /\ exceptions \in 0 .. MaxExceptions

(* What a reader of the log gets is the newest text, in order, while head  *)
(* and tail wrap around and a panic cuts off a message at any access.      *)
Abstract == INSTANCE BoundedLog WITH
              Text <- {<<c>> : c \in Chars}, log <- syslog_read(Cap + 1)

BehavesAsBoundedLog == Abstract!Spec

EndsWith(s, t) == Len(t) <= Len(s) /\ SubSeq(s, Len(s) - Len(t) + 1, Len(s)) = t
StartsWith(s, t) == Len(t) <= Len(s) /\ SubSeq(s, 1, Len(t)) = t

(* A machine that has halted says so at the end of its log and in what the *)
(* console got last, however many exceptions hit the printing of the panic *)
(* itself.                                                                 *)
HaltMessageLast ==
  /\ TypeOK
  /\ who = "halted" =>
       /\ EndsWith(syslog_read(Cap + 1), Abstract!Newest(Formatted(HALTED)))
       /\ console => StartsWith(shown, Formatted(HALTED))

(* A panic ends in a halt.                                                 *)
PanicHalts == panicking ~> (who = "halted")
=============================================================================
