-------------------------------- MODULE Printf --------------------------------
(***************************************************************************)
(* vsnprintf (kernel/klib/printf.c), one character or conversion of the    *)
(* format at a time.  Callers pass an argument for each conversion that    *)
(* takes one; a call is given by the items of its format, from which the   *)
(* characters that vsnprintf sees are made.                                *)
(***************************************************************************)
EXTENDS Integers, Sequences, SequencesExt

CONSTANTS
  UINT_SIZE,   \* 2^32 in the code: unsigned int is 0 .. UINT_SIZE - 1
  Sizes,       \* sizes of buffers
  Formats      \* sequences of items <<conv, arg>>; a plain character has conv "lit"

ASSUME PrintfAssumption == UINT_SIZE % 2 = 0 /\ UINT_SIZE > 0 /\ Sizes \subseteq Nat

VARIABLES
  call,   \* ghost: the size and the items of the current call, <<>> outside of it
  fmt,    \* what is left of the format
  args,   \* what is left of the arguments
  pb      \* b, the struct printf_buffer; finished once the NUL is written

vsnprintf_vars == <<call, fmt, args, pb>>

NUL_CHAR == "NUL_CHAR"
NULLSTRING == <<"NULL">>   \* the argument NULL of %s
Lower == <<"0", "1", "2", "3", "4", "5", "6", "7", "8", "9", "a", "b", "c", "d", "e", "f">>
Upper == <<"0", "1", "2", "3", "4", "5", "6", "7", "8", "9", "A", "B", "C", "D", "E", "F">>

-----------------------------------------------------------------------------
buffer_putc_CountsWritten(p, c) ==
  IF p.size > 0 /\ p.pos < p.size - 1
    THEN [p EXCEPT !.buf[p.pos] = c, !.pos = @ + 1, !.total = @ + 1] ELSE p

buffer_putc(p, c) ==
  IF p.size > 0 /\ p.pos < p.size - 1
    THEN [p EXCEPT !.buf[p.pos] = c, !.pos = @ + 1, !.total = @ + 1]
    ELSE [p EXCEPT !.total = @ + 1]

buffer_puts(p, str) == FoldLeft(LAMBDA q, c : buffer_putc(q, c), p, str)

buffer_finish(p) ==
  LET end == IF p.pos < p.size THEN p.pos ELSE p.size - 1
  IN  IF p.size > 0 THEN [p EXCEPT !.buf[end] = NUL_CHAR, !.finished = TRUE]
                    ELSE [p EXCEPT !.finished = TRUE]

(* The digits come out last first and are reversed.                        *)
format_uint(p, value, base, digits) ==
  LET tmp[n \in 0 .. (UINT_SIZE - 1)] ==
        IF n = 0 THEN <<>> ELSE <<digits[(n % base) + 1]>> \o tmp[n \div base]
  IN  IF value = 0 THEN buffer_putc(p, "0") ELSE buffer_puts(p, Reverse(tmp[value]))

(* Signed value of a word, and the word of its negation.                   *)
Signed(w) == IF w < UINT_SIZE \div 2 THEN w ELSE w - UINT_SIZE
Negated(w) == (UINT_SIZE - w) % UINT_SIZE

format_int(p, w) ==
  IF Signed(w) < 0 THEN format_uint(buffer_putc(p, "-"), Negated(w), 10, Lower)
                   ELSE format_uint(p, w, 10, Lower)

(* The switch on the character behind a percent sign.                      *)
TakesArgument(c) == c \in {"c", "s", "d", "i", "u", "x", "X", "o", "p"}

Converted(p, c, arg) ==
  CASE c = "%" -> buffer_putc(p, "%")
    [] c = "c" -> buffer_putc(p, arg)
    [] c = "s" -> buffer_puts(p, IF arg = NULLSTRING THEN <<"(", "n", "u", "l", "l", ")">> ELSE arg)
    [] c \in {"d", "i"} -> format_int(p, arg)
    [] c = "u" -> format_uint(p, arg, 10, Lower)
    [] c = "x" -> format_uint(p, arg, 16, Lower)
    [] c = "X" -> format_uint(p, arg, 16, Upper)
    [] c = "o" -> format_uint(p, arg, 8, Lower)
    [] c = "p" -> format_uint(buffer_puts(p, <<"0", "x">>), arg, 16, Lower)
    [] OTHER   -> buffer_putc(buffer_putc(p, "%"), c)

-----------------------------------------------------------------------------
(* The characters and the arguments of a format's items; "end" is a        *)
(* percent sign that nothing follows.                                      *)
ItemChars(i) ==
  CASE i[1] = "lit" -> <<i[2]>> [] i[1] = "end" -> <<"%">> [] OTHER -> <<"%", i[1]>>
ItemArgs(i) == IF TakesArgument(i[1]) THEN <<i>> ELSE <<>>

Idle == [buf |-> <<>>, size |-> 0, pos |-> 0, total |-> 0, finished |-> FALSE]

PrintfInit == call = <<>> /\ fmt = <<>> /\ args = <<>> /\ pb = Idle

vsnprintf(size, items) ==
  /\ call = <<>>
  /\ call' = <<size, items>>
  /\ fmt' = FlattenSeq([k \in DOMAIN items |-> ItemChars(items[k])])
  /\ args' = FlattenSeq([k \in DOMAIN items |-> ItemArgs(items[k])])
  /\ pb' = [Idle EXCEPT !.buf = [k \in 0 .. (size - 1) |-> "?"], !.size = size]

PlainCharacter ==
  /\ fmt # <<>> /\ Head(fmt) # "%"
  /\ pb' = buffer_putc(pb, Head(fmt)) /\ fmt' = Tail(fmt)
  /\ UNCHANGED <<call, args>>

Conversion ==
  /\ Len(fmt) > 1 /\ Head(fmt) = "%"
  /\ LET takes == TakesArgument(fmt[2])
     IN  /\ pb' = Converted(pb, fmt[2], IF takes THEN Head(args)[2] ELSE NUL_CHAR)
         /\ args' = IF takes THEN Tail(args) ELSE args
  /\ fmt' = Tail(Tail(fmt))
  /\ UNCHANGED call

Finish ==
  /\ call # <<>> /\ fmt \in {<<>>, <<"%">>} /\ ~ pb.finished
  /\ pb' = buffer_finish(pb)
  /\ UNCHANGED <<call, fmt, args>>

Return ==
  /\ pb.finished
  /\ call' = <<>> /\ fmt' = <<>> /\ args' = <<>> /\ pb' = Idle

PrintfNext ==
  \/ PlainCharacter \/ Conversion \/ Finish \/ Return
  \/ \E size \in Sizes, items \in Formats : vsnprintf(size, items)

-----------------------------------------------------------------------------
(* The text that a format stands for.  A numeral has as many digits as the *)
(* number needs, and the k-th of n counts multiples of base ^ (n - k).     *)
Numeral(v, base, digits) ==
  LET n == CHOOSE n \in 1 .. 11 : v < base ^ n /\ (n = 1 \/ base ^ (n - 1) <= v)
  IN  [k \in 1 .. n |-> digits[((v \div base ^ (n - k)) % base) + 1]]

ItemText(i) ==
  CASE i[1] \in {"lit", "c"} -> <<i[2]>>
    [] i[1] = "end" -> <<>>
    [] i[1] = "%" -> <<"%">>
    [] i[1] = "s" -> IF i[2] = NULLSTRING THEN <<"(", "n", "u", "l", "l", ")">> ELSE i[2]
    [] i[1] \in {"d", "i"} ->
         IF Signed(i[2]) < 0 THEN <<"-">> \o Numeral(-Signed(i[2]), 10, Lower)
                              ELSE Numeral(i[2], 10, Lower)
    [] i[1] = "u" -> Numeral(i[2], 10, Lower)
    [] i[1] = "x" -> Numeral(i[2], 16, Lower)
    [] i[1] = "X" -> Numeral(i[2], 16, Upper)
    [] i[1] = "o" -> Numeral(i[2], 8, Lower)
    [] i[1] = "p" -> <<"0", "x">> \o Numeral(i[2], 16, Lower)
    [] OTHER -> <<"%", i[1]>>

Text(items) == FlattenSeq([k \in DOMAIN items |-> ItemText(items[k])])

(* vsnprintf leaves as much of the text as fits in front of the NUL that   *)
(* ends it, touches nothing behind, and returns the length of the whole    *)
(* text: for buffers of any size, the empty one and one that the text      *)
(* fills exactly included, and for every number, INT_MIN included.         *)
TextAsFormatted ==
  pb.finished =>
    LET text == Text(call[2])
        kept == IF Len(text) < pb.size THEN Len(text) ELSE pb.size - 1
    IN  /\ pb.total = Len(text)
        /\ pb.size > 0 => pb.buf = [k \in 0 .. (pb.size - 1) |->
                                    IF k < kept THEN text[k + 1]
                                    ELSE IF k = kept THEN NUL_CHAR ELSE "?"]
=============================================================================
