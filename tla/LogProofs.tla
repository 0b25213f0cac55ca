------------------------------ MODULE LogProofs -------------------------------
(***************************************************************************)
(* The system log is a bounded log, and a machine that halts says so last, *)
(* for every capacity, every range of head and tail and all messages.      *)
(***************************************************************************)
EXTENDS Log, BasicFacts

-----------------------------------------------------------------------------
(* Positions and slots.                                                    *)
LEMMA Sizes == Cap \in Nat \ {0} /\ Wrap \in Nat \ {0} /\ Cap < Wrap
  BY LogAssumption

(* Head and tail wrap at a multiple of the capacity: the slot of a         *)
(* position does not notice.                                               *)
LEMMA SlotWraps ==
  ASSUME NEW x \in Int
  PROVE  /\ Slot(x) \in 0 .. (Cap - 1)
         /\ Slot(x - Wrap) = Slot(x)
  <1> DEFINE w == Wrap \div Cap
             q == x \div Cap
  <1>1. w \in Int /\ Wrap = w * Cap + (Wrap % Cap)
    BY Sizes, Remainder
  <1>2. Wrap = w * Cap
    BY <1>1, LogAssumption
  <1>3. q \in Int /\ x = q * Cap + (x % Cap)
    BY Sizes, Remainder
  <1>4. x % Cap \in 0 .. (Cap - 1)
    BY Sizes, Remainder
  <1> HIDE DEF w, q
  <1>5. q - w \in Int /\ (q - w) * Cap = q * Cap - w * Cap
    BY <1>1, <1>3, Sizes
  <1>6. x - Wrap = (q - w) * Cap + (x % Cap)
    BY <1>2, <1>3, <1>4, <1>5, Sizes
  <1>7. (x - Wrap) % Cap = x % Cap
    BY <1>4, <1>5, <1>6, Sizes, RemainderUnique
  <1> QED
    BY <1>4, <1>7 DEF Slot

(* As many positions in a row as the ring has bytes have different slots.  *)
LEMMA SlotsApart ==
  ASSUME NEW t \in Int, NEW i \in Nat, NEW j \in Nat, i < j, j - i < Cap
  PROVE  Slot(t + i) # Slot(t + j)
  <1> SUFFICES ASSUME Slot(t + i) = Slot(t + j) PROVE FALSE
    OBVIOUS
  <1> DEFINE r == (t + i) % Cap
             p == (t + i) \div Cap
             q == (t + j) \div Cap
  <1>1. r \in Int /\ p \in Int /\ t + i = p * Cap + r
    BY Sizes, Remainder
  <1>2. q \in Int /\ t + j = q * Cap + r
    <2>1. (t + j) % Cap = r
      BY DEF Slot
    <2>2. q \in Int /\ t + j = q * Cap + ((t + j) % Cap)
      BY Sizes, Remainder
    <2> HIDE DEF q, r
    <2> QED
      BY <2>1, <2>2
  <1> HIDE DEF r, p, q
  <1>3. j - i = q * Cap - p * Cap
    BY <1>1, <1>2, Sizes
  <1>4. j - i = (q - p) * Cap
    BY <1>1, <1>2, <1>3, Sizes
  <1>5. q - p <= 0 => (q - p) * Cap <= 0
    BY <1>1, <1>2, Sizes
  <1>6. q - p >= 1 => (q - p) * Cap >= Cap
    BY <1>1, <1>2, Sizes
  <1> QED
    BY <1>1, <1>2, <1>4, <1>5, <1>6, Sizes

(* One turn around the range of head and tail.                             *)
LEMMA WrapFacts ==
  ASSUME NEW x \in (-Wrap) .. (2 * Wrap - 1)
  PROVE  /\ x \in 0 .. (Wrap - 1) => x % Wrap = x
         /\ x >= Wrap => x % Wrap = x - Wrap
         /\ x < 0 => x % Wrap = x + Wrap
  <1>1. x \in Int /\ x = 0 * Wrap + x /\ x = 1 * Wrap + (x - Wrap) /\ x = (-1) * Wrap + (x + Wrap)
    BY Sizes
  <1>2. ASSUME x \in 0 .. (Wrap - 1) PROVE x % Wrap = x
    <2>1. (0 * Wrap + x) % Wrap = x
      BY <1>2, Sizes, RemainderUnique
    <2> QED
      BY <1>1, <2>1
  <1>3. ASSUME x >= Wrap PROVE x % Wrap = x - Wrap
    <2>1. x - Wrap \in 0 .. (Wrap - 1)
      BY <1>3, Sizes
    <2>2. (1 * Wrap + (x - Wrap)) % Wrap = x - Wrap
      BY <2>1, Sizes, RemainderUnique
    <2> QED
      BY <1>1, <2>2
  <1>4. ASSUME x < 0 PROVE x % Wrap = x + Wrap
    <2>1. x + Wrap \in 0 .. (Wrap - 1)
      BY <1>4, Sizes
    <2>2. ((-1) * Wrap + (x + Wrap)) % Wrap = x + Wrap
      BY <2>1, Sizes, RemainderUnique
    <2> QED
      BY <1>1, <2>2
  <1> QED
    BY <1>2, <1>3, <1>4

LEMMA WrapNext ==
  ASSUME NEW x \in 0 .. (Wrap - 1)
  PROVE  /\ (x + 1) % Wrap = IF x + 1 = Wrap THEN 0 ELSE x + 1
         /\ (x + 1) % Wrap \in 0 .. (Wrap - 1)
  <1>1. x + 1 \in (-Wrap) .. (2 * Wrap - 1)
    BY Sizes
  <1>2. CASE x + 1 = Wrap
    <2>1. (x + 1) % Wrap = (x + 1) - Wrap
      BY <1>1, <1>2, WrapFacts, Sizes
    <2> QED
      BY <1>2, <2>1, Sizes
  <1>3. CASE x + 1 # Wrap
    <2>1. x + 1 \in 0 .. (Wrap - 1)
      BY <1>3, Sizes
    <2>2. (x + 1) % Wrap = x + 1
      BY <1>1, <2>1, WrapFacts
    <2> QED
      BY <1>3, <2>1, <2>2
  <1> QED
    BY <1>2, <1>3

-----------------------------------------------------------------------------
(* What a reader of the log sees.                                          *)
Ring == [head : 0 .. (Wrap - 1), tail : 0 .. (Wrap - 1), buf : [0 .. (Cap - 1) -> Chars \cup {NUL}]]

View(r) == [i \in 1 .. ringbuf_len(r) |-> r.buf[Slot(r.tail + (i - 1))]]

LEMMA LenIs ==
  ASSUME NEW r \in Ring
  PROVE  ringbuf_len(r) = IF r.head < r.tail THEN r.head - r.tail + Wrap ELSE r.head - r.tail
  <1> DEFINE d == r.head - r.tail
  <1>1. /\ r.head \in 0 .. (Wrap - 1) /\ r.tail \in 0 .. (Wrap - 1)
        /\ d \in (-Wrap) .. (2 * Wrap - 1)
        /\ r.head < r.tail <=> d < 0
        /\ ~(d < 0) => d \in 0 .. (Wrap - 1)
    BY Sizes DEF Ring
  <1>2. ringbuf_len(r) = d % Wrap
    BY DEF ringbuf_len
  <1> HIDE DEF d
  <1>3. d % Wrap = IF d < 0 THEN d + Wrap ELSE d
    BY <1>1, WrapFacts
  <1> QED
    BY <1>1, <1>2, <1>3 DEF d

LEMMA RingLen ==
  ASSUME NEW r \in Ring
  PROVE  /\ ringbuf_len(r) \in 0 .. (Wrap - 1)
         /\ Slot(r.head) = Slot(r.tail + ringbuf_len(r))
         /\ r.head = (IF r.tail + ringbuf_len(r) < Wrap THEN r.tail + ringbuf_len(r)
                      ELSE r.tail + ringbuf_len(r) - Wrap)
         /\ Slot(r.head) \in 0 .. (Cap - 1)
         /\ r.head \in 0 .. (Wrap - 1) /\ r.tail \in 0 .. (Wrap - 1)
  <1> DEFINE n == ringbuf_len(r)
  <1> SUFFICES /\ n \in 0 .. (Wrap - 1)
               /\ Slot(r.head) = Slot(r.tail + n)
               /\ r.head = (IF r.tail + n < Wrap THEN r.tail + n ELSE r.tail + n - Wrap)
               /\ Slot(r.head) \in 0 .. (Cap - 1)
               /\ r.head \in 0 .. (Wrap - 1) /\ r.tail \in 0 .. (Wrap - 1)
    OBVIOUS
  <1>1. r.head \in 0 .. (Wrap - 1) /\ r.tail \in 0 .. (Wrap - 1)
    BY DEF Ring
  <1>2. n = IF r.head < r.tail THEN r.head - r.tail + Wrap ELSE r.head - r.tail
    BY LenIs
  <1> HIDE DEF n
  <1>3. /\ n \in 0 .. (Wrap - 1)
        /\ r.head = IF r.tail + n < Wrap THEN r.tail + n ELSE r.tail + n - Wrap
    BY <1>1, <1>2, Sizes
  <1>4. r.tail + n \in Int
    BY <1>1, <1>3
  <1>5. Slot((r.tail + n) - Wrap) = Slot(r.tail + n)
    BY <1>4, SlotWraps
  <1>6. Slot(r.head) \in 0 .. (Cap - 1)
    BY <1>1, SlotWraps
  <1>7. Slot(r.head) = Slot(r.tail + n)
    <2>1. r.head = r.tail + n \/ r.head = (r.tail + n) - Wrap
      BY <1>1, <1>3, Sizes
    <2> QED
      BY <1>5, <2>1, Zenon
  <1> QED
    BY <1>1, <1>3, <1>6, <1>7

(* MakeRoom drops the oldest byte of a full ring and nothing else.         *)
LEMMA RoomView ==
  ASSUME NEW r \in Ring, ringbuf_len(r) <= Cap
  PROVE  /\ MakeRoom(r) \in Ring
         /\ ringbuf_len(MakeRoom(r)) < Cap
         /\ IF ringbuf_len(r) = Cap
              THEN View(MakeRoom(r)) = Tail(View(r)) /\ ringbuf_len(MakeRoom(r)) = Cap - 1
              ELSE MakeRoom(r) = r
  <1>1. CASE ringbuf_len(r) # Cap
    BY <1>1, RingLen, Sizes DEF MakeRoom, ringbuf_is_full
  <1>2. CASE ringbuf_len(r) = Cap
    <2> DEFINE s == MakeRoom(r)
               u == (r.tail + 1) % Wrap
    <2>1. /\ r.tail \in 0 .. (Wrap - 1) /\ r.head \in 0 .. (Wrap - 1)
          /\ r.head = (IF r.tail + Cap < Wrap THEN r.tail + Cap ELSE r.tail + Cap - Wrap)
      BY <1>2, RingLen
    <2>2. u = (IF r.tail + 1 = Wrap THEN 0 ELSE r.tail + 1) /\ u \in 0 .. (Wrap - 1)
      BY <2>1, WrapNext
    <2> HIDE DEF u
    <2>3. s = [head |-> r.head, tail |-> u, buf |-> r.buf] /\ s \in Ring
      BY <1>2, <2>2 DEF MakeRoom, ringbuf_is_full, Ring, u
    <2> HIDE DEF s
    <2>4. ringbuf_len(s) = Cap - 1
      <3>1. s.head = r.head /\ s.tail = u
        BY <2>3
      <3>2. ringbuf_len(s) = IF r.head < u THEN r.head - u + Wrap ELSE r.head - u
        BY <2>3, <3>1, LenIs
      <3> QED
        BY <2>1, <2>2, <3>2, Sizes
    <2>5. ASSUME NEW i \in 1 .. (Cap - 1) PROVE Slot(u + (i - 1)) = Slot(r.tail + i)
      <3>1. /\ r.tail + i \in Int
            /\ u + (i - 1) = IF r.tail + 1 = Wrap THEN (r.tail + i) - Wrap ELSE r.tail + i
        BY <2>1, <2>2, Sizes
      <3>2. Slot((r.tail + i) - Wrap) = Slot(r.tail + i)
        BY <3>1, SlotWraps
      <3> QED
        BY <3>1, <3>2
    <2>6. View(s) = [i \in 1 .. (Cap - 1) |-> r.buf[Slot(r.tail + i)]]
      BY <2>3, <2>4, <2>5 DEF View
    <2>7. View(r) = [i \in 1 .. Cap |-> r.buf[Slot(r.tail + (i - 1))]]
      BY <1>2 DEF View
    <2>8. /\ Len(View(r)) = Cap
          /\ Tail(View(r)) = [i \in 1 .. (Cap - 1) |-> View(r)[i + 1]]
      BY <2>7, Sizes
    <2>9. \A i \in 1 .. (Cap - 1) : View(r)[i + 1] = r.buf[Slot(r.tail + i)]
      BY <2>7, Sizes
    <2> QED
      BY <1>2, <2>3, <2>4, <2>6, <2>8, <2>9, Sizes DEF s
  <1> QED
    BY <1>1, <1>2

(* Storing at the head of a ring with room changes nothing that is seen.   *)
LEMMA StoreView ==
  ASSUME NEW r \in Ring, ringbuf_len(r) < Cap, NEW c \in Chars
  PROVE  /\ Store(r, c) \in Ring
         /\ ringbuf_len(Store(r, c)) = ringbuf_len(r)
         /\ View(Store(r, c)) = View(r)
         /\ Store(r, c).buf[Slot(Store(r, c).head)] = c
  <1> DEFINE s == Store(r, c)
             h == Slot(r.head)
             n == ringbuf_len(r)
  <1>1. n \in Nat /\ n < Cap /\ h = Slot(r.tail + n) /\ h \in 0 .. (Cap - 1) /\ r.tail \in Int
    BY RingLen, Sizes
  <1>2. s = [head |-> r.head, tail |-> r.tail, buf |-> [r.buf EXCEPT ![h] = c]]
    BY <1>1 DEF Store, Ring
  <1>3. s \in Ring
    BY <1>1, <1>2 DEF Ring
  <1> HIDE DEF s
  <1>4. s.head = r.head /\ s.tail = r.tail /\ ringbuf_len(s) = n /\ s.buf = [r.buf EXCEPT ![h] = c]
    BY <1>2 DEF ringbuf_len
  <1> HIDE DEF h, n
  <1>5. ASSUME NEW i \in 1 .. n PROVE s.buf[Slot(r.tail + (i - 1))] = r.buf[Slot(r.tail + (i - 1))]
    <2>1. i - 1 \in Nat /\ i - 1 < n /\ n - (i - 1) < Cap
      BY <1>1, Sizes
    <2>2. Slot(r.tail + (i - 1)) # h
      BY <1>1, <2>1, SlotsApart, Sizes
    <2>3. r.tail + (i - 1) \in Int
      BY <1>1
    <2>4. Slot(r.tail + (i - 1)) \in 0 .. (Cap - 1)
      BY <2>3, SlotWraps
    <2> QED
      BY <1>1, <1>4, <2>2, <2>4 DEF Ring
  <1>6. View(s) = View(r)
    BY <1>4, <1>5 DEF View, n
  <1>7. s.buf[h] = c
    BY <1>1, <1>4 DEF Ring
  <1> QED
    BY <1>3, <1>4, <1>6, <1>7 DEF s, h, n

(* Advancing the head shows the byte that was stored there.                *)
LEMMA AdvanceView ==
  ASSUME NEW r \in Ring, ringbuf_len(r) < Cap
  PROVE  /\ Advance(r) \in Ring
         /\ ringbuf_len(Advance(r)) = ringbuf_len(r) + 1
         /\ View(Advance(r)) = Append(View(r), r.buf[Slot(r.head)])
  <1> DEFINE s == Advance(r)
             n == ringbuf_len(r)
             u == (r.head + 1) % Wrap
  <1>1. /\ n \in Nat /\ n < Cap /\ Slot(r.head) = Slot(r.tail + n)
        /\ r.head \in 0 .. (Wrap - 1) /\ r.tail \in 0 .. (Wrap - 1)
        /\ r.head = (IF r.tail + n < Wrap THEN r.tail + n ELSE r.tail + n - Wrap)
    BY RingLen, Sizes
  <1>2. u = (IF r.head + 1 = Wrap THEN 0 ELSE r.head + 1) /\ u \in 0 .. (Wrap - 1)
    BY <1>1, WrapNext
  <1>3. s = [head |-> u, tail |-> r.tail, buf |-> r.buf]
    BY DEF Advance, Ring
  <1>4. s \in Ring
    BY <1>2, <1>3 DEF Ring
  <1> HIDE DEF s, u, n
  <1>5. ringbuf_len(s) = IF u < r.tail THEN u - r.tail + Wrap ELSE u - r.tail
    BY <1>3, <1>4, LenIs
  <1>6. ringbuf_len(s) = n + 1
    BY <1>1, <1>2, <1>5, Sizes
  <1>7. View(s) = [i \in 1 .. (n + 1) |-> r.buf[Slot(r.tail + (i - 1))]]
    BY <1>3, <1>6 DEF View
  <1>8. View(r) = [i \in 1 .. n |-> r.buf[Slot(r.tail + (i - 1))]]
    BY DEF View, n
  <1>9. View(s) = Append(View(r), r.buf[Slot(r.tail + n)])
    <2> DEFINE W(k) == r.buf[Slot(r.tail + (k - 1))]
    <2>1. W(n + 1) = r.buf[Slot(r.tail + n)]
      BY <1>1
    <2>2. View(s) = [i \in 1 .. (n + 1) |-> W(i)] /\ View(r) = [i \in 1 .. n |-> W(i)]
      BY <1>7, <1>8
    <2> HIDE DEF W
    <2> QED
      BY <1>1, <2>1, <2>2
  <1> QED
    BY <1>1, <1>4, <1>6, <1>9 DEF s, n

-----------------------------------------------------------------------------
(* The invariant.  Of the first n characters of the text, the last ones,   *)
(* as many as size, are at the end of the log g.                           *)
Written(g, text, n, size) ==
  \A j \in 1 .. n : j <= size => j <= Len(g) /\ g[Len(g) + 1 - j] = text[n + 1 - j]

(* How far the current message is: what is left is its end, and what has   *)
(* been written is at the end of the log, but for the character that gave  *)
(* way to the next.                                                        *)
Progress ==
  LET text == SyslogText(queue[1])
      done == Len(text) - Len(left)
  IN  /\ done \in Nat
      /\ \A i \in 1 .. Len(left) : left[i] = text[done + i]
      /\ Written(View(rb), text, done, IF pc = "room" THEN Cap ELSE Cap - 1)

Said ==
  /\ Written(View(rb), Formatted(HALTED), Len(Formatted(HALTED)), Cap)
  /\ console => StartsWith(shown, Formatted(HALTED))

LogTypes ==
  /\ rb \in Ring /\ ringbuf_len(rb) <= Cap
  /\ who \in {"main", "panic", "halted"} /\ pc \in {"room", "store", "advance"}
  /\ panicking \in BOOLEAN /\ console \in BOOLEAN /\ exceptions \in 0 .. MaxExceptions
  /\ queue \in Seq(Seq(Chars)) /\ left \in Seq(Chars)

LogInv ==
  /\ LogTypes
  /\ queue = <<>> => left = <<>>
  /\ pc # "room" => left # <<>> /\ ringbuf_len(rb) < Cap
  /\ pc = "advance" => rb.buf[Slot(rb.head)] = Head(left)
  /\ queue # <<>> => Progress
  /\ who = "panic" /\ queue # <<>> => queue[Len(queue)] = HALTED
  /\ who = "halted" => queue = <<>>
  /\ who # "main" /\ queue = <<>> => Said

LEMMA WrittenTail ==
  ASSUME NEW A, NEW g \in Seq(A), Len(g) = Cap, NEW text, NEW n \in Nat,
         Written(g, text, n, Cap)
  PROVE  Written(Tail(g), text, n, Cap - 1)
  <1> DEFINE h == Tail(g)
  <1>1. Len(h) = Cap - 1 /\ \A i \in 1 .. (Cap - 1) : h[i] = g[i + 1]
    BY Sizes
  <1> HIDE DEF h
  <1> SUFFICES ASSUME NEW j \in 1 .. n, j <= Cap - 1
               PROVE  j <= Len(h) /\ h[Len(h) + 1 - j] = text[n + 1 - j]
    BY DEF Written, h
  <1>2. g[Len(g) + 1 - j] = text[n + 1 - j]
    BY Sizes DEF Written
  <1>3. Cap - j \in 1 .. (Cap - 1) /\ Len(h) + 1 - j = Cap - j /\ (Cap - j) + 1 = Len(g) + 1 - j
    BY <1>1, Sizes
  <1>4. h[Cap - j] = g[(Cap - j) + 1]
    BY <1>1, <1>3
  <1> QED
    BY <1>1, <1>2, <1>3, <1>4

LEMMA WrittenAppend ==
  ASSUME NEW A, NEW g \in Seq(A), NEW text, NEW n \in Nat, NEW c \in A, c = text[n + 1],
         Written(g, text, n, Cap - 1)
  PROVE  Written(Append(g, c), text, n + 1, Cap)
  <1> DEFINE h == Append(g, c)
  <1>1. /\ Len(g) \in Nat /\ Len(h) = Len(g) + 1 /\ h[Len(g) + 1] = c
        /\ \A i \in 1 .. Len(g) : h[i] = g[i]
    OBVIOUS
  <1> HIDE DEF h
  <1> SUFFICES ASSUME NEW j \in 1 .. (n + 1), j <= Cap
               PROVE  j <= Len(h) /\ h[Len(h) + 1 - j] = text[n + 1 + 1 - j]
    BY DEF Written, h
  <1>2. CASE j = 1
    <2>1. Len(h) + 1 - j = Len(g) + 1 /\ n + 1 + 1 - j = n + 1 /\ j <= Len(h)
      BY <1>1, <1>2
    <2> QED
      BY <1>1, <2>1
  <1>3. CASE j # 1
    <2>1. j - 1 \in 1 .. n /\ j - 1 <= Cap - 1
      BY <1>3, Sizes
    <2>2. j - 1 <= Len(g) /\ g[Len(g) + 1 - (j - 1)] = text[n + 1 - (j - 1)]
      BY <2>1 DEF Written
    <2>3. /\ Len(g) + 1 - (j - 1) = Len(h) + 1 - j /\ n + 1 - (j - 1) = n + 1 + 1 - j
          /\ Len(h) + 1 - j \in 1 .. Len(g) /\ j <= Len(h)
      BY <1>1, <2>1, <2>2
    <2> QED
      BY <1>1, <2>2, <2>3
  <1> QED
    BY <1>2, <1>3

LEMMA ViewLen ==
  ASSUME NEW r \in Ring
  PROVE  View(r) \in Seq(Chars \cup {NUL}) /\ Len(View(r)) = ringbuf_len(r)
  <1> DEFINE n == ringbuf_len(r)
  <1>1. n \in Nat /\ r.tail \in Int
    BY RingLen, Sizes
  <1>2. ASSUME NEW i \in 1 .. n PROVE r.buf[Slot(r.tail + (i - 1))] \in Chars \cup {NUL}
    <2>1. r.tail + (i - 1) \in Int
      BY <1>1
    <2>2. Slot(r.tail + (i - 1)) \in 0 .. (Cap - 1)
      BY <2>1, SlotWraps
    <2> QED
      BY <2>2 DEF Ring
  <1>3. View(r) = [i \in 1 .. n |-> r.buf[Slot(r.tail + (i - 1))]]
    BY DEF View
  <1> HIDE DEF n
  <1>4. View(r) \in Seq(Chars \cup {NUL}) /\ Len(View(r)) = n
    BY <1>1, <1>2, <1>3
  <1> QED
    BY <1>4 DEF n

LEMMA MessagesTyped ==
  Message \subseteq Seq(Chars) /\ PANIC \in Seq(Chars) /\ HALTED \in Seq(Chars) /\ NEWLINE \in Seq(Chars)
  <1>1. NEWLINE[1] \in Range(NEWLINE)
    BY DEF NEWLINE, Range
  <1>2. NEWLINE[1] \in Chars
    BY <1>1, Zenon DEF Chars
  <1>3. NEWLINE \in Seq(Chars)
    BY <1>2 DEF NEWLINE
  <1> QED
    BY <1>3, MessageAssumption

LEMMA FormattedFacts ==
  ASSUME NEW m \in Seq(Chars)
  PROVE  /\ Formatted(m) \in Seq(Chars) /\ Len(Formatted(m)) <= Len(m)
         /\ \A i \in 1 .. Len(Formatted(m)) : Formatted(m)[i] = m[i]
  <1> DEFINE k == IF Len(m) < BUFFER_SIZE THEN Len(m) ELSE BUFFER_SIZE - 1
  <1>1. k \in Nat /\ k <= Len(m)
    BY LogAssumption
  <1>2. Formatted(m) = SubSeq(m, 1, k)
    BY DEF Formatted
  <1> HIDE DEF k
  <1> QED
    BY <1>1, <1>2

-----------------------------------------------------------------------------
LEMMA InitLogInv == Init => LogInv
  <1> SUFFICES ASSUME Init PROVE LogInv
    OBVIOUS
  <1>1. rb \in Ring /\ rb.head = 0 /\ rb.tail = 0
    BY Sizes DEF Init, Ring
  <1>2. ringbuf_len(rb) = 0
    BY <1>1, LenIs
  <1>3. <<>> \in Seq(Chars) /\ <<>> \in Seq(Seq(Chars)) /\ 0 \in 0 .. MaxExceptions /\ 0 <= Cap
    BY LogAssumption
  <1>4. LogTypes
    BY <1>1, <1>2, <1>3, Zenon DEF Init, LogTypes
  <1> QED
    BY <1>4 DEF Init, LogInv

(* A character moves from the message to the log in three accesses.        *)
LEMMA OverwriteKeeps == LogInv /\ OverwriteStep => LogInv'
  <1> SUFFICES ASSUME LogInv, OverwriteStep PROVE LogInv'
    OBVIOUS
  <1> DEFINE text == SyslogText(queue[1])
             done == Len(text) - Len(left)
  <1>1. /\ LogTypes /\ left # <<>> /\ queue # <<>> /\ Progress
        /\ UNCHANGED <<who, queue, panicking, console, shown, exceptions>>
    BY DEF LogInv, OverwriteStep
  <1>2. /\ rb \in Ring /\ ringbuf_len(rb) <= Cap /\ left \in Seq(Chars)
        /\ View(rb) \in Seq(Chars \cup {NUL}) /\ Len(View(rb)) = ringbuf_len(rb)
        /\ ringbuf_len(rb) \in Nat
    BY <1>1, ViewLen, RingLen, Sizes DEF LogTypes
  <1>3. queue[1] \in Seq(Chars)
    BY <1>1 DEF LogTypes
  <1>4. text \in Seq(Chars)
    BY <1>3, FormattedFacts DEF SyslogText
  <1>5. /\ done \in Nat /\ \A i \in 1 .. Len(left) : left[i] = text[done + i]
        /\ Written(View(rb), text, done, IF pc = "room" THEN Cap ELSE Cap - 1)
    BY <1>1 DEF Progress
  <1>6. queue' = queue /\ text' = text
    BY <1>1 DEF SyslogText, Formatted
  <1>7. SUFFICES /\ rb' \in Ring /\ ringbuf_len(rb') <= Cap /\ pc' \in {"room", "store", "advance"}
                 /\ left' \in Seq(Chars)
                 /\ pc' # "room" => left' # <<>> /\ ringbuf_len(rb') < Cap
                 /\ pc' = "advance" => rb'.buf[Slot(rb'.head)] = Head(left')
                 /\ Progress'
    BY <1>1, <1>7 DEF LogInv, LogTypes
  <1>8. CASE pc = "room" /\ rb' = MakeRoom(rb) /\ pc' = "store" /\ UNCHANGED left
    <2>1. rb' \in Ring /\ ringbuf_len(rb') < Cap /\ ringbuf_len(rb') \in Nat
      BY <1>2, <1>8, RoomView, RingLen, Sizes
    <2>2. Written(View(rb), text, done, Cap)
      BY <1>5, <1>8
    <2>3. Written(View(rb'), text, done, Cap - 1)
      <3> HIDE DEF text, done
      <3>1. CASE ringbuf_len(rb) = Cap
        BY <1>2, <1>5, <1>8, <2>2, <3>1, RoomView, WrittenTail
      <3>2. CASE ringbuf_len(rb) # Cap
        <4>1. rb' = rb
          BY <1>2, <1>8, <3>2, RoomView
        <4> QED
          BY <1>5, <2>2, <4>1, Sizes DEF Written
      <3> QED
        BY <3>1, <3>2
    <2>4. Progress'
      BY <1>5, <1>6, <1>8, <2>3 DEF Progress
    <2> QED
      BY <1>1, <1>2, <1>8, <2>1, <2>4, Sizes
  <1>9. CASE pc = "store" /\ rb' = Store(rb, Head(left)) /\ pc' = "advance" /\ UNCHANGED left
    <2>1. ringbuf_len(rb) < Cap /\ Head(left) \in Chars
      BY <1>1, <1>2, <1>9 DEF LogInv
    <2>2. /\ rb' \in Ring /\ ringbuf_len(rb') = ringbuf_len(rb) /\ View(rb') = View(rb)
          /\ rb'.buf[Slot(rb'.head)] = Head(left)
      BY <1>2, <1>9, <2>1, StoreView
    <2>3. Progress'
      BY <1>5, <1>6, <1>9, <2>2 DEF Progress
    <2> QED
      BY <1>1, <1>2, <1>9, <2>1, <2>2, <2>3
  <1>10. CASE pc = "advance" /\ rb' = Advance(rb) /\ pc' = "room" /\ left' = Tail(left)
    <2>1. /\ ringbuf_len(rb) < Cap /\ rb.buf[Slot(rb.head)] = Head(left) /\ Head(left) = left[1]
          /\ Head(left) \in Chars
      BY <1>1, <1>2, <1>10 DEF LogInv
    <2>2. /\ rb' \in Ring /\ ringbuf_len(rb') = ringbuf_len(rb) + 1
          /\ View(rb') = Append(View(rb), Head(left))
      BY <1>2, <1>10, <2>1, AdvanceView
    <2>3. /\ Len(left) \in Nat \ {0} /\ left' \in Seq(Chars) /\ Len(left') = Len(left) - 1
          /\ \A i \in 1 .. Len(left') : left'[i] = left[i + 1]
      BY <1>1, <1>2, <1>10
    <2>4. Len(text) - Len(left') = done + 1
      BY <1>4, <2>3
    <2> HIDE DEF text, done
    <2>5. Written(View(rb'), text, done + 1, Cap)
      <3>1. Head(left) = text[done + 1]
        BY <1>5, <2>1, <2>3
      <3> QED
        BY <1>2, <1>5, <1>10, <2>1, <2>2, <3>1, WrittenAppend
    <2>6. ASSUME NEW i \in 1 .. Len(left') PROVE left'[i] = text[(done + 1) + i]
      <3>1. i + 1 \in 1 .. Len(left) /\ done + (i + 1) = (done + 1) + i
        BY <1>5, <2>3
      <3> QED
        BY <1>5, <2>3, <3>1
    <2>7. done + 1 \in Nat
      BY <1>5
    <2>8. Progress' = (/\ Len(text') - Len(left') \in Nat
                       /\ \A i \in 1 .. Len(left') : left'[i] = text'[(Len(text') - Len(left')) + i]
                       /\ Written(View(rb'), text', Len(text') - Len(left'), IF pc' = "room" THEN Cap ELSE Cap - 1))
      BY DEF Progress, text
    <2>9. Progress'
      BY <1>6, <1>10, <2>4, <2>5, <2>6, <2>7, <2>8
    <2> QED
      BY <1>2, <1>10, <2>1, <2>2, <2>3, <2>9, Sizes
  <1> QED
    BY <1>8, <1>9, <1>10 DEF OverwriteStep

(* What the console gets starts with what was formatted.                   *)
LEMMA ConsolePrefix ==
  ASSUME NEW m \in Seq(Chars)
  PROVE  StartsWith(ConsoleText(m), Formatted(m))
  <1> DEFINE f == Formatted(m)
             b == ConsoleText(m)
  <1>1. /\ f \in Seq(Chars) /\ Len(f) \in Nat /\ Len(m) \in Nat /\ Len(f) <= Len(m)
        /\ \A i \in 1 .. Len(f) : f[i] = m[i]
    BY FormattedFacts
  <1>2. b = [i \in 1 .. Len(m) |-> IF i <= Len(f) THEN m[i]
                                   ELSE IF i = Len(f) + 1 THEN NUL ELSE STACK]
    BY DEF ConsoleText, Bytes
  <1> HIDE DEF f, b
  <1>3. /\ b \in Seq(Chars \cup {NUL, STACK}) /\ Len(b) = Len(m)
        /\ \A i \in 1 .. Len(f) : b[i] = f[i]
    BY <1>1, <1>2
  <1>4. SubSeq(b, 1, Len(f)) = f
    BY <1>1, <1>3
  <1> QED
    BY <1>1, <1>3, <1>4 DEF StartsWith, f, b

(* A message begins: nothing of it has been written.                       *)
LEMMA ProgressBegins ==
  ASSUME queue' # <<>>, queue' \in Seq(Seq(Chars)), left' = SyslogText(queue'[1])
  PROVE  Progress' /\ left' \in Seq(Chars)
  <1> DEFINE text == SyslogText(queue'[1])
  <1>1. queue'[1] \in Seq(Chars)
    OBVIOUS
  <1>2. text \in Seq(Chars) /\ Len(text) \in Nat
    BY <1>1, FormattedFacts DEF SyslogText
  <1>3. Progress' = (/\ Len(text) - Len(left') \in Nat
                     /\ \A i \in 1 .. Len(left') : left'[i] = text[(Len(text) - Len(left')) + i]
                     /\ Written(View(rb'), text, Len(text) - Len(left'), IF pc' = "room" THEN Cap ELSE Cap - 1))
    BY DEF Progress
  <1>4. left' = text
    OBVIOUS
  <1> HIDE DEF text
  <1> QED
    BY <1>2, <1>3, <1>4 DEF Written

LEMMA LoggedKeeps == LogInv /\ MessageLogged => LogInv'
  <1> SUFFICES ASSUME LogInv, MessageLogged PROVE LogInv'
    OBVIOUS
  <1> DEFINE text == SyslogText(queue[1])
             rest == Tail(queue)
  <1>1. /\ LogTypes /\ queue # <<>> /\ left = <<>> /\ pc = "room" /\ Progress
        /\ queue' = rest /\ left' = (IF rest = <<>> THEN <<>> ELSE SyslogText(queue[2]))
        /\ shown' = (IF console THEN ConsoleText(Head(queue)) ELSE shown)
        /\ UNCHANGED <<rb, who, pc, panicking, console, exceptions>>
    BY DEF LogInv, MessageLogged, Show
  <1>2. /\ queue \in Seq(Seq(Chars)) /\ rest \in Seq(Seq(Chars)) /\ Len(queue) \in Nat \ {0}
        /\ Len(rest) = Len(queue) - 1 /\ \A i \in 1 .. Len(rest) : rest[i] = queue[i + 1]
        /\ Head(queue) = queue[1] /\ queue[1] \in Seq(Chars)
    BY <1>1 DEF LogTypes
  <1> HIDE DEF rest
  <1>3. who' = "halted" => FALSE
    BY <1>1 DEF LogInv
  <1>4. CASE rest = <<>>
    <2>1. Len(queue) = 1
      BY <1>2, <1>4
    <2>2. ASSUME who = "panic" PROVE Said'
      <3>1. queue[1] = HALTED
        BY <1>1, <2>1, <2>2 DEF LogInv
      <3>2. text \in Seq(Chars) /\ Len(text) \in Nat /\ Len(left) = 0
        BY <1>1, <1>2, FormattedFacts DEF SyslogText
      <3>3. Written(View(rb), text, Len(text) - Len(left), Cap)
        BY <1>1 DEF Progress
      <3>4. Len(text) - Len(left) = Len(text)
        BY <3>2
      <3>5. Written(View(rb), Formatted(HALTED), Len(Formatted(HALTED)), Cap)
        BY <3>1, <3>3, <3>4 DEF SyslogText
      <3>6. console => StartsWith(shown', Formatted(HALTED))
        BY <1>1, <1>2, <3>1, ConsolePrefix
      <3>7. rb' = rb /\ console' = console
        BY <1>1
      <3> QED
        BY <3>5, <3>6, <3>7 DEF Said
    <2>3. queue' = <<>> /\ left' = <<>> /\ left' \in Seq(Chars) /\ queue' \in Seq(Seq(Chars))
      BY <1>1, <1>2, <1>4
    <2> QED
      BY <1>1, <1>3, <2>2, <2>3 DEF LogInv, LogTypes
  <1>5. CASE rest # <<>>
    <2>1. queue' # <<>> /\ queue' \in Seq(Seq(Chars)) /\ queue'[1] = queue[2] /\ Len(queue) > 1
          /\ queue'[Len(queue')] = queue[Len(queue)]
      BY <1>1, <1>2, <1>5
    <2>2. Progress' /\ left' \in Seq(Chars)
      BY <1>1, <1>5, <2>1, ProgressBegins
    <2> QED
      BY <1>1, <1>3, <2>1, <2>2 DEF LogInv, LogTypes
  <1> QED
    BY <1>4, <1>5

LEMMA PanicKeeps == ASSUME LogInv, NEW m \in Message, exception_dispatch(m) PROVE LogInv'
  <1> DEFINE q == PanicMessages(m)
  <1>1. /\ LogTypes /\ who' = "panic" /\ panicking' = TRUE /\ queue' = q /\ pc' = "room"
        /\ left' = SyslogText(Head(q)) /\ UNCHANGED <<rb, console, shown>>
        /\ exceptions < MaxExceptions /\ exceptions' = exceptions + 1
    BY DEF LogInv, exception_dispatch, vpanic
  <1>2. m \in Seq(Chars) /\ PANIC \in Seq(Chars) /\ NEWLINE \in Seq(Chars) /\ HALTED \in Seq(Chars)
    BY MessagesTyped
  <1>3. q = <<HALTED>> \/ q = <<PANIC, m, NEWLINE, HALTED>>
    BY DEF PanicMessages
  <1> HIDE DEF q
  <1>4. q \in Seq(Seq(Chars)) /\ q # <<>> /\ q[Len(q)] = HALTED /\ Head(q) = q[1]
    <2>1. CASE q = <<HALTED>>
      BY <1>2, <2>1
    <2>2. CASE q = <<PANIC, m, NEWLINE, HALTED>>
      <3>1. q \in Seq(Seq(Chars)) /\ Len(q) = 4 /\ q[4] = HALTED
        BY <1>2, <2>2
      <3> QED
        BY <3>1
    <2> QED
      BY <1>3, <2>1, <2>2
  <1>5. Progress' /\ left' \in Seq(Chars)
    BY <1>1, <1>4, ProgressBegins
  <1>6. exceptions' \in 0 .. MaxExceptions
    BY <1>1, LogAssumption DEF LogTypes
  <1>7. LogTypes'
    <2>1. rb' = rb /\ console' = console /\ queue' \in Seq(Seq(Chars))
      BY <1>1, <1>4
    <2> QED
      BY <1>1, <1>5, <1>6, <2>1 DEF LogTypes
  <1> QED
    BY <1>1, <1>4, <1>5, <1>7 DEF LogInv

LEMMA PrintkKeeps == ASSUME LogInv, NEW m \in Message, printk(m) PROVE LogInv'
  <1>1. /\ LogTypes /\ who = "main" /\ queue' = <<m>> /\ left' = SyslogText(m) /\ left = <<>>
        /\ pc = "room" /\ UNCHANGED <<rb, who, pc, panicking, console, shown, exceptions>>
    BY DEF LogInv, printk
  <1>2. m \in Seq(Chars)
    BY MessagesTyped
  <1>3. queue' # <<>> /\ queue' \in Seq(Seq(Chars)) /\ queue'[1] = m
    BY <1>1, <1>2
  <1>4. Progress' /\ left' \in Seq(Chars)
    BY <1>1, <1>3, ProgressBegins
  <1> QED
    BY <1>1, <1>3, <1>4 DEF LogInv, LogTypes

LEMMA NextLogInv == LogInv /\ [Next]_vars => LogInv'
  <1> SUFFICES ASSUME LogInv, [Next]_vars PROVE LogInv'
    OBVIOUS
  <1>1. CASE console_register
    <2>1. /\ who = "main" /\ queue = <<>> /\ console' = TRUE
          /\ UNCHANGED <<rb, who, queue, left, pc, panicking, shown, exceptions>>
      BY <1>1 DEF console_register
    <2> QED
      BY <2>1 DEF LogInv, LogTypes
  <1>2. CASE OverwriteStep
    BY <1>2, OverwriteKeeps
  <1>3. CASE MessageLogged
    BY <1>3, LoggedKeeps
  <1>4. CASE Halt
    <2>1. /\ who = "panic" /\ queue = <<>> /\ who' = "halted"
          /\ UNCHANGED <<rb, queue, left, pc, panicking, console, shown, exceptions>>
      BY <1>4 DEF Halt
    <2>2. Said /\ (Said <=> Said')
      BY <2>1 DEF LogInv, Said, View, ringbuf_len
    <2> QED
      BY <2>1, <2>2 DEF LogInv, LogTypes
  <1>5. CASE UNCHANGED vars
    BY <1>5 DEF vars, LogInv, LogTypes, Progress, Said
  <1>6. ASSUME NEW m \in Message, printk(m) \/ exception_dispatch(m) PROVE LogInv'
    BY <1>6, PrintkKeeps, PanicKeeps
  <1> QED
    BY <1>1, <1>2, <1>3, <1>4, <1>5, <1>6 DEF Next, Halted

-----------------------------------------------------------------------------
(* A reader whose buffer holds the capacity and NUL reads the whole ring.  *)
LEMMA RingRead ==
  ASSUME NEW r \in Ring, ringbuf_len(r) <= Cap
  PROVE  View(r) = LET len == IF ringbuf_len(r) >= Cap + 1 THEN (Cap + 1) - 1 ELSE ringbuf_len(r)
                   IN  [i \in 1 .. len |-> ringbuf_peek(r, i - 1)]
  <1>1. ringbuf_len(r) \in Nat /\ ~(ringbuf_len(r) >= Cap + 1)
    BY RingLen, Sizes
  <1> QED
    BY <1>1 DEF View, ringbuf_peek

LEMMA ReadIsView ==
  /\ LogTypes => syslog_read(Cap + 1) = View(rb)
  /\ LogTypes' => syslog_read(Cap + 1)' = View(rb')
  <1>1. LogTypes => syslog_read(Cap + 1) = View(rb)
    BY RingRead DEF LogTypes, syslog_read
  <1>2. LogTypes' => syslog_read(Cap + 1)' = View(rb')
    BY RingRead DEF LogTypes, syslog_read
  <1> QED
    BY <1>1, <1>2

LEMMA WrittenIsEnd ==
  ASSUME NEW A, NEW g \in Seq(A), NEW text \in Seq(A), Written(g, text, Len(text), Cap)
  PROVE  EndsWith(g, Abstract!Newest(text))
  <1> DEFINE k == IF Len(text) > Cap THEN Cap ELSE Len(text)
             s == Abstract!Newest(text)
  <1>1. k \in Nat /\ k <= Len(text) /\ k <= Cap /\ Len(text) \in Nat /\ Len(g) \in Nat
    BY Sizes
  <1>2. s = SubSeq(text, Len(text) - k + 1, Len(text))
    <2>1. s = SubSeq(text, IF Len(text) > Cap THEN Len(text) - Cap + 1 ELSE 1, Len(text))
      BY Zenon DEF Abstract!Newest
    <2>2. (IF Len(text) > Cap THEN Len(text) - Cap + 1 ELSE 1) = Len(text) - k + 1
      BY <1>1, Sizes
    <2> HIDE DEF s, k
    <2> QED
      BY <2>1, <2>2
  <1> HIDE DEF k
  <1>3. s \in Seq(A) /\ Len(s) = k /\ \A i \in 1 .. k : s[i] = text[Len(text) - k + i]
    <2> DEFINE m == Len(text) - k + 1
    <2>1. m \in 1 .. (Len(text) + 1) /\ (Len(text) - m) + 1 = k
      BY <1>1
    <2>2. \A i \in 1 .. k : (m + i) - 1 = Len(text) - k + i
      BY <1>1
    <2> HIDE DEF m, s
    <2>3. s \in Seq(A) /\ Len(s) = k /\ \A i \in 1 .. k : s[i] = text[(m + i) - 1]
      BY <1>1, <1>2, <2>1 DEF m
    <2> QED
      BY <2>2, <2>3
  <1> HIDE DEF s
  <1>4. \A j \in 1 .. k : j <= Len(g) /\ g[Len(g) + 1 - j] = text[Len(text) + 1 - j]
    <2> TAKE j \in 1 .. k
    <2>1. j \in 1 .. Len(text) /\ j <= Cap
      BY <1>1, Sizes
    <2> QED
      BY <2>1 DEF Written
  <1>5. k <= Len(g)
    BY <1>1, <1>4
  <1>6. ASSUME NEW i \in 1 .. k PROVE g[Len(g) - k + i] = s[i]
    <2>1. /\ k + 1 - i \in 1 .. k /\ Len(g) + 1 - (k + 1 - i) = Len(g) - k + i
          /\ Len(text) + 1 - (k + 1 - i) = Len(text) - k + i
      BY <1>1
    <2> QED
      BY <1>3, <1>4, <2>1
  <1>7. SubSeq(g, Len(g) - k + 1, Len(g)) = s
    <2> DEFINE b == SubSeq(g, Len(g) - k + 1, Len(g))
    <2>1. b \in Seq(A) /\ Len(b) = k /\ \A i \in 1 .. k : b[i] = g[Len(g) - k + i]
      BY <1>1, <1>5
    <2> HIDE DEF b
    <2>2. b = [i \in 1 .. k |-> b[i]] /\ s = [i \in 1 .. k |-> s[i]]
      BY <1>1, <1>3, <2>1
    <2>3. \A i \in 1 .. k : b[i] = s[i]
      BY <1>6, <2>1
    <2>4. b = s
      BY <2>2, <2>3
    <2> QED
      BY <2>4 DEF b
  <1> QED
    BY <1>3, <1>5, <1>7 DEF EndsWith, s

(* A machine that has halted says so at the end of its log and at the      *)
(* start of what the console got last: vpanic's last printk is complete    *)
(* whatever exceptions cut short.                                          *)
THEOREM HaltSaid == Spec => []HaltMessageLast
  <1>1. LogInv => HaltMessageLast
    <2> SUFFICES ASSUME LogInv PROVE HaltMessageLast
      OBVIOUS
    <2>1. LogTypes /\ rb \in Ring /\ (who = "halted" => Said)
      BY DEF LogInv, LogTypes
    <2>2. TypeOK
      BY <2>1 DEF LogTypes, Ring, TypeOK
    <2>3. View(rb) \in Seq(Chars \cup {NUL}) /\ syslog_read(Cap + 1) = View(rb)
      BY <2>1, ViewLen, ReadIsView
    <2>4. Formatted(HALTED) \in Seq(Chars \cup {NUL})
      BY MessagesTyped, FormattedFacts
    <2>5. Said => EndsWith(View(rb), Abstract!Newest(Formatted(HALTED)))
      BY <2>3, <2>4, WrittenIsEnd DEF Said
    <2> QED
      BY <2>1, <2>2, <2>3, <2>5 DEF HaltMessageLast, Said
  <1> QED
    BY <1>1, InitLogInv, NextLogInv, PTL DEF Spec

(* The ring is a bounded log to its readers: each access of                *)
(* ringbuf_overwrite drops the oldest character of a full log, adds one    *)
(* at its end, or is not seen; nothing else touches the log.               *)
THEOREM RingIsBoundedLog == Spec => BehavesAsBoundedLog
  <1> DEFINE log == syslog_read(Cap + 1)
  <1>1. Init => log = <<>>
    <2> SUFFICES ASSUME Init PROVE log = <<>>
      OBVIOUS
    <2>1. rb \in Ring /\ rb.head = 0 /\ rb.tail = 0 /\ LogTypes
      BY InitLogInv DEF LogInv, LogTypes, Init
    <2>2. View(rb) = <<>>
      BY <2>1, LenIs DEF View
    <2> QED
      BY <2>1, <2>2, ReadIsView
  <1>2. ASSUME LogInv, LogInv', [Next]_vars
        PROVE  [\/ Len(log) = Cap /\ log' = Tail(log)
                \/ \E s \in {<<c>> : c \in Chars} : log' = Abstract!Newest(log \o s)]_log
    <2>1. log = View(rb) /\ log' = View(rb') /\ rb \in Ring /\ ringbuf_len(rb) <= Cap
      BY <1>2, ReadIsView DEF LogInv, LogTypes
    <2> HIDE DEF log
    <2>2. log \in Seq(Chars \cup {NUL}) /\ Len(log) = ringbuf_len(rb) /\ ringbuf_len(rb) \in Nat
      BY <2>1, ViewLen, RingLen, Sizes
    <2>3. CASE rb' = rb
      BY <2>1, <2>3
    <2>4. CASE rb' = MakeRoom(rb)
      BY <2>1, <2>2, <2>4, RoomView
    <2>5. CASE pc = "store" /\ left # <<>> /\ rb' = Store(rb, Head(left))
      <3>1. ringbuf_len(rb) < Cap /\ Head(left) \in Chars
        BY <1>2, <2>5 DEF LogInv, LogTypes
      <3> QED
        BY <2>1, <2>5, <3>1, StoreView
    <2>6. CASE pc = "advance" /\ left # <<>> /\ rb' = Advance(rb)
      <3> DEFINE c == Head(left)
      <3>1. ringbuf_len(rb) < Cap /\ c \in Chars /\ rb.buf[Slot(rb.head)] = c
        BY <1>2, <2>6 DEF LogInv, LogTypes
      <3>2. log' = Append(log, c)
        BY <2>1, <2>6, <3>1, AdvanceView
      <3> HIDE DEF c
      <3>3. log \o <<c>> = Append(log, c) /\ Len(log \o <<c>>) = Len(log) + 1
        BY <2>2, <3>1
      <3>4. Abstract!Newest(log \o <<c>>) = SubSeq(log \o <<c>>, 1, Len(log \o <<c>>))
        <4> DEFINE d == log \o <<c>>
        <4>1. Abstract!Newest(d) = SubSeq(d, IF Len(d) > Cap THEN Len(d) - Cap + 1 ELSE 1, Len(d))
          BY Zenon DEF Abstract!Newest
        <4>2. ~(Len(d) > Cap)
          BY <2>2, <3>1, <3>3, Sizes
        <4> QED
          BY <4>1, <4>2
      <3>5. SubSeq(log \o <<c>>, 1, Len(log \o <<c>>)) = log \o <<c>>
        BY <2>2, <3>1
      <3> QED
        BY <3>1, <3>2, <3>3, <3>4, <3>5, Zenon
    <2> QED
      BY <1>2, <2>3, <2>4, <2>5, <2>6
      DEF Next, vars, console_register, OverwriteStep, MessageLogged, Halt, Halted, printk,
          exception_dispatch, vpanic
  <1>3. LogInv /\ LogInv' /\ [Next]_vars => [Abstract!Next]_log
    BY <1>2 DEF Abstract!Next, Abstract!MakeRoom
  <1>4. Init => Abstract!Init
    BY <1>1 DEF Abstract!Init
  <1> QED
    BY <1>3, <1>4, InitLogInv, NextLogInv, PTL DEF Spec, BehavesAsBoundedLog, Abstract!Spec
=============================================================================
