------------------------------ MODULE Terminal --------------------------------
(***************************************************************************)
(* What the console promises (docs/kernel/console.md): a sheet of rows     *)
(* with a cursor on it.  Text goes to the cursor, the control characters   *)
(* move it, and a row that is needed below the last one pushes the first   *)
(* one out.                                                                *)
(***************************************************************************)
EXTENDS Integers, Sequences, SequencesExt

CONSTANTS width, height, TabSize, Texts, Blank

VARIABLES rows, col, row   \* the rows from the top, and the cursor

BlankRow == [c \in 0 .. (width - 1) |-> Blank]
BlankSheet == [r \in 1 .. height |-> BlankRow]

(* The sheet t, moved to the start of the next row.                        *)
NextRow(t) ==
  IF t.row < height - 1
    THEN [t EXCEPT !.col = 0, !.row = @ + 1]
    ELSE [t EXCEPT !.col = 0, !.rows = Append(Tail(@), BlankRow)]

MoveTo(t, c) == IF c < width THEN [t EXCEPT !.col = c] ELSE NextRow(t)

Back(t) ==
  IF t.col > 0 THEN [t EXCEPT !.col = @ - 1]
               ELSE [t EXCEPT !.col = width - 1, !.row = @ - 1]

Set(t, ch) == [t EXCEPT !.rows[t.row + 1][t.col] = ch]

Type(t, ch) ==
  CASE ch = "LF" -> NextRow(t)
    [] ch = "CR" -> [t EXCEPT !.col = 0]
    [] ch = "TAB" -> MoveTo(t, TabSize * (t.col \div TabSize + 1))
    [] ch = "BS" -> IF t.col = 0 /\ t.row = 0 THEN t ELSE Set(Back(t), Blank)
    [] OTHER     -> MoveTo(Set(t, ch), t.col + 1)

Sheet == [rows |-> rows, col |-> col, row |-> row]
Becomes(t) == rows' = t.rows /\ col' = t.col /\ row' = t.row

Init == rows = BlankSheet /\ col = 0 /\ row = 0

Next ==
  \/ \E s \in Texts : Becomes(FoldLeft(Type, Sheet, s))
  \/ Becomes([rows |-> BlankSheet, col |-> 0, row |-> 0])
  \/ \E c \in 0 .. (width - 1), r \in 0 .. (height - 1) :
       Becomes([Sheet EXCEPT !.col = c, !.row = r])

Spec == Init /\ [][Next]_<<rows, col, row>>
=============================================================================
