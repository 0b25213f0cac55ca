------------------------------- MODULE Console --------------------------------
(***************************************************************************)
(* The active console (kernel/console) and its VGA text implementation:    *)
(* one flat buffer of cells, the cursor of struct console, and the cursor  *)
(* location register of the hardware.                                      *)
(***************************************************************************)
EXTENDS Integers, Sequences, SequencesExt

CONSTANTS
  width, height,     \* 80 and 25 in the code
  CONSOLE_TAB_SIZE,
  Texts              \* what the kernel writes

VGA_CELL_CLEAR == " "

ASSUME ConsoleAssumption == width > 0 /\ height > 0 /\ CONSOLE_TAB_SIZE > 0

VARIABLES
  active_con,   \* whether a console is registered
  con,          \* buffer, cursor_x, cursor_y
  crtc          \* the hardware cursor's location, and whether it is shown

console_vars == <<active_con, con, crtc>>

Cells == 0 .. (width * height - 1)
Cleared == [i \in Cells |-> VGA_CELL_CLEAR]

Cell(c) == c.cursor_y * width + c.cursor_x

ConsoleInit ==
  /\ active_con = FALSE
  /\ con = [buffer |-> Cleared, cursor_x |-> 0, cursor_y |-> 0]
  /\ crtc = [location |-> 0, visible |-> TRUE]

-----------------------------------------------------------------------------
(* The switch on one character.                                            *)
Backspace(c) ==
  LET back == IF c.cursor_x > 0 THEN [c EXCEPT !.cursor_x = @ - 1]
              ELSE [c EXCEPT !.cursor_y = @ - 1, !.cursor_x = width - 1]
  IN  IF c.cursor_x = 0 /\ c.cursor_y = 0 THEN c
      ELSE [back EXCEPT !.buffer[Cell(back)] = VGA_CELL_CLEAR]

PutChar(c, ch) ==
  CASE ch = "LF" -> [c EXCEPT !.cursor_x = 0, !.cursor_y = @ + 1]
    [] ch = "CR" -> [c EXCEPT !.cursor_x = 0]
    [] ch = "TAB" -> [c EXCEPT !.cursor_x = @ + (CONSOLE_TAB_SIZE - (@ % CONSOLE_TAB_SIZE))]
    [] ch = "BS" -> Backspace(c)
    [] OTHER     -> [c EXCEPT !.buffer[Cell(c)] = ch, !.cursor_x = @ + 1]

NextLine(c) ==
  IF c.cursor_x >= width THEN [c EXCEPT !.cursor_x = 0, !.cursor_y = @ + 1] ELSE c

Scroll_KeepsLast(c) ==
  IF c.cursor_y < height THEN c
  ELSE [c EXCEPT !.buffer = [i \in Cells |->
                               IF i + width \in Cells THEN c.buffer[i + width] ELSE c.buffer[i]],
                 !.cursor_y = height - 1]

Scroll(c) ==
  IF c.cursor_y < height THEN c
  ELSE [c EXCEPT !.buffer = [i \in Cells |->
                               IF i + width \in Cells THEN c.buffer[i + width]
                                                      ELSE VGA_CELL_CLEAR],
                 !.cursor_y = height - 1]

(* The cursor is moved on the screen only after the whole text.            *)
vga_text_update_cursor(c) == crtc' = [crtc EXCEPT !.location = Cell(c)]

vga_text_console_write(text) ==
  LET c == FoldLeft(LAMBDA t, ch : Scroll(NextLine(PutChar(t, ch))), con, text)
  IN  con' = c /\ vga_text_update_cursor(c)

vga_text_console_clear ==
  /\ con' = [buffer |-> Cleared, cursor_x |-> 0, cursor_y |-> 0]
  /\ vga_text_update_cursor(con')

vga_text_console_set_cursor_position(x, y) ==
  /\ x < width /\ y < height
  /\ con' = [con EXCEPT !.cursor_x = x, !.cursor_y = y]
  /\ vga_text_update_cursor(con')

vga_text_console_set_cursor_visible(b) ==
  crtc' = [crtc EXCEPT !.visible = b] /\ UNCHANGED con

-----------------------------------------------------------------------------
(* console_register and what vga_text_probe does after it.                 *)
RegisterConsole ==
  /\ ~ active_con /\ active_con' = TRUE
  /\ con' = [buffer |-> Cleared, cursor_x |-> 0, cursor_y |-> 0]
  /\ crtc' = [location |-> Cell(con'), visible |-> FALSE]

(* The console_* calls; without a console they return an error.            *)
console_write(text) == vga_text_console_write(text)
console_clear == vga_text_console_clear
console_set_cursor_position(x, y) == vga_text_console_set_cursor_position(x, y)
console_set_cursor_visible(b) == vga_text_console_set_cursor_visible(b)

Call ==
  \/ \E text \in Texts : console_write(text)
  \/ console_clear
  \/ \E x \in 0 .. width, y \in 0 .. height : console_set_cursor_position(x, y)
  \/ \E b \in BOOLEAN : console_set_cursor_visible(b)

ConsoleNext == RegisterConsole \/ (active_con /\ Call /\ UNCHANGED active_con)

ConsoleSpec == ConsoleInit /\ [][ConsoleNext]_console_vars
-----------------------------------------------------------------------------
(* The state has its types; the buffer stays within its 80 x 25 cells and  *)
(* the cursor in the ranges [0, width) and [0, height) that struct console *)
(* gives for it, between any two calls.                                    *)
ConsoleTypeOK ==
  /\ active_con \in BOOLEAN
  /\ DOMAIN con.buffer = Cells
  /\ con.cursor_x \in 0 .. (width - 1) /\ con.cursor_y \in 0 .. (height - 1)
  /\ crtc.location \in Cells /\ crtc.visible \in BOOLEAN

(* The flat buffer as rows.                                                *)
Rows == [r \in 1 .. height |-> [c \in 0 .. (width - 1) |-> con.buffer[(r - 1) * width + c]]]

T == INSTANCE Terminal WITH
       Blank <- VGA_CELL_CLEAR, TabSize <- CONSOLE_TAB_SIZE,
       rows <- Rows, col <- con.cursor_x, row <- con.cursor_y

(* The flat buffer behaves as the sheet of rows of module Terminal, over   *)
(* any texts, wrapping, scrolling, tabs and backspaces, and the cursor is  *)
(* on the screen between any two calls.                                    *)
BehavesAsTerminal == T!Spec /\ []ConsoleTypeOK
=============================================================================
