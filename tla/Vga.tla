-------------------------------- MODULE Vga ---------------------------------
(***************************************************************************)
(* The text screen, src/src/drivers/vga.c: the cursor lives in a register  *)
(* of the VGA as an offset, characters are written where it is, and the    *)
(* screen scrolls when the cursor leaves the last row.  vga_mutex has one  *)
(* thread at a time in it (see Sched), so a call is a step.                *)
(*                                                                         *)
(* frame_buffer has an entry for each row.  A cursor just past the last    *)
(* row makes the code write through the word that follows it: what that    *)
(* damages is unknown, but it is not the screen.                           *)
(***************************************************************************)
EXTENDS Integers, Sequences, SequencesExt

CONSTANTS
    Rows, Cols,  \* 25 and 80
    Chars,       \* the characters that are printed
    MaxText      \* bound: characters written since the screen was cleared

ASSUME VgaAssumption ==
    /\ Rows \in Nat \ {0} /\ Cols \in Nat \ {0, 1}
    /\ Rows < 255 /\ Cols < 255 /\ MaxText \in Nat
    /\ {" ", "\n", "\t"} \cap Chars = {}

\* An offset, of a position past the last row too, fits the register.
ASSUME RegisterHoldsOffsets == (Rows + 1) * Cols < 65536

VARIABLES
    screen,  \* screen[y][x], what frame_buffer[y][x] holds
    cursor,  \* the cursor register
    text,    \* history: what was written since the screen was cleared
    lost     \* history: a character of it went past frame_buffer

vgaVars == <<screen, cursor, text, lost>>

Blank == [x \in 0..(Cols - 1) |-> " "]
ClearScreen == [y \in 0..(Rows - 1) |-> Blank]

\* vga_get_cursor and get_offset.
GetCursor == [x |-> cursor % Cols, y |-> cursor \div Cols]
Offset(pos) == (pos.y * Cols + pos.x) % 65536

\* Mutant: the last row stays.
ScrollUpKeepsLast(s) ==
    [y \in 0..(Rows - 1) |-> IF y = Rows - 1 THEN s[y] ELSE s[y + 1]]

ScrollUp(s) == [y \in 0..(Rows - 1) |-> IF y = Rows - 1 THEN Blank ELSE s[y + 1]]

\* A display is a screen and a position on it.  Leaving the last row scrolls.
ScrollIfBelow(d) ==
    IF d.pos.y >= Rows
    THEN [screen |-> ScrollUp(d.screen), pos |-> [d.pos EXCEPT !.y = @ - 1]]
    ELSE d

\* vga_new_line: column Cols, past the last, is let through, and becomes column
\* 0 of the next row in the register; the row is not looked at again.
NewLine(d) ==
    LET e == ScrollIfBelow(d) IN
    IF e.pos.x > Cols
    THEN ScrollIfBelow([e EXCEPT !.pos = [x |-> 0, y |-> @.y + 1]])
    ELSE e

Right(d) == NewLine([d EXCEPT !.pos.x = @ + 1])

\* vga_print_char; past frame_buffer the screen does not change.
PrintChar(d, c) ==
    IF d.pos.y < Rows THEN [d EXCEPT !.screen[d.pos.y][d.pos.x] = c] ELSE d

\* vga_write_char.
Written(d, c) ==
    CASE c = "\n" -> NewLine([d EXCEPT !.pos = [x |-> 0, y |-> @.y + 1]])
      [] c = "\t" -> Right(Right(d))
      [] OTHER    -> Right(PrintChar(d, c))

VgaInit ==
    /\ screen = ClearScreen
    /\ cursor = 0
    /\ text = <<>>
    /\ lost = FALSE

WriteChar(c) ==
    LET d == Written([screen |-> screen, pos |-> GetCursor], c) IN
    /\ Len(text) < MaxText
    /\ screen' = d.screen
    /\ cursor' = Offset(d.pos)
    /\ text' = Append(text, c)
    /\ lost' = (lost \/ (c \in Chars /\ GetCursor.y >= Rows))

\* vga_clear_screen.
Clear ==
    /\ screen' = ClearScreen
    /\ cursor' = 0
    /\ text' = <<>>
    /\ lost' = FALSE

VgaNext == Clear \/ \E c \in Chars \cup {"\n", "\t"} : WriteChar(c)

VgaSpec == VgaInit /\ [][VgaNext]_vgaVars
-----------------------------------------------------------------------------
(* The reference: text laid out on paper that has no end, in rows of Cols. *)

\* Where a character leaves the pen, and what it adds to the paper.  A tab is
\* two columns, at most what is left of the row.
Pen(p, c) ==
    LET Forward(n) == [row |-> p.row + (p.col + n) \div Cols, col |-> (p.col + n) % Cols]
        to == CASE c = "\n" -> [row |-> p.row + 1, col |-> 0]
                [] c = "\t" -> Forward(IF p.col + 1 = Cols THEN 1 ELSE 2)
                [] OTHER    -> Forward(1)
    IN  [row |-> to.row, col |-> to.col,
         ink |-> p.ink \cup IF c \in Chars THEN {<<p.row, p.col, c>>} ELSE {}]

Paper == FoldLeft(Pen, [row |-> 0, col |-> 0, ink |-> {}], text)

OnPaper(row, col) ==
    IF \E c \in Chars : <<row, col, c>> \in Paper.ink
    THEN CHOOSE c \in Chars : <<row, col, c>> \in Paper.ink
    ELSE " "
-----------------------------------------------------------------------------
(* Properties.                                                             *)

\* While no character has been lost, the screen is a window on the paper, and
\* the cursor stands where the pen does: scrolling neither repeats nor drops a
\* row, no character is overwritten, and the rows below the pen are blank.
ShowsTheText ==
    ~lost =>
        LET top == Paper.row - GetCursor.y IN
        /\ GetCursor.x = Paper.col
        /\ \A y \in 0..(Rows - 1), x \in 0..(Cols - 1) :
            screen[y][x] = OnPaper(top + y, x)

\* frame_buffer has an entry for every row a character is printed in.
StaysInFrameBuffer == ~lost
=============================================================================
