--------------------------- MODULE ConsoleScreen ---------------------------
(***************************************************************************)
(* The cursor and the visible part of the console (console.c).  Text is    *)
(* kept in a matrix of TotalRows rows, of which ScreenRows are drawn from  *)
(* console_top_row on.  Output moves the cursor; the screen follows it at  *)
(* the end of each print, by an amount that is counted on the way          *)
(* (console_force_top_row_reserve).  When the matrix is full its first     *)
(* BufferRows rows are dropped.  The main thread scrolls while the read    *)
(* thread prints, and reads the row and the forced top row without the     *)
(* lock, so it may see what they are in the middle of a character.  The    *)
(* characters themselves and their colours are left out, the cursor is     *)
(* not.                                                                    *)
(***************************************************************************)
EXTENDS Integers, Sequences

CONSTANTS
    TotalRows,    \* CONSOLE_MATRIX_TOTAL_ROWS, 1024 in the code
    BufferRows,   \* CONSOLE_MATRIX_BUFFER_ROWS, 64 in the code
    ScreenRows,   \* console_screen_rows
    ScreenCols,   \* console_screen_columns, with the terminator
    Params,       \* parameters of escape sequences
    ScrollSteps,  \* rows one key scrolls, 1 and 10 in the code
    MaxPrint      \* bound on the characters of one print

ASSUME ConsoleAssumption ==
    /\ TotalRows \in Nat /\ BufferRows \in Nat \ {0} /\ ScreenRows \in Nat \ {0}
    /\ BufferRows + ScreenRows <= TotalRows
    /\ ScreenCols \in Nat /\ ScreenCols > 2
    /\ Params \subseteq Nat /\ ScrollSteps \subseteq Nat
    /\ MaxPrint \in Nat \ {0}

VARIABLES
    cursor,    \* row, column, force_top_row_on_text and its reserve; see Cursor
    stores,    \* what the row and the forced top row still are before they are
               \* what cursor has, the present values first; see Memory
    top,       \* console_top_row
    escaped,   \* console_escaped_state
    printing,  \* characters the running ui_console_print may still have, 0: none runs
    scroll,    \* where ui_console_scroll_down is
    limit,     \* its max_row_top
    torn       \* history: 1 once it has read a row that is not in the matrix

printVars   == <<cursor, stores, escaped, printing>>
scrollVars  == <<scroll, limit, torn>>
consoleVars == <<printVars, top, scrollVars>>

\* lost is history: 1 once the reserve has been counted wrong, see ReserveExact.
Cursor == [row : Nat, col : Nat, force_top : Nat, reserve : Int, lost : {0, 1}]

\* console_cur_row and console_force_top_row_on_text as another thread sees
\* them.  Nothing else that a character changes is read without the lock.
Memory == IF stores = <<>> THEN <<cursor.row, cursor.force_top>> ELSE Head(stores)

-----------------------------------------------------------------------------
(***************************************************************************)
(* console_put_char.                                                       *)
(***************************************************************************)
NextRow(c, col) == [c EXCEPT !.row = @ + 1, !.col = col, !.reserve = @ + 1]

Tab(c) ==
    LET end == c.col + (5 - (c.col % 5))
    IN  IF end >= ScreenCols - 2 THEN NextRow(c, 0) ELSE [c EXCEPT !.col = end]

\* Over the start of a row the cursor goes up and the reserve stays.
Backspace(c) ==
    IF c.col > 0 THEN [c EXCEPT !.col = @ - 1]
    ELSE IF c.row = 0 THEN c
    ELSE [c EXCEPT !.col = ScreenCols - 2, !.row = @ - 1, !.lost = 1]

Letter(c) == IF c.col + 1 > ScreenCols - 2 THEN NextRow(c, 0) ELSE [c EXCEPT !.col = @ + 1]

\* Mutant: the forced top row is not moved with the text.
Shift_Mutant(c) == IF c.row # TotalRows THEN c ELSE [c EXCEPT !.row = @ - BufferRows]

\* The matrix is full: its first rows are dropped.  The reserve is not adjusted
\* when the top row cannot move as far as the cursor.
Shift(c) ==
    IF c.row # TotalRows THEN c
    ELSE [c EXCEPT !.row = @ - BufferRows,
                   !.force_top = IF @ < BufferRows THEN 0 ELSE @ - BufferRows,
                   !.lost = IF c.force_top < BufferRows THEN 1 ELSE @]

\* On the way the row is past the matrix while the text is moved, then only the
\* row is lowered, then the forced top row may be negative.
ShiftStores(c) ==
    IF c.row # TotalRows THEN <<>>
    ELSE << <<c.row, c.force_top>>, <<c.row - BufferRows, c.force_top>>,
            <<c.row - BufferRows, c.force_top - BufferRows>> >>

Chars == {"newline", "return", "tab", "backspace", "beep", "letter"}

Put(c, ch) ==
    CASE ch = "newline"   -> NextRow(c, c.col)
      [] ch = "return"    -> [c EXCEPT !.col = 0]
      [] ch = "tab"       -> Tab(c)
      [] ch = "backspace" -> Backspace(c)
      [] ch = "beep"      -> c
      [] ch = "letter"    -> Letter(c)

console_put_char(c, ch) == Shift(Put(c, ch))
PutStores(c, ch)        == ShiftStores(Put(c, ch))

-----------------------------------------------------------------------------
(***************************************************************************)
(* console_unescape: p and q are the first two parameters.                 *)
(***************************************************************************)
\* Mutant: moving within the screen leaves the reserve as it was.
AtRow_Mutant(c, row) == [c EXCEPT !.row = row]

\* The cursor on a row, with the reserve that fits it.
AtRow(c, row) == [c EXCEPT !.row = row, !.reserve = 1 - (c.force_top + ScreenRows - row)]

MoveUp(c, p)   == AtRow(c, IF c.force_top > c.row - p THEN c.force_top ELSE c.row - p)
MoveDown(c, p) ==
    AtRow(c, IF c.row + p >= c.force_top + ScreenRows THEN c.force_top + ScreenRows - 1
             ELSE c.row + p)
MoveRight(c, p) ==
    [c EXCEPT !.col = IF @ + p >= ScreenCols - 1 THEN ScreenCols - 2 ELSE @ + p]
MoveLeft(c, p)  == [c EXCEPT !.col = IF @ - p < 0 THEN 0 ELSE @ - p]

\* Relative to the row drawn first, which becomes the forced top row.
FromTop(p) == top + (IF p >= ScreenRows THEN ScreenRows - 1 ELSE p)

MoveTo(c, p, q) ==
    AtRow([c EXCEPT !.force_top = top,
                    !.col = IF q >= ScreenCols - 1 THEN ScreenCols - 2 ELSE q],
          FromTop(p))

Escapes == {"A", "B", "C", "D", "H", "keep", "unknown"}

\* "keep" is J, K or m: they clear or colour.  A sequence that is not known is
\* printed, at least a '^' and its last character.
console_unescape(c, s, p, q) ==
    CASE s = "A" -> MoveUp(c, p)
      [] s = "B" -> MoveDown(c, p)
      [] s = "C" -> MoveRight(c, p)
      [] s = "D" -> MoveLeft(c, p)
      [] s = "H" -> MoveTo(c, p, q)
      [] s = "keep" -> c
      [] s = "unknown" -> console_put_char(console_put_char(c, "letter"), "letter")

\* The row is moved before it is put back on the screen, and before the forced
\* top row is.
UnescapeStores(c, s, p) ==
    CASE s = "A" -> << <<c.row - p, c.force_top>> >>
      [] s = "B" -> << <<c.row + p, c.force_top>> >>
      [] s = "H" -> << <<FromTop(p), c.force_top>> >>
      [] s = "unknown" ->
             PutStores(c, "letter") \o PutStores(console_put_char(c, "letter"), "letter")
      [] OTHER -> <<>>

-----------------------------------------------------------------------------
(***************************************************************************)
(* ui_console_print, one character at a time: the lock is held throughout, *)
(* but ui_console_scroll_down reads the cursor without it.                 *)
(***************************************************************************)
\* Bound: a console that has lost count or read a torn row prints no more.
PrintBegin ==
    /\ printing = 0 /\ printing' = MaxPrint
    /\ cursor.lost = 0 /\ torn = 0
    /\ UNCHANGED <<cursor, stores, escaped, top, scrollVars>>

NextChar == printing > 1 /\ stores = <<>> /\ printing' = printing - 1

PrintChar(ch) ==
    /\ NextChar /\ escaped = 0
    /\ cursor' = console_put_char(cursor, ch) /\ stores' = PutStores(cursor, ch)
    /\ UNCHANGED <<escaped, top, scrollVars>>

PrintEscape ==
    /\ NextChar /\ escaped' = 1
    /\ UNCHANGED <<cursor, stores, top, scrollVars>>

\* The character that ends an escape sequence, perhaps in a later print.
PrintSequence(s, p, q) ==
    /\ NextChar /\ escaped = 1 /\ escaped' = 0
    /\ cursor' = console_unescape(cursor, s, p, q) /\ stores' = UnescapeStores(cursor, s, p)
    /\ UNCHANGED <<top, scrollVars>>

\* The next store of the character at hand.
PrintStore ==
    /\ stores # <<>> /\ stores' = Tail(stores)
    /\ UNCHANGED <<cursor, escaped, printing, top, scrollVars>>

\* The screen follows the cursor.
PrintEnd ==
    /\ printing > 0 /\ stores = <<>> /\ printing' = 0
    /\ cursor' = IF cursor.reserve > 0
                 THEN [cursor EXCEPT !.force_top = @ + cursor.reserve, !.reserve = 0]
                 ELSE cursor
    /\ top' = cursor'.force_top
    /\ UNCHANGED <<stores, escaped, scrollVars>>

ui_console_scroll_up(n) ==
    /\ printing = 0 /\ scroll = "idle"
    /\ top' = IF top - n < 0 THEN 0 ELSE top - n
    /\ UNCHANGED <<printVars, scrollVars>>

(***************************************************************************)
(* ui_console_scroll_down computes how far it may scroll before it takes   *)
(* the lock: it reads the row, compares with the forced top row, and reads *)
(* that once more if it is larger.                                         *)
(***************************************************************************)
ScrollRead ==
    /\ scroll = "idle" /\ scroll' = "test"
    /\ limit' = Memory[1] - ScreenRows + 1
    /\ torn' = IF Memory[1] >= TotalRows THEN 1 ELSE torn
    /\ UNCHANGED <<printVars, top>>

ScrollTest ==
    /\ scroll = "test" /\ scroll' = IF limit < Memory[2] THEN "load" ELSE "lock"
    /\ UNCHANGED <<printVars, top, limit, torn>>

ScrollLoad ==
    /\ scroll = "load" /\ scroll' = "lock" /\ limit' = Memory[2]
    /\ UNCHANGED <<printVars, top, torn>>

\* Mutant: the page is scrolled without the limit.
ui_console_scroll_down_Mutant(n) ==
    /\ scroll = "lock" /\ printing = 0 /\ scroll' = "idle"
    /\ top' = top + n
    /\ limit' = 0
    /\ UNCHANGED <<printVars, torn>>

\* With the lock.
ui_console_scroll_down(n) ==
    /\ scroll = "lock" /\ printing = 0 /\ scroll' = "idle"
    /\ LET max_row_top == IF limit < 0 THEN 0 ELSE limit
       IN  top' = IF top + n > max_row_top THEN max_row_top ELSE top + n
    /\ limit' = 0
    /\ UNCHANGED <<printVars, torn>>

-----------------------------------------------------------------------------
\* ui_console_begin.
ConsoleInit ==
    /\ cursor = [row |-> 0, col |-> 0, force_top |-> 0, reserve |-> 1 - ScreenRows, lost |-> 0]
    /\ stores = <<>> /\ top = 0 /\ escaped = 0 /\ printing = 0
    /\ scroll = "idle" /\ limit = 0 /\ torn = 0

ConsoleNext ==
    \/ PrintBegin \/ PrintEnd \/ PrintEscape \/ PrintStore
    \/ \E ch \in Chars : PrintChar(ch)
    \/ \E s \in Escapes, p, q \in Params : PrintSequence(s, p, q)
    \/ ScrollRead \/ ScrollTest \/ ScrollLoad
    \/ \E n \in ScrollSteps : ui_console_scroll_up(n) \/ ui_console_scroll_down(n)

ConsoleSpec == ConsoleInit /\ [][ConsoleNext]_consoleVars

-----------------------------------------------------------------------------
(***************************************************************************)
(* Properties.  All but the column depend on the reserve being right.  The *)
(* code loses count in two cases: a backspace over the start of a row, and *)
(* one print that scrolls so far that the matrix is shifted by more rows   *)
(* than the top row can follow.  The rows also depend on what the scroll   *)
(* has read: in the middle of a character that fills the matrix, or of an  *)
(* ESC[nB, the row may be past the matrix, and the screen goes there.      *)
(***************************************************************************)

\* console_force_top_row_reserve is exactly the number of rows the cursor is
\* below the forced screen (negative if it is above the last row), through
\* line feeds, tabs, wrapped lines, escape sequences and shifts of the matrix,
\* and a print leaves none pending.
ReserveExact ==
    cursor.lost = 0 =>
        /\ cursor.reserve = cursor.row - (cursor.force_top + ScreenRows - 1)
        /\ printing = 0 => cursor.reserve <= 0

\* After every character the cursor is inside the matrix and not above the
\* screen the output is written to, and so are the rows ui_console_print and
\* both scroll functions make visible: draw_console_locked reads no row past
\* the matrix.  The row a scroll has read may be of long ago, the matrix may
\* have been shifted since, and the forced top row may be one of the middle of
\* a character; only a row that was past the matrix when it was read is not
\* caught.
RowsInMatrix ==
    /\ cursor.col <= ScreenCols - 2
    /\ cursor.lost = 0 /\ torn = 0 =>
           /\ cursor.force_top <= cursor.row /\ cursor.row < TotalRows
           /\ top >= 0 /\ top + ScreenRows <= TotalRows

=============================================================================
