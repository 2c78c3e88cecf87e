------------------------------- MODULE Screen -------------------------------
(***************************************************************************)
(* The screen of a pane (tear-core/src/pane_grid.rs), which is written by  *)
(* what the shell puts out, and the replay of it that a client gets when   *)
(* it attaches (tear-types/src/pane_snapshot.rs): control sequences that   *)
(* make a fresh screen show the same.                                      *)
(*                                                                         *)
(* Every control sequence is a function of screens, so that the replay is  *)
(* one, too.  Rows and columns count from 0, as in the code.  A counted    *)
(* sequence has the count 1; colours, attributes, modes that do not move   *)
(* the text, titles, graphics and answers to queries are left out, and all *)
(* combining marks of a cell are one.                                      *)
(***************************************************************************)
EXTENDS Naturals, SequencesExt

CONSTANTS
    Sizes,          \* bound: sizes of a screen, <<rows, cols>>
    HistoryCap,     \* rows of history that are kept
    MaxOps          \* bound: control sequences and characters that a screen is fed

ASSUME ConstantsAssumption ==
    /\ Sizes \subseteq (Nat \ {0}) \X (Nat \ {0})
    /\ HistoryCap \in Nat /\ MaxOps \in Nat

VARIABLES
    g,              \* the screen
    ops             \* how much it was fed, for the bound

screenVars == <<g, ops>>

\* A cell: its character, the columns of its glyph (0: the second half of the
\* glyph before), and whether it carries a mark.
Glyphs    == {"x", "W"}
Width(ch) == IF ch = "W" THEN 2 ELSE 1
Cells     == [ch : Glyphs \cup {" "}, w : 0..2, mark : BOOLEAN]
Blank     == [ch |-> " ", w |-> 1, mark |-> FALSE]
Rest      == [Blank EXCEPT !.w = 0]

Blanks(cols)       == [i \in 1..cols |-> Blank]
BlankPage(rows, cols) == [i \in 1..rows |-> Blanks(cols)]

Fresh(rows, cols) ==
    [rows |-> rows, cols |-> cols,
     primary |-> BlankPage(rows, cols), alternate |-> BlankPage(rows, cols), alt |-> FALSE,
     history |-> <<>>, row |-> 0, col |-> 0, wrap |-> FALSE, top |-> 0, bottom |-> rows - 1,
     insert |-> FALSE, saved |-> <<>>, last |-> <<>>]

Least(a, b) == IF a < b THEN a ELSE b

Page(s)       == IF s.alt THEN s.alternate ELSE s.primary
Line(s, r)    == Page(s)[r + 1]
WithPage(s, page) == IF s.alt THEN [s EXCEPT !.alternate = page] ELSE [s EXCEPT !.primary = page]
WithLine(s, line) == WithPage(s, [Page(s) EXCEPT ![s.row + 1] = line])
Unwrapped(s)  == [s EXCEPT !.wrap = FALSE]
-----------------------------------------------------------------------------
(* Lines move.                                                             *)

\* A line is taken out, and one is put in where that leaves the others.
Moved(s, out, in) ==
    WithPage(s, InsertAt(RemoveAt(Page(s), out + 1), Least(in, s.rows - 1) + 1, Blanks(s.cols)))

\* scroll_region_up.  The line goes in below the region on the primary screen.
ScrolledUp(s) ==
    IF s.top > s.bottom THEN s
    ELSE IF s.alt THEN Moved(s, s.top, s.bottom)
    ELSE IF s.top = 0 /\ s.bottom = s.rows - 1
      THEN [s EXCEPT !.primary = Append(Tail(@), Blanks(s.cols)),
                     !.history = IF HistoryCap = 0 THEN @
                                 ELSE Append(IF Len(@) >= HistoryCap THEN Tail(@) ELSE @,
                                             Head(s.primary))]
      ELSE Moved(s, s.top, s.bottom + 1)

\* A blank line goes in at a row, and the line that the region loses goes out.
PushedDown(s, at) ==
    WithPage(s, RemoveAt(InsertAt(Page(s), at + 1, Blanks(s.cols)), s.bottom + 2))

LineFed(s) ==
    IF s.row = s.bottom THEN ScrolledUp(s)
    ELSE IF s.row + 1 < s.rows THEN [s EXCEPT !.row = @ + 1]
    ELSE s

ReverseIndexed(s) ==
    IF s.row = s.top THEN PushedDown(s, s.top)
    ELSE IF s.row > 0 THEN [s EXCEPT !.row = @ - 1]
    ELSE s

ScrolledDown(s) == PushedDown(Unwrapped(s), s.top)

LineInserted(s) ==
    LET u == Unwrapped(s) IN IF s.row <= s.bottom THEN PushedDown(u, s.row) ELSE u

\* Mutant: where the primary screen's scroll puts its line.
DeleteAbove(s) ==
    LET u == Unwrapped(s) IN IF s.row <= s.bottom THEN Moved(u, s.row, s.bottom + 1) ELSE u

LineDeleted(s) ==
    LET u == Unwrapped(s) IN IF s.row <= s.bottom THEN Moved(u, s.row, s.bottom) ELSE u
-----------------------------------------------------------------------------
(* The cursor moves.                                                       *)

CursorSet(s, r, c) ==
    [Unwrapped(s) EXCEPT !.row = Least(r, s.rows - 1), !.col = Least(c, s.cols - 1)]

Returned(s)   == [Unwrapped(s) EXCEPT !.col = 0]
BackSpaced(s) == [Unwrapped(s) EXCEPT !.col = IF @ > 0 THEN @ - 1 ELSE 0]
Tabbed(s)     == [Unwrapped(s) EXCEPT !.col = Least((@ \div 8 + 1) * 8, s.cols - 1)]
Risen(s)      == CursorSet(s, IF s.row > 0 THEN s.row - 1 ELSE 0, s.col)

Saved(s) == [s EXCEPT !.saved = <<s.row, s.col>>]

Restored(s) ==
    IF s.saved = <<>> THEN s
    ELSE [s EXCEPT !.row = Least(s.saved[1], s.rows - 1), !.col = Least(s.saved[2], s.cols - 1)]

Region(s, top, bottom) ==
    CursorSet([s EXCEPT !.top = Least(top, s.rows - 1), !.bottom = Least(bottom, s.rows - 1)], 0, 0)
-----------------------------------------------------------------------------
(* Cells are written.                                                      *)

\* Mutant: only the half to the right is blanked.
ClearRight(line, c, w) ==
    [i \in DOMAIN line |-> IF i = c + w + 1 /\ line[c + w].w = 2 THEN Blank ELSE line[i]]

\* clear_orphans_at: halves of glyphs of which the other half is overwritten.
ClearOrphans(line, c, w) ==
    [i \in DOMAIN line |->
       IF \/ i = c /\ line[c + 1].w = 0
          \/ i = c + w + 1 /\ line[c + w].w = 2
         THEN Blank ELSE line[i]]

\* put_char after the line was chosen.
Placed(s, ch) ==
    LET w    == Width(ch)
        c    == s.col
        line == Line(s, s.row)
        half == [Blank EXCEPT !.ch = ch, !.w = w]
        new  == IF s.insert
                  THEN SubSeq(SubSeq(line, 1, c) \o (IF w = 2 THEN <<half, Rest>> ELSE <<half>>)
                              \o SubSeq(line, c + 1, s.cols), 1, s.cols)
                  ELSE [i \in 1..s.cols |-> IF i = c + 1 THEN half
                                            ELSE IF i = c + 2 /\ w = 2 THEN Rest
                                            ELSE ClearOrphans(line, c, w)[i]]
    IN [WithLine(s, new) EXCEPT
          !.last = <<ch>>,
          !.col  = Least(c + w, s.cols - 1),
          !.wrap = c + w >= s.cols]

Wrapped(s) == LineFed([Unwrapped(s) EXCEPT !.col = 0])

Printed(s, ch) ==
    LET here  == IF s.wrap THEN Wrapped(s) ELSE s
        there == IF Width(ch) = 2 /\ here.col + 1 >= here.cols THEN Wrapped(here) ELSE here
    IN Placed(there, ch)

\* combine_into_previous: the mark goes to the glyph before the cursor.
Marked(s) ==
    LET start == IF s.wrap THEN s.cols ELSE s.col
        line  == Line(s, s.row)
        at    == IF start > 1 /\ line[start].w = 0 THEN start - 1 ELSE start
    IN IF start = 0 THEN s ELSE WithLine(s, [line EXCEPT ![at].mark = TRUE])

Repeated(s) == IF s.last = <<>> THEN Unwrapped(s) ELSE Printed(Unwrapped(s), s.last[1])

\* The cells of the cursor's row from one column to another are blanked.
Erased(s, from, to) ==
    WithLine(Unwrapped(s), [i \in 1..s.cols |-> IF i - 1 \in from..to THEN Blank ELSE Line(s, s.row)[i]])

\* So are all those of the rows from one to another.
RowsErased(s, from, to) ==
    WithPage(Unwrapped(s), [i \in 1..s.rows |-> IF i - 1 \in from..to THEN Blanks(s.cols) ELSE Page(s)[i]])

ErasedBelow(s) == RowsErased(Erased(s, s.col, s.cols), s.row + 1, s.rows)
ErasedAbove(s) == Erased(IF s.row = 0 THEN s ELSE RowsErased(s, 0, s.row - 1), 0, s.col)
ErasedAll(s)   == RowsErased(s, 0, s.rows)

CellInserted(s) ==
    WithLine(Unwrapped(s), SubSeq(InsertAt(Line(s, s.row), s.col + 1, Blank), 1, s.cols))

CellDeleted(s) ==
    WithLine(Unwrapped(s), Append(RemoveAt(Line(s, s.row), s.col + 1), Blank))
-----------------------------------------------------------------------------
(* Screens and modes.                                                      *)

InsertMode(s, on) == [Unwrapped(s) EXCEPT !.insert = on]

Entered(s, clear) ==
    IF clear THEN [s EXCEPT !.alt = TRUE, !.alternate = BlankPage(s.rows, s.cols), !.row = 0, !.col = 0]
             ELSE [s EXCEPT !.alt = TRUE]

Left(s) == [s EXCEPT !.alt = FALSE]

\* DEC modes 47, 1047 and 1049.
Alternate(s, mode) ==
    LET u == Unwrapped(s) IN
    CASE mode = 47   -> Entered(u, FALSE)
      [] mode = 1047 -> Entered(u, TRUE)
      [] mode = 1049 -> Entered(Saved(u), TRUE)

Primary(s, mode) ==
    LET u == Unwrapped(s) IN
    CASE mode = 47   -> Left(u)
      [] mode = 1047 -> Left(ErasedAll(u))
      [] mode = 1049 -> Restored(Left(ErasedAll(u)))

\* RIS leaves a pending wrap and the insert mode.
ResetHard(s) ==
    LET e == [ErasedAll(s) EXCEPT !.wrap = s.wrap] IN
    [e EXCEPT !.row = 0, !.col = 0, !.top = 0, !.bottom = s.rows - 1, !.alt = FALSE, !.saved = <<>>]

ResetSoft(s) ==
    [Unwrapped(s) EXCEPT !.insert = FALSE, !.saved = <<>>, !.top = 0, !.bottom = s.rows - 1]

\* The top left corner of a page, on a page of another size.
Fitted(page, rows, cols) ==
    [i \in 1..rows |-> [j \in 1..cols |->
       IF i <= Len(page) /\ j <= Len(page[1]) THEN page[i][j] ELSE Blank]]

Resized(s, rows, cols) ==
    IF s.rows = rows /\ s.cols = cols THEN s
    ELSE [s EXCEPT !.rows = rows, !.cols = cols,
                   !.primary = Fitted(@, rows, cols), !.alternate = Fitted(@, rows, cols),
                   !.row = Least(@, rows - 1), !.col = Least(@, cols - 1),
                   !.top = 0, !.bottom = rows - 1]
-----------------------------------------------------------------------------
(* The replay of a screen s, with the newest rows of its history, on a     *)
(* screen t.                                                               *)

\* Mutant: the second half of a glyph is written as the space that it holds.
PaintEvery(t, cell) ==
    IF cell.mark THEN Marked(Printed(t, cell.ch)) ELSE Printed(t, cell.ch)

Painted(t, cell) ==
    IF cell.w = 0 THEN t
    ELSE IF cell.mark THEN Marked(Printed(t, cell.ch)) ELSE Printed(t, cell.ch)

\* Trailing blanks are not written.
ReplayedWidth(line) ==
    LET shown == {i \in DOMAIN line : line[i].ch # " "} IN
    IF shown = {} THEN 0 ELSE CHOOSE i \in shown : \A j \in shown : j <= i

NewLine(t) == LineFed(Returned(t))

HistoryRow(t, line) == NewLine(FoldLeft(Painted, t, SubSeq(line, 1, ReplayedWidth(line))))

History(t, lines) ==
    LET laid == FoldLeft(HistoryRow, CursorSet(ErasedAll(t), 0, 0), lines) IN
    FoldLeft(LAMBDA u, i : NewLine(u), laid, [i \in 1..t.rows - 1 |-> i])

Replay(s, newest, t) ==
    LET lines   == IF s.alt THEN <<>> ELSE SubSeq(s.history, Len(s.history) - newest + 1, Len(s.history))
        reset   == Primary(ResetSoft(t), 1049)
        chosen  == IF s.alt THEN Alternate(reset, 1049) ELSE reset
        scrolled == IF lines = <<>> THEN chosen ELSE History(chosen, lines)
        RowPainted(u, i) == FoldLeft(Painted, CursorSet(u, i - 1, 0), Page(s)[i])
        painted == FoldLeft(RowPainted, CursorSet(ErasedAll(scrolled), 0, 0), [i \in 1..s.rows |-> i])
    IN CursorSet(painted, s.row, s.col)
-----------------------------------------------------------------------------
ScreenInit == \E size \in Sizes : g = Fresh(size[1], size[2]) /\ ops = 0

Fed(s) == ops < MaxOps /\ ops' = ops + 1 /\ g' = s

Show    == \/ \E ch \in Glyphs : Fed(Printed(g, ch))
           \/ Fed(Printed(g, " ")) \/ Fed(Repeated(g))
Mark    == Fed(Marked(g))
Control == Fed(LineFed(Unwrapped(g))) \/ Fed(Returned(g)) \/ Fed(BackSpaced(g)) \/ Fed(Tabbed(g))
Escape  == \/ Fed(LineFed(g)) \/ Fed([LineFed(g) EXCEPT !.col = 0]) \/ Fed(ReverseIndexed(g))
           \/ Fed(Saved(g)) \/ Fed(Restored(g)) \/ Fed(ResetHard(g))
Move    == \/ \E r \in 0..g.rows - 1, c \in 0..g.cols - 1 : Fed(CursorSet(g, r, c))
           \/ Fed(Risen(g)) \/ Fed(Restored(Unwrapped(g))) \/ Fed(Saved(Unwrapped(g)))
Erase   == \/ Fed(ErasedBelow(g)) \/ Fed(ErasedAbove(g)) \/ Fed(ErasedAll(g))
           \/ Fed(Erased(g, g.col, g.cols)) \/ Fed(Erased(g, 0, g.col)) \/ Fed(Erased(g, 0, g.cols))
           \/ Fed(Erased(g, g.col, g.col))
Shift   == Fed(CellInserted(g)) \/ Fed(CellDeleted(g)) \/ Fed(LineInserted(g)) \/ Fed(LineDeleted(g))
Scroll  == \/ Fed(ScrolledUp(Unwrapped(g))) \/ Fed(ScrolledDown(g))
           \/ \E top, bottom \in 0..g.rows - 1 : Fed(Region(g, top, bottom))
Mode    == \/ \E mode \in {47, 1047, 1049} : Fed(Alternate(g, mode)) \/ Fed(Primary(g, mode))
           \/ \E on \in BOOLEAN : Fed(InsertMode(g, on))
           \/ Fed(ResetSoft(g))
Resize  == \E size \in Sizes : Fed(Resized(g, size[1], size[2]))

ScreenNext == Show \/ Mark \/ Control \/ Escape \/ Move \/ Erase \/ Shift \/ Scroll \/ Mode \/ Resize

ScreenSpec == ScreenInit /\ [][ScreenNext]_screenVars
-----------------------------------------------------------------------------
(* Properties.                                                             *)

\* Lines that are inserted and removed leave both pages their size, the cursor is
\* on the screen and the region in it, so that no later sequence misses a line.
ScreenTypeOK ==
    /\ <<g.rows, g.cols>> \in Sizes
    /\ \A page \in {g.primary, g.alternate} :
         /\ Len(page) = g.rows
         /\ \A i \in DOMAIN page : Len(page[i]) = g.cols /\ \A j \in 1..g.cols : page[i][j] \in Cells
    /\ {g.row, g.top, g.bottom} \subseteq 0..g.rows - 1 /\ g.col \in 0..g.cols - 1
    /\ Len(g.history) <= HistoryCap /\ {g.alt, g.wrap, g.insert} \subseteq BOOLEAN

\* Both halves of every wide glyph are there, and marks are on first halves.
LineIsWhole(line) ==
    \A i \in DOMAIN line :
       /\ line[i].w = 2 => i < Len(line) /\ line[i + 1].w = 0
       /\ line[i].w = 0 => i > 1 /\ line[i - 1].w = 2 /\ ~line[i].mark

IsWhole(page) == \A i \in DOMAIN page : LineIsWhole(page[i])

\* Overwriting, wrapping and marking keep glyphs whole on a screen of whole glyphs
\* (the insert mode, erasing and shifting may split them, as may a resize).
WritingKeepsGlyphsWhole ==
    g.cols > 1 /\ ~g.insert /\ IsWhole(Page(g)) =>
       /\ \A ch \in Glyphs \cup {" "} : IsWhole(Page(Printed(g, ch)))
       /\ IsWhole(Page(Marked(g)))

\* What moves lines in the region leaves the lines below it alone, except for the
\* scroll of the primary screen.
LinesBelowRegionStay ==
    g.top <= g.bottom =>
       \A s \in {ReverseIndexed(g), ScrolledDown(g), LineInserted(g), LineDeleted(g)}
                 \cup (IF g.alt THEN {LineFed(g), ScrolledUp(g)} ELSE {}) :
          \A r \in g.bottom + 1..g.rows - 1 : Line(s, r) = Line(g, r)

\* After any sequence of operations, resets and resizes the pages still have the screen's
\* size, and what moves lines in the region moves none that is below it.
LinesAreKept == ScreenTypeOK /\ LinesBelowRegionStay

\* A region scrolls within itself (violated on the primary screen: the blank line
\* goes in below the region, and a line from below comes in).
ScrollStaysInRegion ==
    g.top <= g.bottom => \A r \in g.bottom + 1..g.rows - 1 : Line(ScrolledUp(g), r) = Line(g, r)

\* The rows of the history have the screen's width and whole glyphs, and no marks on
\* blanks (those at the end of a row are not replayed).
HistoryFits ==
    /\ ~g.alt /\ IsWhole(g.history)
    /\ \A i \in DOMAIN g.history :
          Len(g.history[i]) = g.cols
          /\ \A j \in 1..g.cols : g.history[i][j].ch = " " => ~g.history[i][j].mark

\* A fresh screen that is fed the replay of a snapshot shows the screen, and has its
\* cursor, when its glyphs are whole; and it has the rows of the history that the
\* snapshot keeps, when those fit.
ReplayIsFaithful ==
    IsWhole(Page(g)) =>
       \A newest \in 0..Len(g.history) :
          LET t == Replay(g, newest, Fresh(g.rows, g.cols)) IN
          /\ Page(t) = Page(g) /\ <<t.alt, t.row, t.col>> = <<g.alt, g.row, g.col>>
          /\ HistoryFits =>
               t.history = SubSeq(g.history, Len(g.history) - newest + 1, Len(g.history))
=============================================================================
