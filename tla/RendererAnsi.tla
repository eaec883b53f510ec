---------------------------- MODULE RendererAnsi ----------------------------
(***************************************************************************)
(* Cells and the diff encoder (renderer_internal.h, renderer_ansi.c,       *)
(* renderer_ansi_measure.c, renderer_ansi_encode.c).  A batch is the       *)
(* sequence of control sequences and characters it consists of; their      *)
(* bytes matter only to the encoder's choices, which go by their sizes.    *)
(***************************************************************************)
EXTENDS Integers, Sequences, SequencesExt

CONSTANTS
  Ascii,           \* printable codepoints up to '~', the space among them
  NonAscii,        \* printable codepoints above it
  Unprintable,     \* what no cell may hold: controls, surrogates
  Space,
  Styles,          \* a style with its two colours
  Plain,           \* no style, default colours
  StyleSize        \* the size of the sequence that selects a style

ASSUME RendererAnsiConstants ==
  /\ Space \in Ascii /\ Plain \in Styles
  /\ Ascii \cap NonAscii = {} /\ (Ascii \cup NonAscii) \cap Unprintable = {}
  /\ StyleSize \in [Styles -> Nat \ {0}]

Cell(glyph, style) == [glyph |-> glyph, style |-> style]
CellDefault == Cell(Space, Plain)
CellIsValid(cell) == cell.glyph \notin Unprintable

\* Buffers are flat: cell <<row, column>>, from 1, of a surface that is width wide.
Index(width, row, column) == (row - 1) * width + column
FillCells(count, cell) == [i \in 1..count |-> cell]

\* What the batch consists of.
ResetTok            == [op |-> "reset"]
ClearTok            == [op |-> "clear"]
CursorTok(row, col) == [op |-> "cursor", row |-> row, column |-> col]
StyleTok(style)     == [op |-> "style", style |-> style]
GlyphTok(glyph)     == [op |-> "glyph", glyph |-> glyph]
HomeTok             == CursorTok(1, 1)

Digits(n) == IF n < 10 THEN 1 ELSE IF n < 100 THEN 2 ELSE IF n < 1000 THEN 3 ELSE 4
CursorSize(row, column) == 4 + Digits(row) + Digits(column)

NeedsOutput(r, i) ==
  (IF r.invalidated THEN CellDefault ELSE r.front[i]) # r.back[i]

NextChanged(r, row, column) ==
  CHOOSE c \in column..r.width + 1 :
    /\ c = r.width + 1 \/ NeedsOutput(r, Index(r.width, row, c))
    /\ \A d \in column..c - 1 : ~NeedsOutput(r, Index(r.width, row, d))

\* How many cells from column on go out as one ASCII span.
AsciiRunLength(r, row, column, style) ==
  LET InRun(c) == LET i == Index(r.width, row, c) IN
                  /\ NeedsOutput(r, i)
                  /\ r.back[i].glyph \in Ascii
                  /\ r.back[i].style = style
  IN CHOOSE n \in 0..r.width - column + 1 :
       /\ \A c \in column..column + n - 1 : InRun(c)
       /\ column + n = r.width + 1 \/ ~InRun(column + n)

(* What a cell adds to the bytes written, and the style it leaves active. *)
CellCost(cell, e, with_codepoint) ==
  LET styled == e.style_known /\ cell.style = e.active_style IN
  [e EXCEPT !.cost = @ + (IF styled THEN 0 ELSE StyleSize[cell.style])
                       + (IF with_codepoint THEN 1 ELSE 0),
            !.active_style = cell.style, !.style_known = TRUE]

GapIsCheaper_Always(r, row, gap_start, next_changed, e) ==
  /\ e.ascii_width
  /\ \A c \in gap_start..next_changed - 1 : r.back[Index(r.width, row, c)].glyph \in Ascii

\* Is writing the unchanged cells up to next_changed cheaper than moving the cursor there?
GapIsCheaper(r, row, gap_start, next_changed, e) ==
  LET next    == r.back[Index(r.width, row, next_changed)]
      gap     == [n \in 1..next_changed - gap_start |->
                    r.back[Index(r.width, row, gap_start + n - 1)]]
      restart == CursorSize(row, next_changed) + StyleSize[next.style]
      bridged == FoldLeft(LAMBDA s, cell : CellCost(cell, s, TRUE),
                          [cost |-> 0, style_known |-> e.style_known,
                           active_style |-> e.active_style], gap)
  IN /\ e.ascii_width
     /\ CellIsValid(next)
     /\ \A n \in DOMAIN gap : gap[n].glyph \in Ascii
     /\ CellCost(next, bridged, FALSE).cost < restart
-----------------------------------------------------------------------------
\* build_ansi.  e.column is the loop's column; a row is encoded column by column,
\* and a column a span has already taken is passed over.

Append1(e, tok) == [e EXCEPT !.batch = Append(@, tok)]

StartSpan(row, e) ==
  [Append1(e, CursorTok(row, e.column)) EXCEPT
     !.style_known = FALSE, !.ascii_width = TRUE,
     !.bridge_until = e.column, !.running = TRUE]

\* The bytes of one cell, or of the run of cells that starts with it.
EmitCells(r, row, e) ==
  LET cell   == r.back[Index(r.width, row, e.column)]
      change == ~e.style_known \/ cell.style # e.active_style
      styled == IF change
                THEN [Append1(e, StyleTok(cell.style)) EXCEPT
                        !.active_style = cell.style, !.style_known = TRUE]
                ELSE e
      run    == IF NeedsOutput(r, Index(r.width, row, e.column))
                THEN AsciiRunLength(r, row, e.column, styled.active_style) ELSE 0
      taken  == IF run > 1 THEN run ELSE 1
      glyphs == [n \in 1..taken |->
                   GlyphTok(r.back[Index(r.width, row, e.column + n - 1)].glyph)]
      wide   == cell.glyph \notin Ascii
  IN [styled EXCEPT !.batch = @ \o glyphs, !.emitted = TRUE, !.column = @ + taken,
                    !.ascii_width = @ /\ ~wide, !.running = ~wide]
EncodeCell(r, row, e) ==
  IF CellIsValid(r.back[Index(r.width, row, e.column)])
  THEN EmitCells(r, row, e)
  ELSE [e EXCEPT !.status = "format"]

EncodeColumn(r, row, e, column) ==
  LET needs   == NeedsOutput(r, Index(r.width, row, column))
      next    == NextChanged(r, row, column + 1)
      skipped == [e EXCEPT !.column = column + 1, !.running = FALSE]
  IN IF e.status # "ok" \/ e.column > column THEN e
     ELSE IF needs THEN EncodeCell(r, row, IF e.running THEN e ELSE StartSpan(row, e))
     ELSE IF ~e.running THEN skipped
     ELSE IF column < e.bridge_until THEN EncodeCell(r, row, e)
     ELSE IF next = r.width + 1 \/ ~GapIsCheaper(r, row, column, next, e) THEN skipped
     ELSE EncodeCell(r, row, [e EXCEPT !.bridge_until = next])

EncodeRow(r, e, row) ==
  FoldLeft(LAMBDA s, column : EncodeColumn(r, row, s, column),
           [e EXCEPT !.column = 1, !.running = FALSE],
           [column \in 1..r.width |-> column])

Prologue(r) == IF r.invalidated THEN <<ResetTok, ClearTok, HomeTok>> ELSE <<>>

BuildAnsi(r) ==
  LET start == [batch |-> Prologue(r), status |-> "ok", emitted |-> FALSE,
                column |-> 1, running |-> FALSE, bridge_until |-> 1,
                active_style |-> Plain, style_known |-> FALSE, ascii_width |-> TRUE]
      rows  == FoldLeft(LAMBDA e, row : EncodeRow(r, e, row), start,
                        [row \in 1..r.height |-> row])
  IN IF rows.status = "ok" /\ rows.emitted THEN Append1(rows, ResetTok) ELSE rows
=============================================================================
