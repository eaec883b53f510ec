------------------------------ MODULE Renderer ------------------------------
(***************************************************************************)
(* A renderer, the application that draws on it, and the terminal its      *)
(* batches go to (renderer.c, renderer_draw.c, renderer_resize.c).  front  *)
(* is what the renderer believes the terminal shows: a cache that only a   *)
(* complete write brings up to date.  A write may stop after any prefix of *)
(* the batch, and the window may change at any time, also between the      *)
(* moment Present reads its size and the moment it writes.                 *)
(***************************************************************************)
EXTENDS RendererAnsi, FiniteSets

CONSTANTS
  Applications,    \* who draws, and on which window
  MaxCells,        \* AFORC_RENDERER_MAX_CELLS
  Width            \* the columns the terminal gives a codepoint

\* Bytes of a text that are not printable ASCII.
Newline == "newline"    Return == "return"    Control == "control"    High == "high"

Size(width, height) == [width |-> width, height |-> height]
CellCount(size) == size.width * size.height

ASSUME RendererConstants ==
  /\ \A g \in Ascii : Width[g] = 1
  /\ \A g \in NonAscii : Width[g] \in 0..2
  /\ \A user \in Applications :
       /\ user.first \in user.windows          \* the first size, of renderer and window
       /\ CellCount(user.first) \in 1..MaxCells
       /\ \A size \in user.windows : size.width > 0 /\ size.height > 0
       /\ user.faults \in Nat                  \* bound: failed writes and allocations,
                                               \* and changes of the window
       \* What it passes to the calls: surfaces to resize; cells, points, rects and
       \* texts to the drawing calls; raw, cells it writes through back_buffer.
       /\ {"surfaces", "cells", "points", "rects", "texts", "raw"} \subseteq DOMAIN user

VARIABLES
  app,             \* one of Applications
  renderer,        \* AFORC_Renderer
  status,          \* what the last call returned
  writing,         \* the batch Present is about to write, <<>> outside of Present
  terminal,        \* the window, its cells, cursor and active style
  faults,          \* how many bounded things have happened
  screen_is,       \* what the screen is known to show; not in the code:
                   \* "front", "torn" (front, parts of tried over it), "unknown"
  tried,           \* the only frame torn writes were of; not in the code
  spoiled          \* cells a glyph of another width may have touched; not in the code

rendererVars == <<app, renderer, status, writing, terminal, faults, screen_is, tried, spoiled>>

-----------------------------------------------------------------------------
(* The terminal, with automatic wrapping off as terminal_io.c leaves it.  A  *)
(* cell that a glyph of another width touches looks Odd.                     *)

Odd == [glyph |-> "odd", style |-> Plain]
Smaller(a, b) == IF a < b THEN a ELSE b

BlankCells(size, style) ==
  [at \in (1..size.height) \X (1..size.width) |-> Cell(Space, style)]

PrintGlyph(t, glyph) ==
  LET here == <<t.row, t.column>>
      touched == CASE Width[glyph] = 0 -> {<<t.row, t.column - 1>>}
                   [] Width[glyph] = 1 -> {}
                   [] Width[glyph] = 2 -> {<<t.row, t.column + 1>>}
      shown == IF Width[glyph] = 0 THEN t.cells[here] ELSE Cell(glyph, t.style)
  IN [t EXCEPT
        !.cells  = [at \in DOMAIN @ |-> IF at \in touched THEN Odd
                                        ELSE IF at = here THEN shown ELSE @[at]],
        !.column = Smaller(@ + Width[glyph], t.size.width)]

Obey(t, tok) ==
  CASE tok.op = "reset"  -> [t EXCEPT !.style = Plain]
    [] tok.op = "style"  -> [t EXCEPT !.style = tok.style]
    [] tok.op = "clear"  -> [t EXCEPT !.cells = BlankCells(t.size, t.style)]
    [] tok.op = "cursor" -> [t EXCEPT !.row = Smaller(tok.row, t.size.height),
                                      !.column = Smaller(tok.column, t.size.width)]
    [] tok.op = "glyph"  -> PrintGlyph(t, tok.glyph)

ObeyAll(t, batch) == FoldLeft(Obey, t, batch)

-----------------------------------------------------------------------------
(* The drawing calls, on the flat back buffer.                               *)

OnSurface(r, x, y) == x \in 0..r.width - 1 /\ y \in 0..r.height - 1
Offset(r, x, y) == Index(r.width, y + 1, x + 1)

DrawClear(r, cell) ==
  [r EXCEPT !.back = FillCells(Len(@), cell)]

DrawPut(r, at, cell) ==
  IF OnSurface(r, at[1], at[2])
  THEN [r EXCEPT !.back[Offset(r, at[1], at[2])] = cell] ELSE r

DrawFillRect(r, rect, cell) ==
  LET columns == (IF rect.x < 0 THEN 0 ELSE rect.x)
                   ..Smaller(rect.x + rect.width, r.width) - 1
      rows    == (IF rect.y < 0 THEN 0 ELSE rect.y)
                   ..Smaller(rect.y + rect.height, r.height) - 1
      filled  == {Offset(r, x, y) : x \in columns, y \in rows}
  IN [r EXCEPT !.back = [i \in DOMAIN @ |-> IF i \in filled THEN cell ELSE @[i]]]

\* One byte of draw_ascii; d is the surface and the cursor.
DrawByte(d, byte, origin, cell) ==
  CASE byte = Newline -> [d EXCEPT !.x = origin, !.y = @ + 1]
    [] byte = Return  -> [d EXCEPT !.x = origin]
    [] OTHER ->
         LET glyph == IF byte = Control THEN Space ELSE byte
         IN [d EXCEPT !.r = DrawPut(@, <<d.x, d.y>>, Cell(glyph, cell.style)),
                      !.x = @ + 1]

DrawText(r, at, text, cell) ==
  FoldLeft(LAMBDA d, byte : DrawByte(d, byte, at[1], cell),
           [r |-> r, x |-> at[1], y |-> at[2]], text).r

\* Mutant: rows are copied as if both surfaces had one stride.
Resized_OneStride(r, size) ==
  [width  |-> size.width, height |-> size.height, invalidated |-> TRUE,
   front  |-> FillCells(CellCount(size), CellDefault),
   back   |-> [i \in 1..CellCount(size) |->
                 IF i <= Len(r.back) THEN r.back[i] ELSE CellDefault]]
\* New buffers of another size: the front blank, the overlap of the back kept.
Resized(r, size) ==
  LET copied == [width  |-> Smaller(r.width, size.width),
                 height |-> Smaller(r.height, size.height)]
      row(i)    == (i - 1) \div size.width + 1
      column(i) == ((i - 1) % size.width) + 1
  IN [width  |-> size.width, height |-> size.height, invalidated |-> TRUE,
      front  |-> FillCells(CellCount(size), CellDefault),
      back   |-> [i \in 1..CellCount(size) |->
                    IF row(i) <= copied.height /\ column(i) <= copied.width
                    THEN r.back[Index(r.width, row(i), column(i))]
                    ELSE CellDefault]]

SameSize(r, size) == r.width = size.width /\ r.height = size.height

-----------------------------------------------------------------------------
\* Cells in reach of a glyph that is not one column wide.
Near(r) ==
  {at \in (1..r.height) \X (1..r.width) :
     \E c \in at[2] - 1..at[2] + 1 :
       /\ c \in 1..r.width
       /\ r.back[Index(r.width, at[1], c)].glyph \in NonAscii
       /\ Width[r.back[Index(r.width, at[1], c)].glyph] # 1}

Init ==
  /\ app \in Applications
  /\ renderer = [width |-> app.first.width, height |-> app.first.height,
                 front |-> FillCells(CellCount(app.first), CellDefault),
                 back |-> FillCells(CellCount(app.first), CellDefault), invalidated |-> TRUE]
  /\ status = "ok"
  /\ writing = <<>>
  /\ terminal = [size |-> app.first, cells |-> BlankCells(app.first, Plain),
                 row |-> 1, column |-> 1, style |-> Plain]
  /\ faults = 0
  /\ screen_is = "unknown" /\ tried = <<>> /\ spoiled = {}

\* A call that only draws: the screen, and what is known of it, stay.
Draw(drawn, result) ==
  /\ writing = <<>>
  /\ renderer' = drawn /\ status' = result
  /\ UNCHANGED <<writing, terminal, faults, screen_is, tried, spoiled>>

Rejected == Draw(renderer, "invalid_argument")

Clear(cell) ==
  IF CellIsValid(cell) THEN Draw(DrawClear(renderer, cell), "ok") ELSE Rejected

Put(at, cell) ==
  IF CellIsValid(cell) THEN Draw(DrawPut(renderer, at, cell), "ok") ELSE Rejected

FillRect(rect, cell) ==
  IF CellIsValid(cell) THEN Draw(DrawFillRect(renderer, rect, cell), "ok") ELSE Rejected

DrawAscii(at, text, cell) ==
  IF CellIsValid(cell) /\ High \notin ToSet(text)
  THEN Draw(DrawText(renderer, at, text, cell), "ok") ELSE Rejected

\* The application writes through the pointer of back_buffer: no cell is checked.
WriteBack(i, cell) ==
  /\ i \in DOMAIN renderer.back
  /\ Draw([renderer EXCEPT !.back[i] = cell], "ok")

Invalidate == Draw([renderer EXCEPT !.invalidated = TRUE], status)

\* What is known of the screen once the renderer is r, nothing being written.
Follow(r) ==
  IF SameSize(renderer, r) THEN UNCHANGED <<screen_is, tried, spoiled>>
  ELSE screen_is' = "unknown" /\ tried' = <<>> /\ UNCHANGED spoiled

\* What resize may make of a renderer, and the status it returns.
ResizeOutcomes(r, size) ==
  LET Outcome(to, result, fault) == [to |-> to, status |-> result, fault |-> fault] IN
  CASE SameSize(r, size) -> {Outcome(r, "ok", FALSE)}
    [] ~SameSize(r, size) /\ (size.width <= 0 \/ size.height <= 0) ->
         {Outcome(r, "invalid_argument", FALSE)}
    [] ~SameSize(r, size) /\ size.width > 0 /\ size.height > 0 ->
         IF CellCount(size) > MaxCells THEN {Outcome(r, "limit", FALSE)}
         ELSE {Outcome(Resized(r, size), "ok", FALSE), Outcome(r, "no_memory", TRUE)}

Counted(fault) == IF fault THEN faults < app.faults /\ faults' = faults + 1
                           ELSE faults' = faults

Resize(size) ==
  /\ writing = <<>>
  /\ \E o \in ResizeOutcomes(renderer, size) :
       renderer' = o.to /\ status' = o.status /\ Counted(o.fault) /\ Follow(o.to)
  /\ UNCHANGED <<writing, terminal>>

\* The renderer after a batch is written: front advances, the repaint is over.
Committed(r) == [r EXCEPT !.front = r.back, !.invalidated = FALSE]

\* What is known of the screen once a batch made from r is on it.
Learn(r) ==
  LET shown == /\ SameSize(r, terminal.size)
               /\ \/ r.invalidated \/ screen_is = "front"
                  \/ screen_is = "torn" /\ tried = r.back
  IN /\ screen_is' = IF shown THEN "front" ELSE "unknown"
     /\ tried' = <<>>
     /\ spoiled' = Near(r) \cup (IF r.invalidated THEN {} ELSE spoiled)

\* Present up to the write: read the window, follow it, build the batch.
PresentBegin ==
  /\ writing = <<>>
  /\ \E o \in ResizeOutcomes(renderer, terminal.size) :
       LET built  == BuildAnsi(o.to)
           result == IF o.status = "ok" THEN built.status ELSE o.status
       IN /\ renderer' = o.to /\ Counted(o.fault) /\ status' = result
          /\ \/ result # "ok" /\ writing' = <<>> /\ Follow(o.to)
             \/ result = "ok" /\ built.batch = <<>> /\ writing' = <<>>
                /\ Learn(o.to)
             \/ result = "ok" /\ built.batch # <<>> /\ writing' = built.batch
                /\ Follow(o.to)
  /\ UNCHANGED terminal

\* The size cannot be read, or the batch cannot grow: nothing is written.
PresentFails ==
  /\ writing = <<>> /\ Counted(TRUE)
  /\ \/ status' = "io" /\ renderer' = renderer /\ Follow(renderer)
     \/ \E o \in {q \in ResizeOutcomes(renderer, terminal.size) : q.status = "ok"} :
          status' = "no_memory" /\ renderer' = o.to /\ Follow(o.to)
  /\ UNCHANGED <<writing, terminal>>

\* The whole batch goes out.
WriteAll ==
  /\ writing # <<>>
  /\ terminal' = ObeyAll(terminal, writing)
  /\ renderer' = Committed(renderer)
  /\ writing' = <<>> /\ status' = "ok"
  /\ Learn(renderer)
  /\ UNCHANGED faults

\* The write fails after the first n parts of the batch: front stays what it was.
WriteFails_Commits(n) ==
  /\ n < Len(writing) /\ Counted(TRUE)
  /\ terminal' = ObeyAll(terminal, SubSeq(writing, 1, n))
  /\ renderer' = Committed(renderer)
  /\ writing' = <<>> /\ status' = "io"
  /\ UNCHANGED <<screen_is, tried, spoiled>>

WriteFails(n) ==
  /\ n < Len(writing) /\ Counted(TRUE)
  /\ terminal' = ObeyAll(terminal, SubSeq(writing, 1, n))
  /\ writing' = <<>> /\ status' = "io"
  /\ IF n = 0 THEN UNCHANGED <<screen_is, tried, spoiled>>
     ELSE LET same == /\ ~renderer.invalidated
                      /\ \/ screen_is = "front"
                         \/ screen_is = "torn" /\ tried = renderer.back
          IN /\ screen_is' = IF same THEN "torn" ELSE "unknown"
             /\ tried' = IF same THEN renderer.back ELSE <<>>
             /\ spoiled' = spoiled \cup Near(renderer)
  /\ UNCHANGED renderer

\* The user resizes the window: cells outside are lost, new ones are blank.
WindowResize(size) ==
  /\ size # terminal.size
  /\ Counted(TRUE)
  /\ terminal' = [terminal EXCEPT
       !.size = size,
       !.cells = [at \in DOMAIN BlankCells(size, Plain) |->
                    IF at \in DOMAIN @ THEN @[at] ELSE CellDefault],
       !.row = Smaller(@, size.height), !.column = Smaller(@, size.width)]
  /\ screen_is' = "unknown" /\ tried' = <<>>
  /\ UNCHANGED <<renderer, status, writing, spoiled>>

Next ==
  /\ \/ \E cell \in app.cells : Clear(cell)
     \/ \E at \in app.points, cell \in app.cells : Put(at, cell)
     \/ \E rect \in app.rects, cell \in app.cells : FillRect(rect, cell)
     \/ \E at \in app.points, text \in app.texts, cell \in app.cells : DrawAscii(at, text, cell)
     \/ \E i \in 1..MaxCells, cell \in app.raw : WriteBack(i, cell)
     \/ Invalidate
     \/ \E size \in app.surfaces : Resize(size)
     \/ PresentBegin
     \/ PresentFails
     \/ WriteAll
     \/ \E n \in 0..Len(writing) : WriteFails(n)
     \/ \E size \in app.windows : WindowResize(size)
  /\ app' = app

Spec == Init /\ [][Next]_rendererVars

-----------------------------------------------------------------------------
(* Properties.                                                               *)

FrontAt(at) == renderer.front[Index(renderer.width, at[1], at[2])]
TriedAt(at) == tried[Index(renderer.width, at[1], at[2])]

(* The encoder and the buffers (renderer_ansi.c, aforc_renderer_present):    *)
(* after a repaint, and after any diffs written whole on top of it, the      *)
(* terminal shows the front buffer, cell for cell and style for style.  A    *)
(* torn write leaves each cell as it was or as the torn frame had it, so     *)
(* that presenting that same frame again mends the screen: the comment at    *)
(* the end of present.  Only what a glyph of another width touches may look  *)
(* different, and never a cell further away.                                 *)
ScreenShowsFront ==
  /\ screen_is # "unknown" => SameSize(renderer, terminal.size)
  /\ \A at \in DOMAIN terminal.cells \ spoiled :
       /\ screen_is = "front" => terminal.cells[at] = FrontAt(at)
       /\ screen_is = "torn"  => terminal.cells[at] \in {FrontAt(at), TriedAt(at)}

(* Writing over unchanged cells (ansi_gap_is_cheaper) never makes a batch    *)
(* longer than going to every changed cell on its own.                       *)
TokSize(tok) ==
  CASE tok.op = "cursor" -> CursorSize(tok.row, tok.column)
    [] tok.op = "style"  -> StyleSize[tok.style]
    [] tok.op = "glyph"  -> 1
    [] OTHER             -> 0

CellByCell(r, at) ==
  LET i == Index(r.width, at[1], at[2]) IN
  IF NeedsOutput(r, i)
  THEN CursorSize(at[1], at[2]) + StyleSize[r.back[i].style] + 1 ELSE 0

BridgesPay ==
  writing # <<>> =>
    LET home == IF renderer.invalidated THEN CursorSize(1, 1) ELSE 0 IN
    FoldLeft(LAMBDA sum, tok : sum + TokSize(tok), 0, writing) <=
      FoldLeft(LAMBDA sum, at : sum + CellByCell(renderer, at), home,
               [i \in 1..Len(renderer.back) |->
                  <<((i - 1) \div renderer.width) + 1, ((i - 1) % renderer.width) + 1>>])

(* The drawing calls (renderer_draw.c) change exactly the cells of the       *)
(* surface that they name, at any position: a rectangle the cells inside     *)
(* it, a text the cell each printing byte falls on, the last one to fall     *)
(* there.  Nothing wraps into another row.                                   *)
BackAt(r, x, y) == r.back[Offset(r, x, y)]

\* Where the n-th byte of a text falls.
LineStarts(text, n) == {i \in 1..n - 1 : text[i] \in {Newline, Return}}
ByteAt(at, text, n) ==
  LET start == CHOOSE i \in {0} \cup LineStarts(text, n) :
                 \A j \in LineStarts(text, n) : j <= i
  IN <<at[1] + (n - 1 - start), at[2] + Cardinality({i \in 1..n - 1 : text[i] = Newline})>>

FallsOn(at, text, x, y) ==
  {n \in DOMAIN text : text[n] \notin {Newline, Return} /\ ByteAt(at, text, n) = <<x, y>>}

DrawingsClip ==
  \A x \in 0..renderer.width - 1, y \in 0..renderer.height - 1, cell \in app.cells :
    /\ \A rect \in app.rects :
         BackAt(DrawFillRect(renderer, rect, cell), x, y) =
           IF x \in rect.x..rect.x + rect.width - 1 /\ y \in rect.y..rect.y + rect.height - 1
           THEN cell ELSE BackAt(renderer, x, y)
    /\ \A at \in app.points, text \in app.texts :
         LET fell  == FallsOn(at, text, x, y)
             last  == CHOOSE n \in fell : \A m \in fell : m <= n
             glyph == IF text[last] = Control THEN Space ELSE text[last]
         IN BackAt(DrawText(renderer, at, text, cell), x, y) =
              IF fell = {} THEN BackAt(renderer, x, y) ELSE Cell(glyph, cell.style)

(* A renderer that changes its size (aforc_renderer_resize, whose rows are   *)
(* copied from one stride to another) keeps every cell both surfaces have.   *)
ResizeKeepsOverlap ==
  [][\A x \in 0..renderer.width - 1, y \in 0..renderer.height - 1 :
       ~SameSize(renderer, renderer') /\ OnSurface(renderer', x, y) =>
         BackAt(renderer', x, y) = BackAt(renderer, x, y)]_rendererVars

\* Drawing and resizing put every cell where its coordinates say, and no other.
SurfaceIsExact == []DrawingsClip /\ ResizeKeepsOverlap
=============================================================================
