------------------------------- MODULE UiDraw -------------------------------
(***************************************************************************)
(* Layout and drawing of the user interface (layout.c, canvas.c,           *)
(* widgets.c, controls.c): rectangles along an axis, and widgets plotted   *)
(* cell by cell through a canvas that only narrows.  A rectangle is        *)
(* [x, y, width, height]; what a widget plots is a sequence of             *)
(* [x, y, glyph], and a plot callback that fails cuts it short.            *)
(***************************************************************************)
EXTENDS Integers, Sequences

CONSTANTS
  Int32Limit,     \* 2^31
  MultiplierBits, \* the bits of a width, 32
  Canvases,       \* the rectangles canvases are made of
  Widgets,        \* the widgets that are drawn
  LayoutBounds,   \* the rectangles that are laid out
  MaxClips,       \* bounds the canvases that are nested
  MaxPanes        \* bounds the panes of a layout

ASSUME DrawConstants == Int32Limit \in Nat \ {0} /\ MultiplierBits \in Nat \ {0}
ASSUME WidgetConstants == MaxClips \in Nat /\ MaxPanes \in Nat

VARIABLES
  clips,          \* the rectangles of the canvases the application nests, outermost first
  canvas,         \* the clip of the innermost canvas
  drawing,        \* the last draw call: the widget, the canvases and what was plotted
  layout,         \* a sequential layout [bounds, axis, gap, cursor]
  panes           \* the panes it handed out, in order

drawVars == <<clips, canvas, drawing, layout, panes>>

Lesser(a, b)  == IF a < b THEN a ELSE b
Greater(a, b) == IF a > b THEN a ELSE b

RectValid(rect) ==
  /\ rect.width >= 0 /\ rect.height >= 0
  /\ rect.x + rect.width <= Int32Limit /\ rect.y + rect.height <= Int32Limit

InRect(rect, p) ==
  p.x \in rect.x..rect.x + rect.width - 1 /\ p.y \in rect.y..rect.y + rect.height - 1

-----------------------------------------------------------------------------
\* layout.c.  An axis is "row" or "column"; a pane is a part of it.
StartOf(bounds, axis)  == IF axis = "row" THEN bounds.x ELSE bounds.y
ExtentOf(bounds, axis) == IF axis = "row" THEN bounds.width ELSE bounds.height

Pane(bounds, axis, offset, extent) ==
  IF StartOf(bounds, axis) + offset >= Int32Limit THEN [status |-> "overflow"]
  ELSE [status |-> "ok",
        rect |-> IF axis = "row"
                 THEN [bounds EXCEPT !.x = @ + offset, !.width = extent]
                 ELSE [bounds EXCEPT !.y = @ + offset, !.height = extent]]

\* aforc_ui_layout_next: the pane, and where the cursor goes.
LayoutNext(bounds, axis, gap, cursor, extent) ==
  LET limit == ExtentOf(bounds, axis)
      pane  == Pane(bounds, axis, cursor, extent)
      end   == cursor + extent
  IN IF cursor > limit \/ extent > limit - cursor THEN [status |-> "limit", cursor |-> cursor]
     ELSE IF pane.status # "ok" THEN [status |-> pane.status, cursor |-> cursor]
     ELSE [status |-> "ok", rect |-> pane.rect,
           cursor |-> IF end = limit \/ gap > limit - end THEN limit ELSE end + gap]

\* aforc_ui_layout_split: leading panes take one cell each of what is left over.
LayoutSplit(bounds, axis, count, gap, index) ==
  LET limit     == ExtentOf(bounds, axis)
      available == limit - (count - 1) * gap
      base      == available \div count
      remainder == available % count
  IN IF index >= count \/ (gap > 0 /\ count - 1 > limit \div gap) THEN [status |-> "limit"]
     ELSE Pane(bounds, axis, index * base + Lesser(index, remainder) + index * gap,
               base + (IF index < remainder THEN 1 ELSE 0))

\* aforc_ui_layout_anchor: row and column of the anchor are 0, 1 or 2.
LayoutAnchor(bounds, width, height, column, row) ==
  LET Offset(part, free) == CASE part = 0 -> 0 [] part = 1 -> free \div 2 [] part = 2 -> free
      x == bounds.x + Offset(column, bounds.width - width)
      y == bounds.y + Offset(row, bounds.height - height)
  IN IF width > bounds.width \/ height > bounds.height THEN [status |-> "limit"]
     ELSE IF x >= Int32Limit \/ y >= Int32Limit THEN [status |-> "overflow"]
     ELSE [status |-> "ok", rect |-> [x |-> x, y |-> y, width |-> width, height |-> height]]

-----------------------------------------------------------------------------
\* canvas.c
Intersection(first, second) ==
  LET left   == Greater(first.x, second.x)
      top    == Greater(first.y, second.y)
      right  == Greater(left, Lesser(first.x + first.width, second.x + second.width))
      bottom == Greater(top, Lesser(first.y + first.height, second.y + second.height))
  IN [x |-> left, y |-> top, width |-> right - left, height |-> bottom - top]

\* The cells of a rectangle, row by row, with the glyph each gets.
Plots(rect, Glyph(_, _)) ==
  [i \in 1..rect.width * rect.height |->
     LET x == rect.x + ((i - 1) % rect.width)
         y == rect.y + ((i - 1) \div rect.width)
     IN [x |-> x, y |-> y, glyph |-> Glyph(x, y)]]

Fill(clip, rect, glyph) == Plots(Intersection(clip, rect), LAMBDA x, y : glyph)
Plot(clip, x, y, glyph) ==
  IF InRect(clip, [x |-> x, y |-> y]) THEN <<[x |-> x, y |-> y, glyph |-> glyph]>> ELSE <<>>

\* aforc_ui_draw_panel: the border, and the interior if the style fills it.
PanelGlyph(rect, x, y) ==
  LET edgeX == IF x = rect.x THEN "left" ELSE IF x + 1 = rect.x + rect.width THEN "right" ELSE "inner"
      edgeY == IF y = rect.y THEN "top" ELSE IF y + 1 = rect.y + rect.height THEN "bottom" ELSE "inner"
  IN <<edgeY, edgeX>>

Panel(clip, rect, fills) ==
  SelectSeq(Plots(Intersection(clip, rect), LAMBDA x, y : PanelGlyph(rect, x, y)),
            LAMBDA p : fills \/ p.glyph # <<"inner", "inner">>)

LabelStart(rect, length, align) ==
  LET drawn == Lesser(length, rect.width)
  IN CASE align = "start"  -> rect.x
       [] align = "center" -> rect.x + (rect.width - drawn) \div 2
       [] align = "end"    -> rect.x + rect.width - drawn

Label_FromClip(clip, rect, length, align) ==
  LET visible == Intersection(clip, rect)
      start   == LabelStart(visible, length, align)
      first   == Greater(start, visible.x)
      last    == Lesser(start + Lesser(length, visible.width), visible.x + visible.width)
  IN IF length = 0 \/ rect.y < visible.y \/ rect.y >= visible.y + visible.height THEN <<>>
     ELSE Plots([x |-> first, y |-> rect.y, width |-> Greater(last - first, 0), height |-> 1],
                LAMBDA x, y : x - start)

\* aforc_ui_draw_label: a glyph of a text is its index in the text.
Label(clip, rect, length, align) ==
  LET visible == Intersection(clip, rect)
      start   == LabelStart(rect, length, align)
      first   == Greater(start, visible.x)
      last    == Lesser(start + Lesser(length, rect.width), visible.x + visible.width)
  IN IF \/ rect.width = 0 \/ rect.height = 0 \/ length = 0
        \/ rect.y < visible.y \/ rect.y >= visible.y + visible.height THEN <<>>
     ELSE Plots([x |-> first, y |-> rect.y, width |-> Greater(last - first, 0), height |-> 1],
                LAMBDA x, y : x - start)

\* multiply_divide: value * multiplier / divisor, bit by bit, in words no wider.
MultiplyDivide(value, multiplier, divisor) ==
  LET Doubled(s) == IF s.remainder >= divisor - s.remainder
                    THEN [quotient |-> 2 * s.quotient + 1,
                          remainder |-> s.remainder - (divisor - s.remainder)]
                    ELSE [quotient |-> 2 * s.quotient, remainder |-> 2 * s.remainder]
      Added(s) == IF value % divisor >= divisor - s.remainder
                  THEN [quotient |-> s.quotient + (value \div divisor) + 1,
                        remainder |-> s.remainder - (divisor - (value % divisor))]
                  ELSE [quotient |-> s.quotient + (value \div divisor),
                        remainder |-> s.remainder + (value % divisor)]
      Bits[bit \in 0..MultiplierBits] ==
        IF bit = MultiplierBits THEN [quotient |-> 0, remainder |-> 0]
        ELSE IF (multiplier \div 2^bit) % 2 = 1 THEN Added(Doubled(Bits[bit + 1]))
        ELSE Doubled(Bits[bit + 1])
  IN Bits[0].quotient

Progress(clip, rect, value, maximum) ==
  LET filled == MultiplyDivide(Lesser(value, maximum), rect.width, maximum)
  IN Plots(Intersection(clip, rect),
           LAMBDA x, y : IF x - rect.x < filled THEN "filled" ELSE "empty")

Button(clip, rect, length) ==
  Panel(clip, rect, TRUE) \o
    (IF rect.width <= 2 \/ rect.height <= 2 THEN <<>>
     ELSE Label(clip, [x |-> rect.x + 1, y |-> rect.y + (rect.height - 1) \div 2,
                       width |-> rect.width - 2, height |-> 1], length, "center"))

\* aforc_ui_draw_menu: lengths has the length of every label; a row is filled, then
\* the cursor, then the label.
MenuRow(clip, rect, lengths, scroll, selected, row) ==
  LET line == [x |-> rect.x, y |-> rect.y + row, width |-> rect.width, height |-> 1]
      item == scroll + row
  IN Fill(clip, line, IF item = selected THEN "selected" ELSE "normal")
       \o (IF item = selected /\ rect.width > 0 THEN Plot(clip, rect.x, line.y, "cursor") ELSE <<>>)
       \o (IF rect.width > 2
           THEN Label(clip, [line EXCEPT !.x = @ + 2, !.width = @ - 2], lengths[item + 1], "start")
           ELSE <<>>)

Menu(clip, rect, lengths, scroll, selected) ==
  LET visible == Intersection(clip, rect)
      count   == Lesser(Len(lengths) - scroll, rect.height)
      Rows[row \in 0..count] ==
        IF row = 0 THEN <<>>
        ELSE Rows[row - 1] \o MenuRow(visible, rect, lengths, scroll, selected, row - 1)
  IN Rows[count]

\* A text that is not ASCII, of any row that shows, is refused before anything is drawn.
Plotted(clip, widget) ==
  CASE widget.kind = "fill"     -> Fill(clip, widget.rect, "fill")
    [] widget.kind = "panel"    -> Panel(clip, widget.rect, widget.fills)
    [] widget.kind = "label"    -> Label(clip, widget.rect, widget.length, widget.align)
    [] widget.kind = "progress" -> Progress(clip, widget.rect, widget.value, widget.maximum)
    [] widget.kind = "button"   -> Button(clip, widget.rect, widget.length)
    [] widget.kind = "menu"     -> Menu(clip, widget.rect, widget.lengths, widget.scroll,
                                        widget.selected)

\* What a draw call returns, with a callback that fails at plot number fails (0: never).
Drawn(clip, widget, fails) ==
  LET plots == Plotted(clip, widget)
  IN IF ~RectValid(widget.rect) \/ ~widget.ascii THEN [status |-> "invalid", plots |-> <<>>]
     ELSE IF fails \in 1..Len(plots)
     THEN [status |-> "plot", plots |-> SubSeq(plots, 1, fails - 1)]
     ELSE [status |-> "ok", plots |-> plots]

-----------------------------------------------------------------------------
NoDrawing == [widget |-> <<>>, clips |-> <<>>, status |-> "none", plots |-> <<>>]
NoLayout  == [bounds |-> [x |-> 0, y |-> 0, width |-> 0, height |-> 0], axis |-> "row",
              gap |-> 0, cursor |-> 0]

DrawStart ==
  /\ clips = <<>> /\ drawing = NoDrawing /\ layout = NoLayout /\ panes = <<>>
  /\ canvas = NoLayout.bounds

\* aforc_ui_canvas_init
CanvasInit(rect) ==
  /\ RectValid(rect) /\ clips' = <<rect>> /\ canvas' = rect /\ drawing' = NoDrawing
  /\ UNCHANGED <<layout, panes>>

\* aforc_ui_canvas_child: a child narrows its parent.
CanvasChild(rect) ==
  /\ clips # <<>> /\ Len(clips) < MaxClips /\ RectValid(rect)
  /\ clips' = Append(clips, rect) /\ canvas' = Intersection(canvas, rect)
  /\ drawing' = NoDrawing /\ UNCHANGED <<layout, panes>>

\* A draw call leaves nothing behind: one on each canvas shows all of them.
Draw(widget, fails) ==
  LET drawn == Drawn(canvas, widget, fails)
  IN /\ clips # <<>> /\ drawing = NoDrawing
     /\ drawing' = [widget |-> widget, clips |-> clips, status |-> drawn.status,
                    plots |-> drawn.plots]
     /\ UNCHANGED <<clips, canvas, layout, panes>>

LayoutInit(bounds, axis, gap) ==
  /\ RectValid(bounds)
  /\ layout' = [bounds |-> bounds, axis |-> axis, gap |-> gap, cursor |-> 0] /\ panes' = <<>>
  /\ UNCHANGED <<clips, canvas, drawing>>

LayoutTake(extent) ==
  LET next == LayoutNext(layout.bounds, layout.axis, layout.gap, layout.cursor, extent)
  IN /\ Len(panes) < MaxPanes /\ next.status = "ok"
     /\ layout' = [layout EXCEPT !.cursor = next.cursor] /\ panes' = Append(panes, next.rect)
     /\ UNCHANGED <<clips, canvas, drawing>>

DrawNext ==
  \/ \E rect \in Canvases : CanvasInit(rect)
  \/ \E rect \in Canvases : CanvasChild(rect)
  \/ \E widget \in Widgets, fails \in 0..2 : Draw(widget, fails)

LayoutStep ==
  \/ \E bounds \in LayoutBounds, axis \in {"row", "column"}, gap \in 0..2 :
       LayoutInit(bounds, axis, gap)
  \/ \E extent \in 0..3 : LayoutTake(extent)

-----------------------------------------------------------------------------
\* The bar is filled to value * width / maximum, rounded down, though the product
\* itself would not fit a word.
BarIsExact ==
  (drawing.status = "ok" /\ drawing.widget.kind = "progress") =>
    LET value == Lesser(drawing.widget.value, drawing.widget.maximum)
    IN \A width \in 0..2^MultiplierBits - 1 :
         MultiplyDivide(value, width, drawing.widget.maximum)
           = (value * width) \div drawing.widget.maximum

(* A clip cuts, and does nothing else: through any canvases, nested in any   *)
(* order, a widget plots exactly those cells of its whole picture that lie   *)
(* in all of them, with the glyphs they have there (a label does not move, a *)
(* bar does not fill more), in the same order; a plot that fails leaves the  *)
(* start of them.  A bar shows the exact part of its width.                  *)
ClippingOnlyCuts ==
  /\ BarIsExact
  /\ drawing.status \in {"ok", "plot"} =>
    LET everywhere == [x |-> -Int32Limit, y |-> -Int32Limit,
                       width |-> 2 * Int32Limit, height |-> 2 * Int32Limit]
        whole == SelectSeq(Plotted(everywhere, drawing.widget),
                           LAMBDA p : \A i \in DOMAIN drawing.clips : InRect(drawing.clips[i], p))
    IN IF drawing.status = "ok" THEN drawing.plots = whole
       ELSE drawing.plots = SubSeq(whole, 1, Len(drawing.plots))

\* Panes along an axis: each starts after the one before and its gap, none leaves the
\* bounds, and across the axis all are as wide as they are.
InOrder(list, bounds, axis, gap) ==
  /\ \A i \in DOMAIN list :
       /\ StartOf(list[i], axis) >= StartOf(bounds, axis)
       /\ StartOf(list[i], axis) + ExtentOf(list[i], axis)
            <= StartOf(bounds, axis) + ExtentOf(bounds, axis)
       /\ i > 1 => \/ StartOf(list[i], axis)
                        = StartOf(list[i - 1], axis) + ExtentOf(list[i - 1], axis) + gap
                   \/ ExtentOf(list[i], axis) = 0

(* Panes tile: those a sequential layout hands out, and those of a split     *)
(* asked for in any order, lie in the bounds one after the other, a gap      *)
(* apart, at the last coordinates too; the panes of a split cover all of the *)
(* bounds but the gaps and differ by a cell at most; an anchored rectangle   *)
(* lies in its bounds.                                                       *)
PanesTile ==
  LET bounds == layout.bounds
      Split(count, index) == LayoutSplit(bounds, layout.axis, count, layout.gap, index)
  IN layout # NoLayout =>
     /\ InOrder(panes, bounds, layout.axis, layout.gap)
     /\ \A count \in 1..4 :
          (\A index \in 0..count - 1 : Split(count, index).status = "ok") =>
            LET split == [i \in 1..count |-> Split(count, i - 1).rect]
            IN /\ InOrder(split, bounds, layout.axis, layout.gap)
               /\ StartOf(split[1], layout.axis) = StartOf(bounds, layout.axis)
               /\ StartOf(split[count], layout.axis) + ExtentOf(split[count], layout.axis)
                    = StartOf(bounds, layout.axis) + ExtentOf(bounds, layout.axis)
               /\ \A i, j \in 1..count :
                    ExtentOf(split[i], layout.axis) - ExtentOf(split[j], layout.axis) <= 1
     /\ \A width, height \in 0..3, column, row \in 0..2 :
          LET anchored == LayoutAnchor(bounds, width, height, column, row)
          IN anchored.status = "ok" =>
               /\ InOrder(<<anchored.rect>>, bounds, "row", 0)
               /\ InOrder(<<anchored.rect>>, bounds, "column", 0)
               /\ (column = 2 /\ row = 2) =>
                    /\ anchored.rect.x + width = bounds.x + bounds.width
                    /\ anchored.rect.y + height = bounds.y + bounds.height

\* Panes tile their layout, and what is drawn into one is only ever cut at its edge.
InterfaceFits == ClippingOnlyCuts /\ PanesTile
=============================================================================
