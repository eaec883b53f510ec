----------------------------- MODULE MCRenderer -----------------------------
(* Surfaces, cells and calls for TLC.                                        *)
EXTENDS Renderer, TLC

\* The sizes of the sequences for default colours, without and with bold.
TwoStyles == ("plain" :> 10) @@ ("bold" :> 12)
Columns   == (" " :> 1) @@ ("a" :> 1) @@ ("e" :> 1) @@ ("wide" :> 2) @@ ("mark" :> 0)

Letter == Cell("a", "plain")
Bold   == Cell("a", "bold")
Accent == Cell("e", "plain")
Wide   == Cell("wide", "plain")
Mark   == Cell("mark", "plain")
Raw    == Cell("bell", "plain")

\* Draws single cells at the first points of a row, and resizes nothing.
Row(width, cells) ==
  [first |-> Size(width, 1), windows |-> {Size(width, 1)}, surfaces |-> {},
   cells |-> cells, raw |-> {}, points |-> {<<x, 0>> : x \in 0..width - 1},
   rects |-> {}, texts |-> {}, faults |-> 0]

\* Two things go wrong: writes, allocations, a window of other sizes.
Faulty ==
  [Row(2, {Bold}) EXCEPT
     !.windows  = {Size(2, 1), Size(3, 1)},
     !.surfaces = {Size(1, 2), Size(0, 1), Size(5, 1)},
     !.points   = {<<0, 0>>, <<1, 0>>}, !.raw = {Raw}, !.faults = 2]

\* Draws rectangles and texts over the edges, on surfaces it resizes.
Drawing ==
  [first |-> Size(2, 2), windows |-> {Size(2, 2)},
   surfaces |-> {Size(2, 2), Size(3, 1), Size(1, 3)},
   cells |-> {Letter}, raw |-> {}, points |-> {<<x, y>> : x, y \in -1..2},
   rects |-> {[x |-> x, y |-> y, width |-> w, height |-> h] :
                x, y \in {-1, 1}, w \in {0, 3}, h \in {1, 2}},
   texts |-> {<<"a", "newline", "a">>, <<"a", " ", "a">>, <<"a", "return", " ">>,
              <<"newline", "return", "control", "a">>, <<"a", "high">>},
   faults |-> 0]

MCApplications ==
  {Row(4, {Bold, Accent}), Row(3, {Letter, Wide, Mark}), Faulty, Drawing}
=============================================================================
