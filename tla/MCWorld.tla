------------------------------- MODULE MCWorld -------------------------------
(* Maps of a few rows for TLC, drawn with one string per row. *)
EXTENDS World

Row(s) == CASE s = "...." -> <<0, 0, 0, 0>> [] s = ".#.." -> <<0, 1, 0, 0>>
            [] s = "..#." -> <<0, 0, 1, 0>> [] s = ".##." -> <<0, 1, 1, 0>>
            [] s = "#..." -> <<1, 0, 0, 0>> [] s = "...#" -> <<0, 0, 0, 1>>
            [] s = "###." -> <<1, 1, 1, 0>> [] s = ".###" -> <<0, 1, 1, 1>>
            [] s = "#.#." -> <<1, 0, 1, 0>> [] s = "##.." -> <<1, 1, 0, 0>>

\* A map of four columns, with an empty layer under the drawn one.
MapOf(rows) ==
  [width |-> 4, height |-> Len(rows), layers |-> 2,
   tiles |-> [i \in 0..8 * Len(rows) - 1 |->
                IF i < 4 * Len(rows) THEN 0
                ELSE Row(rows[((i - 4 * Len(rows)) \div 4) + 1])[(i % 4) + 1]]]

Open   == MapOf(<<"....", "....", "....">>)
Maze   == MapOf(<<".#..", ".##.", "....">>)
Gap    == MapOf(<<"..#.", ".#..", "#...">>)
Closed == MapOf(<<"....", "###.", "..#.">>)
Post   == MapOf(<<"....", ".#..", "....">>)
Pillar == MapOf(<<"....", "..#.", "....">>)
Small  == MapOf(<<"....", ".##.">>)

Route(map, start, goal, diagonal, no_corners) ==
  [map |-> map, layer |-> 1, start |-> start, goal |-> goal, test |-> {1},
   unknown_flags |-> FALSE, diagonal |-> diagonal, no_corners |-> no_corners,
   max_visited |-> 0, points |-> 12, own |-> FALSE]

MCPathRequests ==
  {Route(Maze, <<0, 0>>, <<3, 0>>, d, FALSE) : d \in BOOLEAN}
  \cup {Route(Gap, <<0, 0>>, <<3, 2>>, TRUE, TRUE), Route(Small, <<0, 1>>, <<3, 1>>, TRUE, FALSE),
        Route(Post, <<0, 2>>, <<3, 0>>, TRUE, FALSE), Route(Pillar, <<0, 0>>, <<3, 1>>, TRUE, FALSE),
        Route(Closed, <<0, 0>>, <<0, 2>>, FALSE, FALSE),
        [Route(Maze, <<0, 0>>, <<3, 2>>, TRUE, TRUE) EXCEPT !.max_visited = 3],
        [Route(Open, <<1, 1>>, <<1, 1>>, TRUE, TRUE) EXCEPT !.unknown_flags = TRUE],
        Route(Open, <<1, 1>>, <<1, 1>>, TRUE, TRUE), Route(Open, <<0, 0>>, <<4, 0>>, FALSE, FALSE),
        Route(Maze, <<1, 0>>, <<0, 0>>, TRUE, TRUE)}
  \cup {[Route(Maze, <<0, 0>>, <<3, 2>>, FALSE, FALSE) EXCEPT !.own = TRUE, !.points = n] :
          n \in {4, 12}}
  \cup {[Route(Gap, <<0, 0>>, <<0, 0>>, FALSE, FALSE) EXCEPT !.own = TRUE, !.points = n] :
          n \in {0, 1}}

SightMaps == {MapOf(<<a, b, c, d>>) :
                a \in {"....", ".#.."}, b \in {"....", "..#.", "#...", ".##."},
                c \in {"....", ".#..", "#.#."}, d \in {"....", ".##."}}
MCViews ==
  {[map |-> map, layer |-> 1, origin |-> origin, radius |-> radius, test |-> {1}, room |-> 16] :
     map \in SightMaps, origin \in {<<0, 0>>, <<1, 1>>, <<3, 2>>}, radius \in {2, 4}}
  \cup {[map |-> Open, layer |-> layer, origin |-> origin, radius |-> radius, test |-> {1},
         room |-> room] :
          layer \in {1, 2}, origin \in {<<1, 1>>, <<0, 3>>}, radius \in {0, 3}, room \in {11, 12}}

MCRays ==
  {[map |-> map, layer |-> layer, start |-> start, end |-> end, test |-> {1}] :
     map \in {Open, Maze, Gap, Closed} \cup
             {MapOf(<<"....", "..#.", "....", ".#..", "...#">>)},
     layer \in {1}, start \in {<<0, 0>>, <<3, 0>>, <<1, 2>>, <<0, 4>>, <<4, 1>>},
     end \in (0..3) \X (0..4)}

MCSizes == (1..3) \X {2, 5}
MCEditorSizes == {[width |-> 3, height |-> 2, layers |-> 1], [width |-> 1, height |-> 3, layers |-> 2],
                  [width |-> 2, height |-> 2, layers |-> 2], [width |-> 0, height |-> 2, layers |-> 1],
                  [width |-> 11, height |-> 10, layers |-> 1]}
=============================================================================
