------------------------------ MODULE MCAssets ------------------------------
(***************************************************************************)
(* The assets, one part at a time: two writers over one file, the paths,   *)
(* the loads, a saved game and a configuration file.                       *)
(***************************************************************************)
EXTENDS Assets

\* Relative and absolute roots that end in each way, one that leads out of itself, and
\* two that are refused.
SmallRoots == {<<>>, <<"r">>, <<"r", "/">>, <<"r", "\\">>, <<"/">>, <<"/", "r">>, <<".", ".">>,
               <<"r", "/", ".", ".", "/">>, <<"~">>, <<"r", "r", "r", "r", "r", "r", "r">>}
SmallPaths ==
  LET texts == UNION {[1..n -> {"a", ".", "/"}] : n \in 0..4}
  IN texts \cup {<<"\\">>, <<"a", ":">>, <<"~">>, <<"a", "a", "a", "a", "a", "a">>}
SmallPolicies ==
  {[max_path_bytes |-> 6, max_component_bytes |-> 3, max_depth |-> 2, allow_hidden |-> hidden] :
     hidden \in BOOLEAN}

SmallItems ==
  {[type |-> "u8", value |-> <<1>>], [type |-> "u16", value |-> <<2>>],
   [type |-> "u32", value |-> <<11>>], [type |-> "u64", value |-> <<141>>],
   [type |-> "i32", value |-> <<-8>>], [type |-> "i32", value |-> <<-1>>],
   [type |-> "i32", value |-> <<7>>], [type |-> "i64", value |-> <<-128>>],
   [type |-> "bytes", value |-> <<0, 1>>], [type |-> "string", value |-> <<>>],
   [type |-> "string", value |-> <<1, 1>>]}

Line(opens, name, value) ==
  [opens |-> opens, long |-> FALSE, formed |-> TRUE, fits |-> TRUE, valid |-> TRUE,
   name |-> name, value |-> value]
SmallLines ==
  LET pair == Line("text", "a", 1)
  IN {Line("none", "", 0), Line("[", "s", 0), pair, Line("text", "a", 2),
      Line("text", "b", 1), Line("text", "c", 1), [pair EXCEPT !.long = TRUE],
      [pair EXCEPT !.formed = FALSE], [pair EXCEPT !.valid = FALSE],
      [Line("[", "s", 0) EXCEPT !.fits = FALSE]}
\* Collisions in every capacity: of two keys, and of the sections of one key.
SmallHash(section, key) ==
  (IF section = "" THEN 0 ELSE 8) + (CASE key = "a" -> 1 [] key = "b" -> 5 [] OTHER -> 3)
=============================================================================
