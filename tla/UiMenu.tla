------------------------------- MODULE UiMenu -------------------------------
(***************************************************************************)
(* Menus, focus and buttons (menu.c, focus.c): states the application      *)
(* keeps between events, over items it may enable, disable or replace at   *)
(* any time.  Indices count from zero; items is a sequence of the flags    *)
(* of the items.                                                           *)
(***************************************************************************)
EXTENDS Integers, Sequences

CONSTANTS
  MaxItems,       \* bounds the items of a menu
  MaxRows         \* bounds the rows a menu is given

ASSUME MenuConstants == MaxItems \in Nat \ {0} /\ MaxRows \in Nat

VARIABLES
  items,          \* index + 1 -> whether the item is enabled
  menu,           \* [selected, scroll, wrap]
  focus,          \* [index, count, wrap]
  reply           \* what the last call said: its status, action and rows

menuVars == <<items, menu, focus, reply>>

NoIndex   == -1
ItemLists == UNION {[1..n -> BOOLEAN] : n \in 0..MaxItems}
Count     == Len(items)
Enabled(i) == items[i + 1]
Said(status, action, index) == [status |-> status, action |-> action, index |-> index, rows |-> 0]

MenuStart ==
  /\ items = <<>> /\ menu = [selected |-> NoIndex, scroll |-> 0, wrap |-> FALSE]
  /\ focus = [index |-> NoIndex, count |-> 0, wrap |-> FALSE]
  /\ reply = Said("none", "none", NoIndex)

-----------------------------------------------------------------------------
EnabledOnes == {i \in 0..Count - 1 : Enabled(i)}
Lowest(indices)  == IF indices = {} THEN NoIndex ELSE CHOOSE i \in indices : \A j \in indices : i <= j
Highest(indices) == IF indices = {} THEN NoIndex ELSE CHOOSE i \in indices : \A j \in indices : j <= i
FirstEnabled == Lowest(EnabledOnes)
LastEnabled  == Highest(EnabledOnes)

\* enabled_from: round the whole menu, from start on.
EnabledFrom(start) ==
  LET steps == {k \in 0..Count - 1 : Enabled((start + k) % Count)}
  IN IF steps = {} THEN NoIndex ELSE (start + Lowest(steps)) % Count

\* next_enabled: round the menu once, or to its edge when it does not wrap.
NextEnabled(current, wrap, forward) ==
  LET At(k) == IF forward THEN current + k ELSE current - k
      steps == {k \in 1..Count - 1 : /\ wrap \/ At(k) \in 0..Count - 1
                                     /\ Enabled(At(k) % Count)}
  IN IF steps = {} THEN NoIndex ELSE At(Lowest(steps)) % Count

Scrolled_OneLow(state, rows) ==
  LET scroll == IF rows = 0 \/ state.selected < state.scroll THEN state.selected
                ELSE IF state.selected - state.scroll >= rows THEN state.selected - rows
                ELSE state.scroll
  IN [state EXCEPT !.scroll = IF state.selected = NoIndex THEN 0
                              ELSE IF scroll > Count THEN Count ELSE scroll]

\* scroll_to_selection
Scrolled(state, rows) ==
  LET scroll == IF rows = 0 \/ state.selected < state.scroll THEN state.selected
                ELSE IF state.selected - state.scroll >= rows THEN state.selected - rows + 1
                ELSE state.scroll
  IN [state EXCEPT !.scroll = IF state.selected = NoIndex THEN 0
                              ELSE IF scroll > Count THEN Count ELSE scroll]

\* The application replaces its items; the state of the menu stays.
SetItems(list) ==
  /\ items' = list
  /\ reply' = Said("none", "none", NoIndex) /\ UNCHANGED <<menu, focus>>

MenuInit(start, wrap) ==
  /\ IF Count > 0 /\ start >= Count
     THEN reply' = Said("invalid", "none", NoIndex) /\ UNCHANGED menu
     ELSE /\ menu' = [selected |-> IF Count = 0 THEN NoIndex
                                   ELSE EnabledFrom(IF start = NoIndex THEN 0 ELSE start),
                      scroll |-> 0, wrap |-> wrap]
          /\ reply' = Said("init", "none", NoIndex)
  /\ UNCHANGED <<items, focus>>

\* The selection an event asks for, from a menu whose selection is repaired.
Target(state, event) ==
  LET moved == IF state.selected = NoIndex
               THEN IF event = "down" THEN FirstEnabled ELSE LastEnabled
               ELSE NextEnabled(state.selected, state.wrap, event = "down")
  IN CASE event = "home" -> FirstEnabled
       [] event = "end"  -> LastEnabled
       [] event \in {"up", "down"} -> IF moved = NoIndex THEN state.selected ELSE moved
       [] OTHER -> state.selected

\* A selection that was disabled since the last event falls back to the first.
Repaired(state) ==
  IF state.selected # NoIndex /\ ~Enabled(state.selected)
  THEN [state EXCEPT !.selected = FirstEnabled] ELSE state

Handled(rows, focused, event) ==
  LET shown  == Scrolled(Repaired(menu), rows)
      target == Target(shown, event)
  IN IF ~focused THEN [menu |-> shown, action |-> "none", index |-> NoIndex]
     ELSE IF event = "activate" /\ shown.selected # NoIndex
     THEN [menu |-> shown, action |-> "activated", index |-> shown.selected]
     ELSE IF target # shown.selected
     THEN [menu |-> Scrolled([shown EXCEPT !.selected = target], rows),
           action |-> "selection", index |-> target]
     ELSE [menu |-> shown, action |-> "none", index |-> NoIndex]

Handle(rows, focused, event) ==
  /\ IF (menu.selected # NoIndex /\ menu.selected >= Count) \/ menu.scroll > Count
     THEN reply' = Said("state", "none", NoIndex) /\ UNCHANGED menu
     ELSE IF Count = 0
     THEN /\ menu' = [menu EXCEPT !.selected = NoIndex, !.scroll = 0]
          /\ reply' = Said("ok", "none", NoIndex)
     ELSE LET handled == Handled(rows, focused, event)
          IN /\ menu' = handled.menu
             /\ reply' = [status |-> "ok", action |-> handled.action,
                          index |-> handled.index, rows |-> rows]
  /\ UNCHANGED <<items, focus>>

-----------------------------------------------------------------------------
FocusInit(count, start, wrap) ==
  /\ count = 0 \/ start < count
  /\ focus' = [index |-> IF count = 0 THEN NoIndex ELSE start, count |-> count, wrap |-> wrap]
  /\ reply' = Said("init", "none", NoIndex) /\ UNCHANGED <<items, menu>>

FocusTarget(event) ==
  IF event = "next"
  THEN IF focus.index + 1 < focus.count THEN focus.index + 1
       ELSE IF focus.wrap THEN 0 ELSE focus.index
  ELSE IF focus.index > 0 THEN focus.index - 1
       ELSE IF focus.wrap THEN focus.count - 1 ELSE focus.index

FocusHandle(event) ==
  /\ IF focus.count = 0 \/ FocusTarget(event) = focus.index
     THEN reply' = Said("focus", "none", NoIndex) /\ UNCHANGED focus
     ELSE /\ focus' = [focus EXCEPT !.index = FocusTarget(event)]
          /\ reply' = Said("focus", "focus", FocusTarget(event))
  /\ UNCHANGED <<items, menu>>

\* aforc_ui_button_handle: the button of a widget acts only in focus.
ButtonHandle(index, enabled) ==
  /\ reply' = IF focus.index = index /\ enabled THEN Said("button", "activated", index)
              ELSE Said("button", "none", NoIndex)
  /\ UNCHANGED <<items, menu, focus>>

MenuNext ==
  \/ \E list \in ItemLists : SetItems(list)
  \/ \E start \in {NoIndex} \cup 0..MaxItems - 1, wrap \in BOOLEAN : MenuInit(start, wrap)
  \/ \E rows \in 0..MaxRows, focused \in BOOLEAN,
        event \in {"up", "down", "home", "end", "activate"} : Handle(rows, focused, event)

FocusNext ==
  \/ \E count \in {0, 2, 3}, wrap \in BOOLEAN, start \in 0..2 : FocusInit(count, start, wrap)
  \/ \E event \in {"next", "previous"} : FocusHandle(event)
  \/ \E enabled \in BOOLEAN : ButtonHandle(1, enabled)

MenuSpec == MenuStart /\ [][MenuNext \/ FocusNext]_menuVars

-----------------------------------------------------------------------------
(* Whatever the application does to its items between two events, an event   *)
(* that is answered leaves an enabled item selected as long as there is one, *)
(* within the rows that are shown, activates only that item, and down and up *)
(* undo each other; and a menu whose items went away under its selection     *)
(* refuses the event instead of reading past them.                           *)
MenuFollowsItems ==
  /\ (reply.status = "ok" /\ Count > 0) =>
       /\ menu.selected # NoIndex => Enabled(menu.selected)
       /\ menu.selected = NoIndex /\ reply.action = "selection" => EnabledOnes = {}
       /\ (menu.selected # NoIndex /\ reply.rows > 0) =>
            menu.selected \in menu.scroll..menu.scroll + reply.rows - 1
       /\ reply.action = "activated" => reply.index = menu.selected
       /\ menu.selected # NoIndex =>
            LET down == Target(menu, "down")
            IN down # menu.selected => Target([menu EXCEPT !.selected = down], "up") = menu.selected
  /\ reply.status = "state" => menu.selected >= Count \/ menu.scroll > Count
  /\ focus.count > 0 => focus.index \in 0..focus.count - 1
=============================================================================
