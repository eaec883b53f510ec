----------------------------- MODULE MCToolkit -----------------------------
(***************************************************************************)
(* The parts of the library that an application drives on its own, for     *)
(* TLC: the particle pool, animations, tweens, sprites, menus, canvases,   *)
(* layouts, and the searches, sights, rays, cameras and edits of a map.    *)
(* They share no state, so a behaviour drives one of them.                 *)
(***************************************************************************)
EXTENDS ParticlePool, Effects, Sprite, UiMenu, UiDraw, MCWorld

VARIABLE driven   \* the part that this behaviour drives

toolkitVars ==
  <<driven, poolVars, animationVars, tweenVars, spriteVars, menuVars, drawVars, worldVars>>

ToolkitInit ==
  /\ driven \in {"pool", "animation", "tween", "sprite", "menu", "focus", "draw", "layout",
                 "world"}
  /\ WorldInit /\ (driven # "world" => caller = "camera")
  /\ Init /\ AnimationStart /\ TweenStart /\ SpriteStart /\ MenuStart /\ DrawStart

PoolStep      == driven = "pool" /\ Next
                 /\ UNCHANGED <<driven, animationVars, tweenVars, spriteVars, menuVars, drawVars, worldVars>>
AnimationStep == driven = "animation" /\ AnimationNext
                 /\ UNCHANGED <<driven, poolVars, tweenVars, spriteVars, menuVars, drawVars, worldVars>>
TweenStep     == driven = "tween" /\ TweenNext
                 /\ UNCHANGED <<driven, poolVars, animationVars, spriteVars, menuVars, drawVars, worldVars>>
SpriteStep    == driven = "sprite" /\ SpriteNext
                 /\ UNCHANGED <<driven, poolVars, animationVars, tweenVars, menuVars, drawVars, worldVars>>
MenuStep      == driven = "menu" /\ MenuNext
                 /\ UNCHANGED <<driven, poolVars, animationVars, tweenVars, spriteVars, drawVars, worldVars>>
FocusStep     == driven = "focus" /\ FocusNext
                 /\ UNCHANGED <<driven, poolVars, animationVars, tweenVars, spriteVars, drawVars, worldVars>>
DrawStep      == driven = "draw" /\ DrawNext
                 /\ UNCHANGED <<driven, poolVars, animationVars, tweenVars, spriteVars, menuVars, worldVars>>
LayingStep    == driven = "layout" /\ LayoutStep
                 /\ UNCHANGED <<driven, poolVars, animationVars, tweenVars, spriteVars, menuVars, worldVars>>
WorldStep     == driven = "world" /\ WorldNext
                 /\ UNCHANGED <<driven, poolVars, animationVars, tweenVars, spriteVars, menuVars,
                                drawVars>>

ToolkitNext ==
  PoolStep \/ AnimationStep \/ TweenStep \/ SpriteStep \/ MenuStep \/ FocusStep \/ DrawStep
  \/ LayingStep \/ WorldStep
ToolkitSpec == ToolkitInit /\ [][ToolkitNext]_toolkitVars

-----------------------------------------------------------------------------
Rect(x, y, width, height) == [x |-> x, y |-> y, width |-> width, height |-> height]

\* Lists that loop, turn and end together and apart; one with no time, one too long.
FrameListsUsed == {<<>>, <<0>>, <<2>>, <<1, 2>>, <<2, 1, 1>>, <<1, 2, 1, 1>>, <<3, 3, 3>>}

TweenEnds == {-2, 0, 3}

SpriteSizesUsed == {[width |-> 1, height |-> 2], [width |-> 3, height |-> 2]}
SpriteClipsUsed == {Rect(-1, 0, 3, 1), Rect(1, -4, 2, 6), Rect(0, 0, 0, 2)}
SpritePositions == {-2, 1}

\* A screen of 6 by 4, its parts, one that is empty and one across the corner of another.
CanvasRects == {Rect(0, 0, 6, 4), Rect(2, 1, 3, 2), Rect(-1, -1, 4, 3), Rect(3, 0, 0, 4),
                Rect(4, 2, 4, 4)}
WidgetRects == {Rect(0, 0, 5, 3), Rect(1, 1, 4, 2), Rect(-2, 0, 5, 1), Rect(2, 1, 6, 3),
                Rect(7, 1, 2, 1), Rect(3, 0, 0, 2)}
WidgetsUsed ==
  {[kind |-> "fill", rect |-> r, ascii |-> TRUE] : r \in WidgetRects} \cup
  {[kind |-> "panel", rect |-> r, ascii |-> TRUE, fills |-> f] : r \in WidgetRects, f \in BOOLEAN} \cup
  {[kind |-> "label", rect |-> r, ascii |-> l # 5, length |-> l, align |-> a] :
     r \in WidgetRects, l \in {0, 2, 4, 5}, a \in {"start", "center", "end"}} \cup
  {[kind |-> "progress", rect |-> r, ascii |-> TRUE, value |-> v, maximum |-> m] :
     r \in WidgetRects, v \in {0, 1, 4, 6}, m \in {5, 7}} \cup
  {[kind |-> "button", rect |-> r, ascii |-> TRUE, length |-> 3] : r \in WidgetRects} \cup
  {[kind |-> "menu", rect |-> r, ascii |-> TRUE, lengths |-> <<2, 0, 3, 1>>, scroll |-> 1,
    selected |-> s] : r \in WidgetRects, s \in {1, 2}}

BoundsUsed == {Rect(0, 0, 5, 2), Rect(3, 1, 4, 7), Rect(5, 6, 3, 2), Rect(-8, -3, 6, 0),
               Rect(-2, -2, 7, 7)}
=============================================================================
