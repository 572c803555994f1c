--------------------------- MODULE FloatingLayers ---------------------------
(***************************************************************************)
(* The menu of a select (Select.tsx) and where the client puts its         *)
(* floating layers: the three hooks that measure an open layer against its *)
(* anchor and the window (use-viewport-clamp.ts, use-anchored-layer.ts).   *)
(* A length is in tenths of a pixel.  A query is the set of the options    *)
(* that it matches; a row is an option's position, the action's after      *)
(* them.                                                                   *)
(***************************************************************************)
EXTENDS Integers, Sequences, FiniteSets

CONSTANTS SelectOptions,  \* [value, disabled], in order
          WithAction,     \* the menu has a trailing action
          Typed,          \* what typed queries match
          Geometries      \* bound: [width, height, bar, left, right, top, bottom, panelW, panelH]

Values == {SelectOptions[i].value : i \in DOMAIN SelectOptions}

ASSUME FloatingLayersAssumption ==
  /\ SelectOptions \in Seq([value : Values, disabled : BOOLEAN])
  /\ \A i, j \in DOMAIN SelectOptions :
       SelectOptions[i].value = SelectOptions[j].value => i = j
  /\ WithAction \in BOOLEAN /\ Typed \subseteq SUBSET Values
  /\ \A g \in Geometries :
       /\ g \in [width : Nat, height : Nat, bar : Nat, left : Int, right : Int, top : Int,
                 bottom : Int, panelW : Nat, panelH : Nat]
       /\ g.left <= g.right /\ g.top <= g.bottom

VARIABLES menu,     \* [open, query, index]
          picked,   \* the value, none or one
          geometry, \* of the window, the anchor and the panel
          layer     \* none, or what the hooks measured: [shift, panel, fixed]

layerVars == <<menu, picked, geometry, layer>>

-----------------------------------------------------------------------------
(* Measures                                                                *)

Gutter == 80
OffsetY == 40

\* To a whole pixel.
Rounded(x) == ((x + 5) \div 10) * 10

\* In from the right edge, then, which wins, in from the left.
ClampShift(left, right, width) ==
  LET shift == IF right > width - Gutter THEN width - Gutter - right ELSE 0
  IN Rounded(IF left + shift < Gutter THEN Gutter - left ELSE shift)

SpaceBelow(g) == g.height - Gutter - g.bottom - OffsetY
SpaceAbove(g) == g.top - Gutter - OffsetY

\* Above the anchor only when below there is too little room, and less.
Below(g) == g.panelH <= SpaceBelow(g) \/ SpaceBelow(g) >= SpaceAbove(g)
Space(g) == IF Below(g) THEN SpaceBelow(g) ELSE SpaceAbove(g)

\* The height is cut to the room, in whole pixels, when it is more.
Height(g) ==
  IF g.panelH <= Space(g) THEN g.panelH
  ELSE IF Space(g) < 0 THEN 0 ELSE (Space(g) \div 10) * 10

\* A panel that overflows on the right is aligned with the anchor's right
\* edge where that fits.  The scroll bar is not room.
AlignRight(g) ==
  /\ g.left + g.panelW > g.width - g.bar - Gutter
  /\ g.right - g.panelW >= Gutter
PanelLeft(g) == IF AlignRight(g) THEN g.right - g.panelW ELSE g.left

PanelPlacement(g) ==
  [below |-> Below(g), alignRight |-> AlignRight(g), height |-> Height(g),
   shift |-> ClampShift(PanelLeft(g), PanelLeft(g) + g.panelW, g.width - g.bar)]

\* A layer fixed to the window flips above where only that fits; it takes
\* its anchor's width.
FixedTop(g) ==
  LET fitsBelow == g.bottom + OffsetY + g.panelH <= g.height - Gutter
      fitsAbove == g.top - OffsetY - g.panelH >= Gutter
  IN IF fitsBelow \/ ~ fitsAbove THEN g.bottom + OffsetY ELSE g.top - OffsetY - g.panelH

Fixed(g) == [left |-> g.left + ClampShift(g.left, g.right, g.width), top |-> FixedTop(g)]

Measured(g) ==
  <<[shift |-> ClampShift(g.left, g.left + g.panelW, g.width),
     panel |-> PanelPlacement(g), fixed |-> Fixed(g)]>>

\* The window is resized: all three measure again.
OnResize ==
  /\ \E g \in Geometries : geometry' = g /\ layer' = IF menu.open THEN Measured(g) ELSE <<>>
  /\ UNCHANGED <<menu, picked>>

\* The anchor scrolls: the fixed layer follows.
OnScroll ==
  /\ \E g \in Geometries :
       /\ g.width = geometry.width /\ g.height = geometry.height /\ g.bar = geometry.bar
       /\ geometry' = g
       /\ layer' = IF menu.open THEN <<[layer[1] EXCEPT !.fixed = Fixed(g)]>> ELSE <<>>
  /\ UNCHANGED <<menu, picked>>

-----------------------------------------------------------------------------
(* The menu                                                                *)

MenuRows(query) ==
  {i \in DOMAIN SelectOptions : SelectOptions[i].value \in query}
  \cup (IF WithAction THEN {Len(SelectOptions) + 1} ELSE {})

\* The rows above one, and the row that has so many.
Rank(row, query) == Cardinality({i \in MenuRows(query) : i < row})
RowAt(index, query) == {i \in MenuRows(query) : Rank(i, query) = index}

RowOfValue(value) == {i \in DOMAIN SelectOptions : value = <<SelectOptions[i].value>>}

ClosedMenu(index) == [open |-> FALSE, query |-> Values, index |-> index]

\* It opens on the row of its value, or else on the first.
OpenMenu ==
  /\ ~ menu.open
  /\ \/ /\ RowOfValue(picked) = {} /\ menu' = [menu EXCEPT !.open = TRUE, !.index = 0]
     \/ \E row \in RowOfValue(picked) :
          menu' = [menu EXCEPT !.open = TRUE, !.index = Rank(row, menu.query)]
  /\ layer' = Measured(geometry)
  /\ UNCHANGED <<picked, geometry>>

\* By its trigger, a pointer outside, or Escape, which stops there.
CloseMenu ==
  /\ menu.open /\ menu' = ClosedMenu(menu.index) /\ layer' = <<>>
  /\ UNCHANGED <<picked, geometry>>

TypeInMenu ==
  /\ menu.open /\ \E q \in Typed \cup {Values} : menu' = [menu EXCEPT !.query = q, !.index = 0]
  /\ UNCHANGED <<picked, geometry, layer>>

ArrowDown ==
  /\ menu.open
  /\ LET last == Cardinality(MenuRows(menu.query)) - 1
     IN menu' = [menu EXCEPT !.index = IF @ + 1 < last THEN @ + 1 ELSE last]
  /\ UNCHANGED <<picked, geometry, layer>>

ArrowUp ==
  /\ menu.open /\ menu' = [menu EXCEPT !.index = IF @ < 1 THEN 0 ELSE @ - 1]
  /\ UNCHANGED <<picked, geometry, layer>>

Hover ==
  /\ menu.open /\ \E row \in MenuRows(menu.query) :
       menu' = [menu EXCEPT !.index = Rank(row, menu.query)]
  /\ UNCHANGED <<picked, geometry, layer>>

\* The active row is committed: a disabled one does nothing; the parent may
\* not take the value, and the action is the parent's.
CommitRow ==
  /\ menu.open
  /\ \E row \in RowAt(menu.index, menu.query) :
       /\ row \in DOMAIN SelectOptions => ~ SelectOptions[row].disabled
       /\ picked' \in {picked} \cup {<<SelectOptions[i].value>> : i \in DOMAIN SelectOptions \cap {row}}
  /\ menu' = ClosedMenu(menu.index) /\ layer' = <<>>
  /\ UNCHANGED geometry

\* The parent sets the value.
SetByParent ==
  /\ picked' \in {<<>>} \cup {<<v>> : v \in Values}
  /\ UNCHANGED <<menu, geometry, layer>>

FloatingLayersInit ==
  /\ menu = ClosedMenu(0) /\ picked = <<>> /\ geometry \in Geometries /\ layer = <<>>

FloatingLayersNext ==
  \/ OnResize \/ OnScroll \/ OpenMenu \/ CloseMenu \/ TypeInMenu \/ ArrowDown \/ ArrowUp \/ Hover
  \/ CommitRow \/ SetByParent

FloatingLayersSpec == FloatingLayersInit /\ [][FloatingLayersNext]_layerVars

-----------------------------------------------------------------------------
(* Properties                                                              *)

FloatingLayersTypeOK ==
  /\ menu \in [open : BOOLEAN, query : SUBSET Values, index : Int] /\ menu.index >= -1
  /\ picked \in {<<>>} \cup {<<v>> : v \in Values} /\ geometry \in Geometries
  /\ menu.open <=> layer # <<>>

\* A closed menu has forgotten its query (Select.tsx:107-122).
ClosedForgets == ~ menu.open => menu.query = Values

\* A menu opens on its value, so that Enter changes nothing (Select.tsx:112-118).
OpensOnItsValue ==
  [][~ menu.open /\ menu'.open /\ picked # <<>> =>
       RowAt(menu'.index, menu'.query) = RowOfValue(picked)]_layerVars

\* A fixed layer is where the window and its anchor want it, whatever has
\* scrolled since it opened (use-anchored-layer.ts:77-90).
FixedFollows == menu.open => layer[1].fixed = Fixed(geometry)

\* A layer is inside the window, to half a pixel, where it can be, and its
\* left edge always.
ShiftFits(left, right, width) ==
  LET shift == ClampShift(left, right, width)
  IN /\ left + shift >= Gutter - 5
     /\ right - left <= width - 2 * Gutter => right + shift <= width - Gutter + 5

\* A panel never covers its anchor, and is inside the window where there is
\* any room (use-viewport-clamp.ts:92-102, 137-148).
PanelFits(g) ==
  /\ Height(g) <= g.panelH
  /\ Space(g) >= 0 =>
       IF Below(g) THEN g.bottom + OffsetY + Height(g) <= g.height - Gutter
       ELSE g.top - OffsetY - Height(g) >= Gutter

LayersFit ==
  layer # <<>> => PanelFits(geometry) /\ ShiftFits(geometry.left, geometry.right, geometry.width)
=============================================================================
