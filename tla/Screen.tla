------------------------------- MODULE Screen -------------------------------
(***************************************************************************)
(* How draw_line (video.c) composes one line: a pass over the background's *)
(* tiles without priority, the window, the sprites, and a second pass over *)
(* the tiles with priority, which come on top.  A pass walks screen and    *)
(* map together and jumps over the tiles that are the other pass's; every  *)
(* pixel must be drawn by one of them, with the map's right column.        *)
(*                                                                         *)
(* A pixel is what was drawn there last; colours are left out, but for     *)
(* whether the background's is colour 0, which sprites behind the          *)
(* background ask for.  The row of the tiles, their flips and their bank   *)
(* are the same for a whole line or tile and are left out.                 *)
(***************************************************************************)
EXTENDS Integers, Sequences

CONSTANTS
  Tile,       \* width of a tile; 8
  MapTiles,   \* tiles in a row of the map; 32
  Width,      \* width of the screen; 160
  SpriteRow,  \* the sprites of a line that are tried
  MaxCount,   \* most sprites drawn on a line; 10
  WindowX,    \* the values of WX that are tried
  None        \* no window

ASSUME SizeAssumption ==
  /\ Tile \in Nat \ {0, 1} /\ MapTiles \in Nat /\ Width \in Nat /\ MaxCount \in Nat
  /\ Width + Tile < MapTiles * Tile

VARIABLES
  mode,     \* has_cgb, or not, or the background is off
  scx, wx,  \* wx is None if the window is not on this line
  kind,     \* of each tile in the row: priority, and is it colour 0?
  sprites,  \* those on this line, by their place in the OAM
  pc,       \* where draw_line is
  sx, ax,   \* in a pass: column of the screen and of the map
  tile,     \* in a pass: the tile that was looked up last
  n, count, \* next sprite, and sprites on this line so far
  vpb       \* the line, and the ends of its neighbours

lineVars == <<mode, scx, wx, kind, sprites>>
passVars == <<sx, ax, tile>>
vars == <<lineVars, pc, passVars, n, count, vpb>>

MapWidth == MapTiles * Tile

Init ==
  /\ mode \in {"cgb", "dmg", "off"}
  /\ scx \in 0 .. MapWidth - 1
  /\ wx \in WindowX \cup {None}
  /\ kind \in [0 .. MapTiles - 1 -> {"plain", "zero", "priority"}]
  /\ sprites \in SpriteRow
  /\ pc = (IF mode = "off" THEN "window" ELSE "plain")
  /\ sx = 0 /\ ax = scx /\ tile = 0
  /\ n = Len(sprites) /\ count = 0
  /\ vpb = [x \in -Tile .. Width + MapWidth |->
              IF mode = "off" /\ x \in 0 .. Width - 1 THEN <<"off">> ELSE <<"old">>]

----------------------------------------------------------------------------
(* draw_bg_line                                                             *)

\* The attributes exist with has_cgb only.
Priority(t) == mode = "cgb" /\ kind[t] = "priority"

InPass == pc \in {"plain", "priority"}

\* A tile is looked up in the first column and where a tile begins.
Boundary == sx = 0 \/ ax % Tile = 0

\* The break compares WX with the column of the map.
AtWindow == Boundary /\ wx # None /\ wx <= ax

Other == Priority(ax \div Tile) # (pc = "priority")

\* Faulty: the map's column wraps around and the screen's does not follow.
BugSkip ==
  LET last == (((ax + Tile + 1) \div Tile) * Tile - 1) % MapWidth IN
  /\ ax' = (last + 1) % MapWidth
  /\ sx' = IF last < scx THEN 0 ELSE last - scx + 1

\* To the end of a tile of the other pass, and on: the sum is one too large
\* and skips a tile more if the line begins in the last column of a tile.
Skip ==
  LET last == (((ax + Tile + 1) \div Tile) * Tile - 1) % MapWidth IN
  /\ ax' = (last + 1) % MapWidth
  /\ sx' = (IF last < scx THEN last - scx + MapWidth ELSE last - scx) + 1

SkipTile ==
  /\ InPass /\ sx < Width /\ Boundary /\ ~AtWindow /\ Other
  /\ Skip
  /\ UNCHANGED <<lineVars, pc, tile, n, count, vpb>>

DrawPixel ==
  /\ InPass /\ sx < Width /\ ~AtWindow /\ ~(Boundary /\ Other)
  /\ tile' = IF Boundary THEN ax \div Tile ELSE tile
  /\ vpb' = [vpb EXCEPT ![sx] = <<"bg", tile', ax % Tile>>]
  /\ sx' = sx + 1 /\ ax' = (ax + 1) % MapWidth
  /\ UNCHANGED <<lineVars, pc, n, count>>

EndPass ==
  /\ InPass /\ (sx >= Width \/ AtWindow)
  /\ pc' = IF pc = "plain" THEN "window" ELSE "done"
  /\ UNCHANGED <<lineVars, passVars, n, count, vpb>>

----------------------------------------------------------------------------
(* draw_line                                                                *)

\* A whole width of tiles from the window's left edge on, beyond the end of
\* the line too.  (WX is never less than 7 here, nor more than 166.)
DrawWindow ==
  /\ pc = "window" /\ pc' = "sprites"
  /\ vpb' = [x \in DOMAIN vpb |->
               IF wx # None /\ x >= wx - (Tile - 1) /\ x < wx - (Tile - 1) + Width
               THEN <<"window">> ELSE vpb[x]]
  /\ UNCHANGED <<lineVars, passVars, n, count>>

\* Only the background's pixels keep their colour number in the high byte.
Opaque(p) == p[1] = "bg" /\ kind[p[2]] # "zero"

DrawSprite(s) ==
  [x \in DOMAIN vpb |->
     IF x >= sprites[s].x /\ x < sprites[s].x + Tile
        /\ ~(sprites[s].behind /\ Opaque(vpb[x]))
     THEN <<"sprite", s>> ELSE vpb[x]]

\* From the last place of the OAM to the first; sprites beside the screen
\* count as well.
NextSprite ==
  /\ pc = "sprites" /\ n > 0 /\ count < MaxCount
  /\ n' = n - 1 /\ count' = count + 1
  /\ vpb' = IF sprites[n].x > -Tile /\ sprites[n].x < Width THEN DrawSprite(n) ELSE vpb
  /\ UNCHANGED <<lineVars, pc, passVars>>

\* The second pass is the first one from its start.
EndSprites ==
  /\ pc = "sprites" /\ (n = 0 \/ count >= MaxCount)
  /\ pc' = IF mode = "cgb" THEN "priority" ELSE "done"
  /\ sx' = 0 /\ ax' = scx /\ tile' = 0
  /\ UNCHANGED <<lineVars, n, count, vpb>>

Next ==
  SkipTile \/ DrawPixel \/ EndPass \/ DrawWindow \/ NextSprite \/ EndSprites

Spec == Init /\ [][Next]_vars /\ WF_vars(Next)

----------------------------------------------------------------------------
(* Properties                                                               *)

Columns == 0 .. Width - 1

\* The background of a column.
Background(x) ==
  LET c == (scx + x) % MapWidth IN
  IF mode = "off" THEN <<"off">> ELSE <<"bg", c \div Tile, c % Tile>>

TileOf(x) == ((scx + x) % MapWidth) \div Tile

\* Lines that the passes do not get right: the jump over a single column
\* takes the next tile along.
JumpsTooFar == scx % Tile = Tile - 1 /\ Priority(TileOf(0)) # Priority(TileOf(1))

\* The sprites that get drawn in a column, and those in front.
Drawn(x) ==
  {s \in 1 .. Len(sprites) :
     s > Len(sprites) - MaxCount /\ x >= sprites[s].x /\ x < sprites[s].x + Tile}
Front(x) == {s \in Drawn(x) : ~sprites[s].behind}

\* Every column shows the background's right pixel, unless a sprite is to
\* be seen there: not under tiles with priority, not a lone one behind what
\* is not colour 0, and never below a sprite of a later place in the OAM.
PlainLine ==
  \A x \in Columns :
    LET hidden == mode # "off" /\ kind[TileOf(x)] # "zero" IN
    /\ Priority(TileOf(x)) => vpb[x] = Background(x)
    /\ Front(x) = {} /\ hidden => vpb[x] = Background(x)
    /\ Drawn(x) = {} => vpb[x] = Background(x)
    /\ ~Priority(TileOf(x)) =>
         \A s \in Front(x) : vpb[x][1] = "sprite" /\ vpb[x][2] <= s

\* With a window and without scrolling: the window from its edge on, the
\* background before, and what is over it in front of both.
WindowLine ==
  \A x \in Columns :
    /\ Drawn(x) = {} =>
         vpb[x] = IF x >= wx - (Tile - 1) THEN <<"window">> ELSE Background(x)
    /\ \A s \in Front(x) : vpb[x][1] = "sprite" /\ vpb[x][2] <= s

\* Every line gets done, with the right pixels: the passes end, wherever
\* they jump to, and between them leave no column out.
LineDrawn ==
  <>(/\ pc = "done"
     /\ wx = None /\ ~JumpsTooFar => PlainLine
     /\ wx # None /\ scx = 0 /\ (\A t \in DOMAIN kind : ~Priority(t)) => WindowLine)
============================================================================
