\* Tiles of four pixels on a map of four tiles: every position of the screen
\* on the map, every row of tiles, and the limit of sprites at two.
CONSTANTS
  Tile = 4
  MapTiles = 4
  Width = 8
  SpriteRow <- MCSpriteRow
  MaxCount = 2
  WindowX = {3, 6, 10}
  None = None
SPECIFICATION Spec
CHECK_DEADLOCK FALSE
PROPERTIES LineDrawn
