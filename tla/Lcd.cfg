\* The real thresholds of a line, on a screen of two lines and two of VBlank;
\* calls that take less than a part of the line and more than the whole line.
CONSTANTS
  Batches = {0, 1, 25, 37, 120}
  LineCycles = 114
  Mode0End = 51
  Mode2End = 71
  Visible = 2
  LineCount = 4
  BlockCycles = 8
  HaltSkips = TRUE
  Lengths = {0, 2}
  Selections = {{}, {3}}
SPECIFICATION Spec
INVARIANTS BeamOnTime DmaExact VBlankReported StatMatchesLine
PROPERTIES LineReported DmaPaced ScreenShown
