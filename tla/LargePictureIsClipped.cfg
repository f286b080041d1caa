SPECIFICATION ImageSpec
CONSTANTS
  PanelWidth = 8
  PanelHeight = 4
  Sizes = {4, 6, 8}
  MaxParts = 1
  Deadline = 1
  MaxStall = 0
INVARIANT LargePictureIsClipped
CHECK_DEADLOCK FALSE
