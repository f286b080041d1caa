SPECIFICATION FirmwareSpec
CONSTANTS
  PanelWidth = 16
  PanelHeight = 6
  MaxCoord = 3
  MaxSide = 8
  MaxRadius = 3
  Sizes = {5, 6, 16, 33}
  MaxParts = 2
  Deadline = 3
  MaxStall = 1
  ChunkSize = 5
  MaxRowSize = 68
  BorderInset = 2
  BitmapWidths = {2}
  BitmapHeights = {2}
  Luminances = {52, 100, 250}
  MaxRewinds = 1
  Ditherers = {"atkinson", "floydSteinberg"}
  Leads = {65, 128, 194, 193, 224, 237, 240, 244, 255}
  Tails = {65, 128, 144, 160, 191, 195}
  Codepoints = {65, 127, 128, 2047, 2048, 65535, 65536, 1114111}
  MaxChars = 3
  Characters = {"f", "i", "V", "acute", "cedilla", "missing"}
  MaxText = 4
  MaxLines = 3
  Faces <- TwoFaces
  Families <- TwoFamilies
  MaxPageSlots = 2
  MaxPageGlyphs = 2
  MaxPageGroups = 1
  Letters = {1, 2, 4}
  PageStyles = {"regular", "bold"}
  MaxRecorded = 3
  DictSize = 3
  Literals = {1, 2}
  MaxLength = 4
  MaxSymbols = 2
  MaxBlocks = 2
  Alphabet = 4
  Pieces = {1, 2, 5, 20}
  Items <- FewItems
  MaxLogLines = 2
  MaxLogged = 4
  Loggers = {"loop", "render"}
  MainTask = "loop"
  Saved = {"a", "b"}
  Legacy = "old"
  Default = "default"
  NoValue = "none"
  Numbers = {0, 1, 2, 3, 4}
  SleepRecentCount = 3
  SleepImages = {0, 1, 2}
  MaxShown = 5
  ContinuousStart = 2
  ContinuousInterval = 2
  MaxPause = 3
  MaxClock = 11
  MaxItems = 5
  PollMs = 2
  MaxMillis = 4
  Socs = {0, 120}
  Voltages = {20, 30}
  MaxBody = 4
  StartFailures = {0, 254}
  WakeCounts = {0, 1, 2, 3, 4, 5, 6, 7, 8, 9, 10, 11, 12, 13, 14, 15, 16, 17, 254, 255, 256, 257}
  MaxLost = 2
  Rates = {0, 300}
INVARIANTS
  LineIsStraight
  RoundedRectsAgree
  TriangleIsFilled
  PicturesAgree
  RowsAreReadRight
  ScreenshotIsThePanel
  OnlyEncodingsAreDecoded
  TextIsCutBetweenCharacters
  TextIsDrawnAsMeasured
  WrappedTextFits
  GlyphIsTheRightOne
  EveryWordIsDecoded
  OutputIsTheExpansion
  CrashReportIsGenuine
  LabelsTellTheTruth
  RecentAreTheLast
  PercentageIsRecent
  DownloadIsWholeOrGone
  SleepFollowsFailures
  GhostingIsCleared
PROPERTIES
  PanelShowsThePicture
  DownloadEnds
  ValueIsKept
  EveryPressIsAStep
CHECK_DEADLOCK FALSE
