SPECIFICATION TextSpec
CONSTANTS
  PatternChars = {"a", "b", "*", "?"}
  NameChars = {"a", "b", "*"}
  MaxPattern = 5
  MaxName = 3
  MaxEntries = 3
  Openings <- OpeningTexts
  Alphabet = {"N", "E", "I", "1", "a", "v", "S", "_", "T", "L"}
  MaxTail = 3
  MaxScopes = 3
  kStackLength = 4
  LargestFrame = 5
  WordSize = 2
  LastPages = 16
  FrameAddresses <- FrameAt
  Links = {0, 10, 11, 12, 13, 16}
  MaxStack = 6
  MaxSkip = 2
  MaxDepth = 7
  MaxSymbol = 6
  Pointers <- PointerTexts
  BufSize = 16
  Width = 6
INVARIANTS PatternGoverns FlagEntriesRecovered
           DemangleInverts ParseConvention BufferAllOrNothing
           WalkExact BuildsAgree FrameLineExact
CHECK_DEADLOCK FALSE
