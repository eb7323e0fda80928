SPECIFICATION System
CONSTANTS
  Bytes <- SomeBytes
  Junk = Junk
  Texts <- ShortTexts
  Sizes = {0, 1, 2, 3}
  Indexes <- Positions
  CharSets = {{65}, {65, 97}}
  CharMaps <- Swap
  MaxPrealloc = 3
  FirstBuffer = 2
  IntMax = 127
  MaxBytes = 7
  SplitLines <- Lines
  Seps <- SomeSeps
  ArgLines <- WordLines
  Quotables <- QuotedTexts
  FirstSlots = 5
  MaxLong = 127
  NULL = NULL
INVARIANTS TypeOK HeaderExact CallsRight InBounds NoLeak ResultsRight QuotedAgain
PROPERTIES RefinesBytes CallsEnd
