SPECIFICATION System
CONSTANTS
  Bytes <- SomeBytes
  Junk = Junk
  Texts <- ShortTexts
  Sizes = {0}
  Indexes = {0}
  CharSets = {}
  CharMaps = {}
  MaxPrealloc = 3
  FirstBuffer = 2
  IntMax = 127
  MaxBytes = 7
  SplitLines <- ShortLines
  Seps <- SomeSeps
  ArgLines = {}
  Quotables = {}
  FirstSlots = 5
  MaxLong = 1
  NULL = NULL
INVARIANT EmptyGivesNull
