SPECIFICATION Spec
CONSTANTS
  Width = 5
  Characters <- MCCharacters
  MaxBuf = 5
  Rows = 3
  Cols = 4
  TabLen = 2
  Controls <- MCControls
  ScanCodes = {2, 7, 28, 158}
  Programs <- MCPrograms
INVARIANTS TypeOK WordsAreTokens NumbersRoundTrip TextOnScreen
PROPERTIES ReadsInOrder ReaderServed
CHECK_DEADLOCK FALSE
