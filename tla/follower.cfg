\* Three lines of which one is blank, reads of one piece and a half line, two turns.
SPECIFICATION FairSpec
CONSTANTS
  MaxLines = 3
  MaxTurns = 2
  MaxRewinds = 2
  Chunk = 3
  Blank <- MCBlank
CHECK_DEADLOCK FALSE
INVARIANTS
  TypeOK
  NothingSkipped
  TextsAreLines
  PassedOnce
PROPERTIES
  FollowsLines
  LinesArePassed
