CONSTANTS
  Uav = {1, 2}
  Time = {0, 1, 2, 3, 4, 5, 6, 7}
  Coord = {0, 1}
  FrameTimes = {0, 2, 4, 6}
  MaxLines = 4
  Files <- AllFiles
  HeaderNewline = TRUE
SPECIFICATION Spec
INVARIANTS
  FramesAreFile
  NoPanic
  StateValid
  ExactAtFrames
CHECK_DEADLOCK FALSE
