CONSTANTS
  Uav = {1, 2}
  Time = {0, 1, 2, 3, 4, 5, 6, 7}
  Coord = {0, 1}
  FrameTimes = {0, 2}
  MaxLines = 4
  Files <- LoggedFiles
  HeaderNewline = FALSE
SPECIFICATION Spec
INVARIANTS
  FirstFrameComplete
CHECK_DEADLOCK FALSE
