SPECIFICATION Spec
CONSTANTS
  a = a
  b = b
  c = c
  NONE = NONE
  File = {1, 2}
  Handle = {11, 12, 13, 14, 15, 16, 17}
  Task = {1, 2, 3}
  Capacity = 1
  Context = {1, 2}
  Irp = {1, 2}
  Entry = {1, 4, 5, 6}
  Dot = 2
  DotDot = 3
  Program = {a, b, c}
  Inode = {1}
  Case <- MCCase
CHECK_DEADLOCK FALSE
INVARIANTS BooksAgree NfsAnswers DriveAnswers EachOnce NobodyStuck
