\* @requires above @verify on a generic function is never checked.
SPECIFICATION Spec
CONSTANTS
  main = main
  sub = sub
  a = a
  b = b
  t1 = t1
  t2 = t2
  Fn = {main, sub}
  Thread = {t1, t2}
  Arg = {a, b}
  Base = Base
  Absent = Absent
  Placeholder = Placeholder
  Python = Python
  Worlds <- Refusals
INVARIANTS EntryChecked
CHECK_DEADLOCK FALSE
