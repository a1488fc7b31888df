\* Two kinds of arguments share a specialized name: a caller is linked to the code of the other.
SPECIFICATION Spec
CONSTANTS
  main = main
  sub = sub
  a = a
  b = b
  t1 = t1
  t2 = t2
  Fn = {main, sub}
  Thread = {t1, t2}
  Arg = {a, b}
  Base = Base
  Absent = Absent
  Placeholder = Placeholder
  Python = Python
  Worlds <- Collisions
INVARIANTS LinkedForKey
CHECK_DEADLOCK FALSE
