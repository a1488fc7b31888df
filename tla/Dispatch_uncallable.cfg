\* A call finds the None that another thread's build has put into the cache.
SPECIFICATION Spec
CONSTANTS
  main = main
  sub = sub
  a = a
  b = b
  t1 = t1
  t2 = t2
  Fn = {main, sub}
  Thread = {t1, t2}
  Arg = {a, b}
  Base = Base
  Absent = Absent
  Placeholder = Placeholder
  Python = Python
  Worlds <- Collisions
INVARIANTS NeverUncallable
CHECK_DEADLOCK FALSE
