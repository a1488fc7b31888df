\* After a callee came to call its caller, the caller is linked to the older version of the callee.
SPECIFICATION Spec
CONSTANTS
  main = main
  sub = sub
  a = a
  b = b
  t1 = t1
  t2 = t2
  Fn = {main, sub}
  Thread = {t1, t2}
  Arg = {a, b}
  Base = Base
  Absent = Absent
  Placeholder = Placeholder
  Python = Python
  Worlds <- Turns
INVARIANTS LinkedInCycles
CHECK_DEADLOCK FALSE
