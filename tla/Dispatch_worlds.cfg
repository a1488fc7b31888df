\* Definitions, redefinitions and calls of generic, overloaded and plain functions.
SPECIFICATION Spec
CONSTANTS
  main = main
  sub = sub
  a = a
  b = b
  t1 = t1
  t2 = t2
  Fn = {main, sub}
  Thread = {t1, t2}
  Arg = {a, b}
  Base = Base
  Absent = Absent
  Placeholder = Placeholder
  Python = Python
  Worlds <- MCWorlds
INVARIANTS TypeOK RunsItsSpecialization VerifiedAsMeant PlaceholderHasBuilder LinkedAsDefined EntryChecked
PROPERTIES CallsReturn
CHECK_DEADLOCK FALSE
