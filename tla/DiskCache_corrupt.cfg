SPECIFICATION Spec
CONSTANTS
  Proc = {p1, p2}
  Key = {k1}
  Inode = {i1, i2}
  Sig = {s1}
  NoSig = NoSig
  NoInode = NoInode
  Eof = Eof
  Hole = Hole
  NoIR = NoIR
  Fresh = Fresh
  Empty = Empty
  Garbage = Garbage
  Corrupt = Corrupt
  p1 = p1
  p2 = p2
  k1 = k1
  k2 = k2
  i1 = i1
  i2 = i2
  i3 = i3
  s1 = s1
  s2 = s2
  MaxLen = 2
  Size <- MCSize1
  MaxBytes = 4
  MaxCalls = 2
  MaxCrashes = 0
  ShortWrites = TRUE
INVARIANTS CorruptIsRefused
