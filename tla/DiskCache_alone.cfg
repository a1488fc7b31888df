SPECIFICATION Spec
CONSTANTS
  Proc = {p1}
  Key = {k1, k2}
  Inode = {i1, i2}
  Sig = {s1, s2}
  NoSig = NoSig
  NoInode = NoInode
  Eof = Eof
  Hole = Hole
  NoIR = NoIR
  Fresh = Fresh
  Empty = Empty
  Garbage = Garbage
  Corrupt = Corrupt
  p1 = p1
  p2 = p2
  k1 = k1
  k2 = k2
  i1 = i1
  i2 = i2
  i3 = i3
  s1 = s1
  s2 = s2
  MaxLen = 3
  Size <- MCSize
  MaxBytes = 3
  MaxCalls = 4
  MaxCrashes = 2
  ShortWrites = TRUE
SYMMETRY Symm
INVARIANTS LoadedIsVerified
