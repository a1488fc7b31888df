SPECIFICATION Spec
CONSTANTS
  p1 = p1
  p2 = p2
  f = f
  g = g
  h = h
  m = m
  lam = lam
  f1 = f1
  g1 = g1
  g2 = g2
  g3 = g3
  h1 = h1
  h2 = h2
  m1 = m1
  m2 = m2
  s1 = s1
  s2 = s2
  Proc = {p1}
  Name = {f, g}
  Def = {f1, g1, g3}
  Main <- MCMain
  Parts <- MCParts
  Flags = {TRUE}
  Sig = {s1, s2}
  NoSig = NoSig
  NoEntry = NoEntry
  ForwardCalls = TRUE
  MaxCalls = 3
  MaxCrashes = 0
INVARIANTS LinkedAsVerified
