SPECIFICATION Spec
CONSTANTS
  c = c
  b = b
  s = s
  t = t
  g = g
  w1 = w1
  w2 = w2
  None = None
  Workers = {w1, w2}
  Catalogues = {c}
  Bars = {b}
  Scans = {s}
  Ticks = {t}
  Aggregates = {g}
  Commands = {"pause", "resume", "cancel", "retry", "enhance"}
  MaxDisturbances = 2
INVARIANT TypeOK
PROPERTIES ReadyIsSettled HoldIsKept 
