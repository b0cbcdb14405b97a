SPECIFICATION FairSpec
CONSTANTS
  t1 = t1
  t2 = t2
  s = s
  r = r
  v = v
  w = w
  x = x
  Tasks = {t1}
  Subjects = {s}
  Values = {v, w, x}
  Writes <- Anything
  MirrorMode = "remote_authoritative"
  MaxRetries = 1
  ChunkSize = 2
  MaxLate = 1
INVARIANT TypeOK
INVARIANT MirrorCurrent
PROPERTY UpdateInEffect
PROPERTY CallsReturn
