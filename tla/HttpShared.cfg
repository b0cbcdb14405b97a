SPECIFICATION Spec
CONSTANTS
  t1 = t1
  t2 = t2
  s = s
  r = r
  v = v
  w = w
  x = x
  Tasks = {t1, t2}
  Subjects = {s}
  Values = {v, w}
  Writes <- OneWriter
  MirrorMode = "writer"
  MaxRetries = 0
  ChunkSize = 1
  MaxLate = 0
INVARIANT MirrorCurrent
