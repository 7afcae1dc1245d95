SPECIFICATION FairSpec
CONSTANTS
  p1 = p1
  p2 = p2
  s1 = s1
  s2 = s2
  s3 = s3
  n1 = n1
  n2 = n2
  a = a
  b = b
  Proc = {p1}
  Spelling = {s1, s2, s3}
  Name = {n1, n2}
  Short <- MCShort
  Unit = {a, b}
  Content <- MCContent
  Chunk = 2
  MaxLen = 3
  Commands <- MCAlone
  CallsFail = FALSE
  Absent = Absent
  Garbage = Garbage
PROPERTIES CopyKeepsSource
