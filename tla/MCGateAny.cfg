CONSTANTS
  a1 = a1
  a2 = a2
  f1 = f1
  f2 = f2
  r1 = r1
  c1 = c1
  c2 = c2
  c3 = c3
  Agent = {a1, a2}
  File = {f1}
  Call = {c1, c2, c3}
  Owner <- OwnerOf
  Reader = {r1}
  Legacy = {a1}
  Limit = 1
  Modes = {"ask"}
  Expiry = TRUE
  Restarts = TRUE
SPECIFICATION Spec
PROPERTIES
  KeptWhileWriting
CHECK_DEADLOCK FALSE
