CONSTANTS
  a1 = a1
  a2 = a2
  f1 = f1
  f2 = f2
  r1 = r1
  c1 = c1
  c2 = c2
  c3 = c3
  Agent = {a1, a2}
  File = {f1, f2}
  Call = {c1, c2}
  Owner <- OwnerOf
  Reader = {}
  Legacy = {a1}
  Limit = 2
  Modes = {"ask", "auto", "full"}
  Expiry = FALSE
  Restarts = TRUE
SPECIFICATION Spec
INVARIANTS
  OneGuardedWriter
  OneAnswer
  LockRecordsAgree
CHECK_DEADLOCK FALSE
