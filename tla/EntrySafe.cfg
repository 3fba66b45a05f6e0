SPECIFICATION Spec
CONSTANTS
  Conn = {c1, c2}
  Fd = {3, 4}
  None = None
  Plaintext = {c2}
  Faulty = {}
  Openers = {"app"}
  BufSize = 1
  MaxWrites = 0
  MaxReads = 1
  MaxRetries = 0
INVARIANT EntryIsSafe
CHECK_DEADLOCK FALSE
