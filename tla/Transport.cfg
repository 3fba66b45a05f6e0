SPECIFICATION Spec
CONSTANTS
  Conn = {c1, c2}
  Fd = {3, 4}
  None = None
  Plaintext = {c2}
  Faulty = {c2}
  Openers = {"io", "app"}
  BufSize = 2
  MaxWrites = 1
  MaxReads = 1
  MaxRetries = 1
INVARIANTS
  EntryInUseLives
  DescriptorsOwned
  OutputIsArmed
CONSTRAINT Uncrossed
CHECK_DEADLOCK FALSE
