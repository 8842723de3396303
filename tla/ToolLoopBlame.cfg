\* A model that gives two calls of one answer the same id: expected to violate.
SPECIFICATION Spec
CONSTANTS
  a = a  b = b  c = c  echo = echo  read = read  remote = remote  lost = lost
  Ids = {a, b, c}
  Tools = {echo, read, remote, lost}
  Arguments = {1, 2, 3, 4}
  Proposals <- MCProposals
  NativeTools = {echo, read}
  McpTools = {remote}
  EnabledByDefault = {echo}
  MaxToolSteps = 3
  RepeatWindow = 2
  Allowlists <- MCAllowlists
  Unrestricted = Unrestricted
  RequestTurns <- MCRequestTurns
INVARIANT
  ModelErrorsAreNotTheClients
\* An answered request has nothing left to do.
CHECK_DEADLOCK FALSE
