\* Every proposal of one or two calls and some longer ones; three tool steps; a
\* model that may never stop asking for calls; the steps rebuilt from the turns
\* and the messages for the provider at every moment.
SPECIFICATION FairTranscriptSpec
CONSTANTS
  a = a  b = b  c = c  echo = echo  read = read  remote = remote  lost = lost
  Ids = {a, b, c}
  Tools = {echo, read, remote, lost}
  Arguments = {1, 2, 3, 4}
  Proposals <- MCProposals
  NativeTools = {echo, read}
  McpTools = {remote}
  EnabledByDefault = {echo}
  MaxToolSteps = 3
  RepeatWindow = 2
  Allowlists <- MCAllowlists
  Unrestricted = Unrestricted
  RequestTurns <- MCRequestTurns
  RequestMessages <- MCRequestMessages
INVARIANTS
  StepBudget
  PlansMakeProgress
  DependenciesFirst
  StartedOnce
  NoRepeatInWindow
  NoStartIsLost
  EveryCallHasItsResult
  RebuildAgrees
  PairedTranscript
PROPERTIES
  ImplementsQueue
  RequestEnds
  LoopShrinks
  TranscriptGrows
\* An answered request has nothing left to do.
CHECK_DEADLOCK FALSE
