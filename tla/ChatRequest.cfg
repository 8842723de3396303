\* Requests of every kind; a stream of up to five units, two to a read.
SPECIFICATION FairSpec
CONSTANTS
  Requests <- MCRequests
  Configs <- MCConfigs
  Statuses <- MCStatuses
  Payloads <- MCPayloads
  Unavailable <- MCUnavailable
  MaxToolSteps = 3
  StreamLength = 5
  ReadSize = 2
  NoAnswer = NoAnswer
INVARIANTS
  DefectsAreRefused
  NoSilentSwitch
  EnabledIsConfigured
  StableErrors
  WholeStream
PROPERTY
  RequestFinishes
\* An answered request has nothing left to do.
CHECK_DEADLOCK FALSE
