\* The same requests: expected to violate.
SPECIFICATION Spec
CONSTANTS
  Requests <- MCRequests
  Configs <- MCConfigs
  Statuses <- MCStatuses
  Payloads <- MCPayloads
  Unavailable <- MCUnavailable
  MaxToolSteps = 3
  StreamLength = 5
  ReadSize = 2
  NoAnswer = NoAnswer
INVARIANT
  FailuresAreReported
\* An answered request has nothing left to do.
CHECK_DEADLOCK FALSE
