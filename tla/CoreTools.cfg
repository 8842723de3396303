\* Every text of up to three bytes and some longer ones, every limit below, at and beyond its length;
\* the workspace changes between any two accesses of a call.
SPECIFICATION Spec
CONSTANTS
  Outside = Outside  Root = Root  Blank = Blank  Unresolvable = Unresolvable  Unset = Unset
  Entries <- MCEntries
  Hidden = {1}
  Target <- MCTarget
  Workspaces <- MCWorkspaces
  Edits <- MCEdits
  Hosts <- MCHosts
  Statuses <- MCStatuses
  Diffs <- MCDiffs
  Default = 2
  Maximum = 3
INVARIANTS
  TextsAreCutAtCharacters
  ListIsExact
  RaisesHaveACause
  StatusAddsUp
