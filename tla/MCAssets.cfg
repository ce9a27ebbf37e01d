\* The start of the process and the reloads of its assets.
SPECIFICATION FairSpec
CHECK_DEADLOCK FALSE
CONSTANTS
  N4 = 4
  N6 = 16
  Mapped = 4
  Width = 65536
  Label <- MCLabel
  ToLower <- MCToLower
  Names <- MCNames
  Starts <- MCStarts
  Drafts <- MCDrafts
INVARIANTS
  IndexExact
  SearchSound
  BundleComplete
  OverridesExact
  ConfigSound
PROPERTIES
  StaysUp
  ReloadCatchesUp
