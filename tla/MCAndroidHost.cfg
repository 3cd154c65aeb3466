CONSTANTS
  none = none
  Sizes <- MCSizes
  Outputs <- MCOutputs
  Modes = {}
  NoMode = none
  Output = 6
  MaxEvents = 1
  MaxSerial = 1
  MaxInputs = 2
SPECIFICATION VsyncSpec
INVARIANTS RunningIsKnown
PROPERTIES RecordedSessionEnds FollowsAgreement
