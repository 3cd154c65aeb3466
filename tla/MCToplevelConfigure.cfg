CONSTANTS
  csd = csd
  ssd = ssd
  none = none
  Sizes <- MCSizes
  Modes <- MCModes
  NoMode = none
  Output = 6
  MaxSerial = 6
SPECIFICATION Spec
INVARIANTS TypeOK PendingTracksUnacked ConfiguredMeansAcked
PROPERTIES CommitWaitsForAck FillsHostNeverShrinks
