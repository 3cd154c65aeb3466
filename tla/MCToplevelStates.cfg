CONSTANTS
  ssd = ssd
  none = none
  Sizes <- MCSizes
  Modes = {ssd}
  NoMode = none
  Output = 6
  Usable = 4
  MaxSerial = 4
SPECIFICATION StatesSpec
INVARIANTS StatesSettle FullscreenHasSize SavedWhileSpecial
PROPERTIES UnfullscreenToMaximized FollowsAgreement ImplementsHandshake
