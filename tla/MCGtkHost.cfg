CONSTANTS
  ssd = ssd
  none = none
  Sizes <- MCSizes
  Modes = {ssd}
  NoMode = none
  Output = 6
  MaxEvents = 2
  MaxSerial = 4
  MaxDrags = 3
SPECIFICATION GtkSpec
INVARIANTS SessionsAgree DragSizeHeld
PROPERTIES ImplementsAgreement
