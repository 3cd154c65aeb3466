CONSTANTS
  s1 = s1
  s2 = s2
  w1 = w1
  a1 = a1
  a2 = a2
  a3 = a3
  b1 = b1
  none = none
  Surfaces = {s1}
  WindowOf <- OneWindow
  Pool <- OnePool
  NoBuffer = none
  MaxCommits = 3
SPECIFICATION DamagingSpec
INVARIANTS NoBufferLost WaitersAreDrawn
PROPERTIES AnsweredWhenShown PoolFreeWhenShown FramesAnswered
