SPECIFICATION AllSpec
CONSTANTS
  Values = 2
  Frames = 4
  IntBits = 8
  FRAC_BITS = 4
  Data = {255}
  Scales = {64, 256}
  Brightness = {16, 100}
INVARIANTS
  FramesIntact
  LightIsKept
PROPERTIES
  KeepsSending
