SPECIFICATION Spec
CONSTANTS
  c1 = c1  c2 = c2
  BufSizes <- MixedBuffer
  PackLens <- MixedSizes
  Junk = 7
  Crews <- OneConsumer
  PeekingCrews <- Nobody
  MaxPackets = 4
INVARIANT PacketsIntact
