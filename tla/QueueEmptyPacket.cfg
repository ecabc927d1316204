SPECIFICATION Spec
CONSTANTS
  c1 = c1  c2 = c2
  BufSizes <- LargeBuffer
  PackLens <- EmptyOrSmall
  Junk = 7
  Crews <- OneConsumer
  PeekingCrews <- Nobody
  MaxPackets = 3
INVARIANT PacketsIntact
