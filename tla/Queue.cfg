SPECIFICATION Spec
CONSTANTS
  c1 = c1  c2 = c2
  BufSizes <- EveryTail
  PackLens <- OneSize
  Junk = 7
  Crews <- EitherCrew
  PeekingCrews <- OneConsumer
  MaxPackets = 6
PROPERTIES
  QueueRefined
  PacketsArePopped
