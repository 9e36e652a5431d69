SPECIFICATION Spec
CONSTANTS
  p3 = p3
  p4 = p4
  p5 = p5
  Packets = {p3, p4, p5}
  PacketLen <- MCPacketLen
  HeaderLen = 2
  BufferLen = 11
  RecvLens = {5, 6}
  None = None
INVARIANTS
  RingSound
PROPERTIES
  ImplementsQueue
  PopsGoOn
